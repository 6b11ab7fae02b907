---------------------- MODULE CredentialExchangeProofs -----------------------
(***************************************************************************)
(* Proofs about CredentialExchange, for any records, concurrent handlers   *)
(* and calls on either side and any number of repeated messages and        *)
(* faults.                                                                 *)
(*                                                                         *)
(* DoneMeansHeld holds even if operations overlap; it only needs what an   *)
(* acknowledgement says (DoneInv).  The others are about exchanges none of *)
(* whose operations overlapped on a record.  They rest on storage and      *)
(* cache being in step and copies being up to date (InStep), on the thread *)
(* having one record at the issuer (OneIssuer), which accepts one request  *)
(* and issues for it once (IssueInv).                                      *)
(*                                                                         *)
(* MetadataKept holds again whatever overlaps: the request metadata of the *)
(* thread are stored before the request exists for anybody else, and are   *)
(* not replaced (MetadataInv).                                             *)
(***************************************************************************)
EXTENDS CredentialExchange, SequenceTheorems, TLAPS

\* What a task may still have to do.
HolderPlans ==
  {<<>>, <<"propose", "sendPropose">>, <<"sendPropose">>, <<"acceptOffer", "sendRequest">>,
   <<"sendRequest">>, <<"abandon">>, <<"storeOffer">>,
   <<"storeOffer", "acceptOffer", "sendRequest">>, <<"process", "sendAck">>, <<"sendAck">>}
IssuerPlans ==
  {<<>>, <<"create", "sendOffer">>, <<"create", "setAttributes", "sendOffer">>,
   <<"create", "register", "sendOffer">>, <<"setAttributes", "sendOffer">>,
   <<"register", "sendOffer">>, <<"sendOffer">>, <<"acceptProposal", "sendOffer">>,
   <<"acceptProposal", "setAttributes", "sendOffer">>, <<"storeProposal">>,
   <<"storeRequest", "decide">>, <<"decide">>, <<"acceptRequest", "sendIssue">>,
   <<"acceptRequest", "unregister", "sendIssue">>, <<"unregister", "sendIssue">>,
   <<"sendIssue">>, <<"ack">>, <<"abandon">>}
PlansOf(x) == IF x \in HolderTasks THEN HolderPlans ELSE IssuerPlans

\* The operation a task is at.
OpOf(p) == IF p = <<>> THEN "none" ELSE Head(p)
Op(x) == OpOf(todo[x])

Creating == {"create", "propose", "storeProposal", "storeOffer"}
Updating == {"acceptProposal", "acceptOffer", "storeRequest", "setAttributes", "acceptRequest",
             "process", "ack", "abandon"}

Works(x) == phase[x] # "load"

\* TypeOK in parts: the records, the counters, the tasks and the messages.
StorageOK ==
  /\ store \in [Rows -> ExchangeRecord \cup {None}] /\ cache \in [Rows -> ExchangeRecord \cup {None}]
  /\ \A r \in Rows : store[r] # None => store[r].state \in StatesOf(r)
  /\ \A r \in Rows : cache[r] # None => store[r] # None /\ cache[r].state \in StatesOf(r)
  /\ registered \subseteq IssuerRows
CountsOK ==
  /\ autoAccept \in BOOLEAN /\ opened \in BOOLEAN
  /\ requests \in Nat /\ issued \in Nat /\ listed \in Nat /\ held \in Nat
  /\ calls \in Nat /\ faults \in Nat
  /\ kept \in Requests /\ metadata \in Requests /\ secret \in BOOLEAN
NetOK ==
  /\ sent \subseteq [type : MessageTypes, request : Requests]
  /\ handled \subseteq [type : MessageTypes, request : Requests]
  /\ replayed \subseteq MessageTypes
  /\ harm \subseteq {"raced", "cut", "torn", "ghost", "locked"}

Phases == {"load", "work", "save", "forget", "store", "cache"}
Context == [row : Rows \cup {None}, request : Requests, auto : BOOLEAN]
TaskFunctions ==
  /\ todo \in [Tasks -> HolderPlans \cup IssuerPlans]
  /\ phase \in [Tasks -> Phases]
  /\ ctx \in [Tasks -> Context]
  /\ copy \in [Tasks -> ExchangeRecord \cup {None}]

\* Which operations have which phases, and which records.
TaskOK(x) ==
  /\ todo[x] \in PlansOf(x)
  /\ Works(x) => Op(x) \in Creating \cup Updating /\ copy[x] # None /\ copy[x].state \in StatesOf(ctx[x].row)
  /\ phase[x] \in {"work", "save"} => Op(x) \in Working
  /\ phase[x] = "forget" => Op(x) = "process"
  /\ Op(x) \in Creating /\ Works(x) => copy[x] = Exchange(Creates[Op(x)])
  /\ Op(x) = "none" => ctx[x] = NoContext
  /\ Op(x) # "none" => ctx[x].row \in Own(x)

Typing == StorageOK /\ CountsOK /\ NetOK /\ TaskFunctions /\ \A x \in Tasks : TaskOK(x)

\* A new record is its task's own, and is not cached before it is stored; the
\* others are cached.
RowInv ==
  \A x \in Tasks : Op(x) # "none" =>
    IF Op(x) \in Creating
      THEN /\ cache[ctx[x].row] = None
           /\ phase[x] # "cache" => store[ctx[x].row] = None
           /\ phase[x] = "cache" => store[ctx[x].row] = copy[x]
           /\ \A y \in Tasks : ctx[y].row = ctx[x].row => y = x
      ELSE cache[ctx[x].row] # None

\* The exchange is opened once.
OpenedInv ==
  /\ ~ opened => /\ sent = {} /\ \A x \in Tasks : Op(x) = "none"
                 /\ \A r \in Rows : store[r] = None
  /\ \A x \in Tasks : Op(x) \in {"create", "propose"} =>
       /\ sent = {}
       /\ \A y \in Tasks : y # x => Op(y) = "none"
       /\ \A r \in Rows : store[r] # None => r = ctx[x].row

\* A request has its number from the moment it is made.
NumberInv ==
  /\ \A m \in sent : m.type = "request" => m.request # None
  /\ \A m \in sent : m.type \notin {"request", "issue"} => m.request = None
  /\ \A x \in Tasks :
       /\ Op(x) \in {"sendRequest", "storeRequest"} => ctx[x].request # None
       /\ Op(x) = "acceptOffer" /\ phase[x] \in {"save", "store", "cache"} => ctx[x].request # None

LocalInv == Typing /\ RowInv /\ OpenedInv /\ NumberInv

\* Whoever says that an exchange is Done, or is about to, does so after the
\* credential was stored.
DoneInv ==
  held = 0 =>
    /\ \A r \in Rows : /\ store[r] # None => store[r].state # "Done"
                       /\ cache[r] # None => cache[r].state # "Done"
    /\ \A m \in sent : m.type # "ack"
    /\ \A x \in Tasks :
         /\ Op(x) \notin {"sendAck", "ack"}
         /\ Op(x) = "process" => phase[x] \in {"load", "work", "save"}
         /\ Works(x) /\ Op(x) # "process" => copy[x].state # "Done"

\* No two operations work on the same record, or on a credential.
Exclusive ==
  \A x, y \in Tasks : Works(x) /\ Works(y) /\ x # y =>
    /\ ctx[x].row # ctx[y].row
    /\ Op(x) # "process" \/ Op(y) # "process"

\* The copy a task is about to store is what is stored, changed.
UpToDate(x) ==
  LET rec == store[ctx[x].row] IN
  /\ rec # None
  /\ Ready(Op(x), rec.state)
  /\ IF Op(x) = "acceptOffer" THEN copy[x].state = "RequestSent"
                              ELSE copy[x] = Changed(Op(x), rec, ctx[x].request)

\* Storage and cache differ only where a task is about to write the cache.
Synced ==
  \A r \in Rows : store[r] # cache[r] => \E x \in Tasks : phase[x] = "cache" /\ ctx[x].row = r

Current(x) ==
  Op(x) \in Updating =>
    /\ phase[x] \in {"work", "save", "forget", "store"} => UpToDate(x)
    /\ phase[x] = "cache" => store[ctx[x].row] = copy[x]

InStep == Exclusive /\ Synced /\ \A x \in Tasks : Current(x)

\* A record the issuer has, or is about to have, of the thread.
Claimed(r) ==
  \/ store[r] # None
  \/ \E x \in Tasks : Op(x) \in {"create", "storeProposal"} /\ ctx[x].row = r

OneIssuer == \A r, s \in IssuerRows : Claimed(r) /\ Claimed(s) => r = s

\* The issuer accepted the request of record r.
PastAccept == {"CredentialIssued", "Done", "Abandoned"}
AcceptedIn(db, r, q) ==
  db[r] # None /\ db[r].state \in PastAccept /\ db[r].request = q /\ q # None
Accepted(r, q) == AcceptedIn(store, r, q)

\* A task is about to send the credential.
Issuing(x) ==
  \/ Op(x) \in {"unregister", "sendIssue"}
  \/ Op(x) = "acceptRequest" /\ phase[x] = "cache"

\* A record has a request from the time one is received, and the request that
\* is about to be accepted is the record's.
RequestInv ==
  /\ \A r \in IssuerRows : store[r] # None =>
       /\ store[r].state \in {"ProposalReceived", "OfferSent"} => store[r].request = None
       /\ store[r].state \in {"RequestReceived", "CredentialIssued"} => store[r].request # None
  /\ \A x \in Tasks : Works(x) /\ Op(x) = "acceptRequest" =>
       store[ctx[x].row].request = ctx[x].request

\* One task sends a credential, for the request that was accepted.
IssuingInv ==
  /\ \A x \in Tasks : Issuing(x) => issued = 0 /\ Accepted(ctx[x].row, ctx[x].request)
  /\ \A x, y \in Tasks : Issuing(x) /\ Issuing(y) => x = y
  /\ issued <= 1
  /\ issued = 1 => \E r \in IssuerRows : Accepted(r, store[r].request)

\* The credentials are for the request that was accepted.
CarriedInv ==
  /\ \A m \in sent : m.type = "issue" => \E r \in IssuerRows : Accepted(r, m.request)
  /\ \A x \in Tasks : Op(x) = "process" =>
       \E r \in IssuerRows : Accepted(r, ctx[x].request)
  /\ held > 0 => \E r \in IssuerRows : Accepted(r, store[r].request)

IssueInv == RequestInv /\ IssuingInv /\ CarriedInv

\* A task has put a credential into the list and is about to save it.
Saving(x) == Op(x) = "process" /\ phase[x] = "save"

\* After the credential was stored the request metadata are gone, first from
\* memory and then from storage, and never those of the accepted request again.
HeldInv ==
  /\ held <= 1
  /\ held = 1 => \A r \in IssuerRows : store[r] # None => kept # store[r].request
  /\ held = 1 /\ (\A x \in Tasks : phase[x] # "forget") =>
       \A r \in IssuerRows : store[r] # None => metadata # store[r].request
  /\ \A x \in Tasks : Saving(x) => held = 0

\* The list has what is stored, and what is about to be.
ListedInv ==
  /\ \A x \in Tasks : Saving(x) => listed = held + 1
  /\ (\A x \in Tasks : ~ Saving(x)) => listed = held

\* The request q exists for somebody but the task that makes it.
MadeBy(x) ==
  (Op(x) = "acceptOffer" /\ phase[x] \in {"store", "cache"}) \/ Op(x) = "sendRequest"
AskedBy(x, q) ==
  \/ (Op(x) = "storeRequest" \/ MadeBy(x)) /\ ctx[x].request = q
  \/ x \notin HolderTasks /\ Works(x) /\ copy[x].request = q /\ q # None
AskedOf(rec, q) == rec # None /\ rec.request = q /\ q # None
Asked(q) ==
  \/ \E m \in sent : m.type = "request" /\ m.request = q
  \/ \E x \in Tasks : AskedBy(x, q)
  \/ \E r \in IssuerRows : AskedOf(store[r], q) \/ AskedOf(cache[r], q)

MetadataInv == held = 0 => \A q \in Requests : Asked(q) => metadata = q

\* A request whose metadata are not stored yet exists for nobody else.
Making(x) == Op(x) = "acceptOffer" /\ phase[x] = "save"
UnaskedInv ==
  \A x \in Tasks : Making(x) =>
    /\ ~ Asked(ctx[x].request)
    /\ \A y \in Tasks : Making(y) /\ y # x => ctx[y].request # ctx[x].request

CredentialInv ==
  /\ LocalInv
  /\ DoneInv
  /\ MetadataInv /\ UnaskedInv
  /\ Unraced =>
       /\ InStep /\ OneIssuer /\ IssueInv
       /\ "torn" \notin harm => HeldInv /\ ("ghost" \notin harm => ListedInv)
-----------------------------------------------------------------------------
(* What the tasks still have to do.                                        *)

Rest(p) == IF Len(p) = 1 THEN <<>> ELSE Tail(p)

\* The operation that follows another in a plan.
After(o, n) ==
  /\ o = "create" => n \in {"sendOffer", "setAttributes", "register"}
  /\ o = "acceptProposal" => n \in {"sendOffer", "setAttributes"}
  /\ o \in {"setAttributes", "register"} => n = "sendOffer"
  /\ o = "storeRequest" => n = "decide"
  /\ o = "acceptRequest" => n \in {"unregister", "sendIssue"}
  /\ o = "unregister" => n = "sendIssue"
  /\ o = "propose" => n = "sendPropose"
  /\ o = "storeOffer" => n \in {"none", "acceptOffer"}
  /\ o = "acceptOffer" => n = "sendRequest"
  /\ o = "process" => n = "sendAck"
  /\ o \in {"storeProposal", "ack", "abandon"} \cup DOMAIN Sending => n = "none"

HolderOps == {"propose", "sendPropose", "acceptOffer", "sendRequest", "abandon", "storeOffer",
              "process", "sendAck"}
IssuerOps == {"create", "setAttributes", "register", "sendOffer", "acceptProposal",
              "storeProposal", "storeRequest", "decide", "acceptRequest", "unregister",
              "sendIssue", "ack", "abandon"}

LEMMA TupleFacts ==
  /\ \A a : /\ <<a>> # <<>> /\ Head(<<a>>) = a /\ Len(<<a>>) = 1
  /\ \A a, b : /\ <<a, b>> # <<>> /\ Head(<<a, b>>) = a /\ Tail(<<a, b>>) = <<b>>
                /\ Len(<<a, b>>) = 2
  /\ \A a, b, c : /\ <<a, b, c>> # <<>> /\ Head(<<a, b, c>>) = a
                   /\ Tail(<<a, b, c>>) = <<b, c>> /\ Len(<<a, b, c>>) = 3
OBVIOUS

LEMMA OpFacts ==
  /\ OpOf(<<>>) = "none"
  /\ \A a : OpOf(<<a>>) = a
  /\ \A a, b : OpOf(<<a, b>>) = a
  /\ \A a, b, c : OpOf(<<a, b, c>>) = a
BY TupleFacts DEF OpOf

LEMMA RestFacts ==
  /\ \A a : Rest(<<a>>) = <<>>
  /\ \A a, b : Rest(<<a, b>>) = <<b>>
  /\ \A a, b, c : Rest(<<a, b, c>>) = <<b, c>>
BY TupleFacts DEF Rest

\* A plan of the holder is one of its operations and what follows it.
LEMMA HolderPlan ==
  ASSUME NEW p \in HolderPlans, p # <<>>
  PROVE  /\ OpOf(p) = Head(p) /\ Head(p) \in HolderOps
         /\ Rest(p) \in HolderPlans /\ After(Head(p), OpOf(Rest(p)))
BY OpFacts, RestFacts, TupleFacts DEF HolderPlans, HolderOps, After, Sending

LEMMA IssuerPlan ==
  ASSUME NEW p \in IssuerPlans, p # <<>>
  PROVE  /\ OpOf(p) = Head(p) /\ Head(p) \in IssuerOps
         /\ Rest(p) \in IssuerPlans /\ After(Head(p), OpOf(Rest(p)))
BY OpFacts, RestFacts, TupleFacts DEF IssuerPlans, IssuerOps, After, Sending

LEMMA SingleProposal ==
  ASSUME NEW p \in HolderPlans \cup IssuerPlans, OpOf(p) = "storeProposal"
  PROVE  p = <<"storeProposal">>
BY OpFacts DEF HolderPlans, IssuerPlans

LEMMA Joined ==
  ASSUME NEW S, NEW a \in S, NEW b \in S
  PROVE  <<a>> \o <<b>> = <<a, b>> /\ <<a>> \o <<>> = <<a>>
<1>2. <<a>> \in Seq(S) /\ <<a, b>> \in Seq(S) /\ Len(<<a>>) = 1 /\ Len(<<a, b>>) = 2
  OBVIOUS
<1>1. Append(<<a>>, b) = <<a, b>>
  <2>1. /\ Append(<<a>>, b) \in Seq(S) /\ Len(Append(<<a>>, b)) = 2
        /\ \A i \in 1 .. 2 : Append(<<a>>, b)[i] = <<a, b>>[i]
    BY <1>2, AppendProperties
  <2> QED BY <1>2, <2>1, SeqEqual
<1> QED BY <1>1, <1>2, AppendIsConcat, ConcatEmptySeq

LEMMA JoinedThree ==
  ASSUME NEW S, NEW a \in S, NEW b \in S, NEW c \in S
  PROVE  <<a, b>> \o <<c>> = <<a, b, c>>
<1>2. /\ <<a, b>> \in Seq(S) /\ <<a, b, c>> \in Seq(S)
      /\ Len(<<a, b>>) = 2 /\ Len(<<a, b, c>>) = 3
  OBVIOUS
<1>1. Append(<<a, b>>, c) = <<a, b, c>>
  <2>1. /\ Append(<<a, b>>, c) \in Seq(S) /\ Len(Append(<<a, b>>, c)) = 3
        /\ \A i \in 1 .. 3 : Append(<<a, b>>, c)[i] = <<a, b, c>>[i]
    BY <1>2, AppendProperties
  <2> QED BY <1>2, <2>1, SeqEqual
<1> QED BY <1>1, <1>2, AppendIsConcat

LEMMA LongPlan ==
  ASSUME NEW p \in HolderPlans \cup IssuerPlans, p # <<>>, Len(p) # 1
  PROVE  Tail(p) # <<>>
<1>1. \/ \E a : p = <<a>>
      \/ \E a, b : p = <<a, b>>
      \/ \E a, b, c : p = <<a, b, c>>
  BY Zenon DEF HolderPlans, IssuerPlans
<1>2. ASSUME NEW a, p = <<a>> PROVE FALSE
  BY <1>2
<1>3. ASSUME NEW a, NEW b, p = <<a, b>> PROVE Tail(p) # <<>>
  BY <1>3, TupleFacts
<1>4. ASSUME NEW a, NEW b, NEW c, p = <<a, b, c>> PROVE Tail(p) # <<>>
  BY <1>4, TupleFacts
<1> QED BY <1>1, <1>2, <1>3, <1>4, Zenon

\* The plans the calls and handlers start with.
LEMMA NewPlans ==
  /\ \A q \in {<<>>, <<"setAttributes">>, <<"register">>} :
       LET p == <<"create">> \o q \o <<"sendOffer">> IN p \in IssuerPlans /\ OpOf(p) = "create"
  /\ \A q \in {<<>>, <<"setAttributes">>} :
       LET p == <<"acceptProposal">> \o q \o <<"sendOffer">>
       IN  p \in IssuerPlans /\ OpOf(p) = "acceptProposal"
<1>1. ASSUME NEW a \in Operations, NEW b \in Operations
      PROVE  <<a>> \o <<>> \o <<b>> = <<a, b>>
  BY Joined, Zenon
<1>2. ASSUME NEW a \in Operations, NEW b \in Operations, NEW c \in Operations
      PROVE  <<a>> \o <<b>> \o <<c>> = <<a, b, c>>
  <2>1. <<a>> \o <<b>> = <<a, b>>
    BY Joined
  <2>2. <<a, b>> \o <<c>> = <<a, b, c>>
    BY JoinedThree
  <2> QED BY <2>1, <2>2
<1>3. {"create", "setAttributes", "register", "acceptProposal", "sendOffer"} \subseteq Operations
  BY DEF Operations, Updates, Creates, Sending
<1>4. /\ <<"create">> \o <<>> \o <<"sendOffer">> = <<"create", "sendOffer">>
      /\ <<"acceptProposal">> \o <<>> \o <<"sendOffer">> = <<"acceptProposal", "sendOffer">>
  BY <1>1, <1>3
<1>5. /\ <<"create">> \o <<"setAttributes">> \o <<"sendOffer">>
           = <<"create", "setAttributes", "sendOffer">>
      /\ <<"create">> \o <<"register">> \o <<"sendOffer">> = <<"create", "register", "sendOffer">>
      /\ <<"acceptProposal">> \o <<"setAttributes">> \o <<"sendOffer">>
           = <<"acceptProposal", "setAttributes", "sendOffer">>
  BY <1>2, <1>3
<1>6. /\ OpOf(<<"create", "sendOffer">>) = "create"
      /\ OpOf(<<"create", "setAttributes", "sendOffer">>) = "create"
      /\ OpOf(<<"create", "register", "sendOffer">>) = "create"
      /\ OpOf(<<"acceptProposal", "sendOffer">>) = "acceptProposal"
      /\ OpOf(<<"acceptProposal", "setAttributes", "sendOffer">>) = "acceptProposal"
  BY OpFacts
<1>7. {<<"create", "sendOffer">>, <<"create", "setAttributes", "sendOffer">>,
       <<"create", "register", "sendOffer">>, <<"acceptProposal", "sendOffer">>,
       <<"acceptProposal", "setAttributes", "sendOffer">>} \subseteq IssuerPlans
  BY DEF IssuerPlans
<1> QED BY <1>4, <1>5, <1>6, <1>7, Zenon
-----------------------------------------------------------------------------
(* What the actions do to the tasks.                                       *)

\* Only task x moves.
Alone(x) ==
  \A y \in Tasks : y # x => /\ todo'[y] = todo[y] /\ phase'[y] = phase[y]
                            /\ ctx'[y] = ctx[y] /\ copy'[y] = copy[y]

Finished(x) ==
  /\ Alone(x)
  /\ todo'[x] = <<>> /\ phase'[x] = "load" /\ ctx'[x] = NoContext /\ copy'[x] = None

Advanced(x) ==
  /\ Alone(x)
  /\ todo'[x] \in PlansOf(x) /\ After(Op(x), OpOf(todo'[x])) /\ phase'[x] = "load"
  /\ OpOf(todo'[x]) = "none" => ctx'[x] = NoContext
  /\ OpOf(todo'[x]) # "none" => ctx'[x] = ctx[x] /\ copy'[x] = copy[x]

Begun(x, o, r, q) ==
  /\ Alone(x)
  /\ Op(x) = "none" /\ phase'[x] = phase[x] /\ copy'[x] = copy[x]
  /\ todo'[x] \in PlansOf(x) /\ OpOf(todo'[x]) = o
  /\ r \in Own(x) /\ ctx'[x].row = r /\ ctx'[x].request = q

LEMMA NoPlan == \A p \in HolderPlans \cup IssuerPlans : OpOf(p) = "none" <=> p = <<>>
<1>1. ASSUME NEW p \in HolderPlans, p # <<>> PROVE OpOf(p) # "none"
  BY <1>1, HolderPlan DEF HolderOps
<1>2. ASSUME NEW p \in IssuerPlans, p # <<>> PROVE OpOf(p) # "none"
  BY <1>2, IssuerPlan DEF IssuerOps
<1> QED BY <1>1, <1>2, OpFacts

\* The operations of each side, and whose records they are about.
LEMMA TaskOps ==
  ASSUME Typing, NEW x \in Tasks
  PROVE  /\ Idle(x) <=> Op(x) = "none"
         /\ ~ Idle(x) => Op(x) = Head(todo[x])
         /\ x \in HolderTasks /\ Op(x) # "none" => Op(x) \in HolderOps /\ ctx[x].row \in HolderRows
         /\ x \notin HolderTasks /\ Op(x) # "none" => Op(x) \in IssuerOps /\ ctx[x].row \in IssuerRows
         /\ Op(x) # "none" => ctx[x].row \in Rows
         /\ Op(x) = "none" => phase[x] = "load" /\ ctx[x].row = None
         /\ Works(x) => Op(x) # "none"
<1>1. todo[x] \in PlansOf(x) /\ TaskOK(x) /\ phase[x] \in Phases
  BY DEF Typing, TaskOK, TaskFunctions
<1>2. Idle(x) <=> Op(x) = "none"
  BY <1>1, NoPlan DEF PlansOf, Op, Idle
<1>3. x \in HolderTasks /\ ~ Idle(x) => Op(x) = Head(todo[x]) /\ Op(x) \in HolderOps
  BY <1>1, HolderPlan DEF PlansOf, Op, Idle
<1>4. x \notin HolderTasks /\ ~ Idle(x) => Op(x) = Head(todo[x]) /\ Op(x) \in IssuerOps
  BY <1>1, IssuerPlan DEF PlansOf, Op, Idle
<1>5. Op(x) # "none" => ctx[x].row \in Own(x)
  BY <1>1 DEF TaskOK
<1>6. Op(x) = "none" => ~ Works(x)
  BY <1>1 DEF TaskOK, Creating, Updating
<1>7. Op(x) = "none" => ctx[x].row = None
  BY <1>1 DEF TaskOK, NoContext
<1> QED BY <1>2, <1>3, <1>4, <1>5, <1>6, <1>7 DEF Own, Works, Rows

LEMMA ReturnFacts ==
  ASSUME Typing, NEW x \in Tasks, Return(x), requests' = requests
  PROVE  Finished(x) /\ TaskFunctions'
<1>1. None \in Requests /\ NoContext \in Context
  BY DEF Requests, Context, NoContext
<1>2. <<>> \in HolderPlans
  BY DEF HolderPlans
<1>3. Requests' = Requests
  BY DEF Requests
<1>4. Finished(x)
  BY DEF Typing, TaskFunctions, Return, Finished, Alone
<1> QED BY <1>1, <1>2, <1>3, <1>4 DEF Typing, TaskFunctions, Return, Phases, Context, ExchangeRecord

LEMMA ProceedFacts ==
  ASSUME Typing, NEW x \in Tasks, ~ Idle(x), Proceed(x), requests' = requests
  PROVE  Advanced(x) /\ TaskFunctions'
<1>1. todo[x] \in PlansOf(x) /\ Op(x) = Head(todo[x])
  BY TaskOps DEF Typing, TaskOK
<1>2. Rest(todo[x]) \in PlansOf(x) /\ After(Op(x), OpOf(Rest(todo[x])))
  BY <1>1, HolderPlan, IssuerPlan DEF PlansOf, Idle
<1>3. CASE Len(todo[x]) = 1
  <2>1. Finished(x) /\ TaskFunctions'
    BY <1>3, ReturnFacts DEF Proceed
  <2>2. Rest(todo[x]) = <<>> /\ OpOf(<<>>) = "none"
    BY <1>3, OpFacts DEF Rest
  <2> QED BY <1>2, <2>1, <2>2 DEF Advanced, Finished
<1>4. CASE Len(todo[x]) # 1
  <2>1. /\ todo' = [todo EXCEPT ![x] = Tail(todo[x])] /\ phase' = [phase EXCEPT ![x] = "load"]
        /\ UNCHANGED <<ctx, copy>>
    BY <1>4 DEF Proceed
  <2>2. Rest(todo[x]) = Tail(todo[x]) /\ Requests' = Requests
    BY <1>4 DEF Rest, Requests
  <2>3. todo'[x] = Rest(todo[x]) /\ phase'[x] = "load" /\ Alone(x)
    BY <2>1, <2>2 DEF Typing, TaskFunctions, Alone
  <2>4. TaskFunctions'
    BY <1>2, <2>1, <2>2 DEF Typing, TaskFunctions, Phases, Context, ExchangeRecord, PlansOf
  <2>5. OpOf(todo'[x]) # "none"
    <3>1. todo[x] # <<>> BY DEF Idle
    <3>2. Tail(todo[x]) # <<>>
      BY <1>1, <1>4, <3>1, LongPlan DEF PlansOf
    <3> QED BY <1>2, <2>2, <2>3, <3>2, NoPlan DEF PlansOf
  <2> QED BY <1>2, <2>1, <2>3, <2>4, <2>5 DEF Advanced
<1> QED BY <1>3, <1>4

LEMMA StartFacts ==
  ASSUME Typing, NEW x \in Tasks, NEW p \in PlansOf(x), NEW r \in Own(x), NEW q \in Requests,
         NEW a \in BOOLEAN, Idle(x), Start(x, p, r, q, a), requests' = requests
  PROVE  Begun(x, OpOf(p), r, q) /\ TaskFunctions'
<1>1. Requests' = Requests /\ r \in Rows
  BY DEF Requests, Own, Rows
<1>2. [row |-> r, request |-> q, auto |-> a] \in Context
  BY <1>1 DEF Context
<1>3. Begun(x, OpOf(p), r, q)
  BY TaskOps DEF Typing, TaskFunctions, Start, Begun, Alone
<1> QED BY <1>1, <1>2, <1>3 DEF Typing, TaskFunctions, Start, Phases, Context, ExchangeRecord, PlansOf

LEMMA SpareFacts ==
  ASSUME NEW own \in {HolderTasks, IssuerTasks}, NEW x \in Tasks, x = Spare(own)
  PROVE  x \in own /\ Idle(x)
<1> DEFINE P(y) == IF y = None THEN \A z \in own : ~ Idle(z) ELSE Idle(y)
<1>1. \E y \in own \cup {None} : P(y)
  <2>1. CASE \A z \in own : ~ Idle(z) BY <2>1
  <2>2. CASE \E z \in own : Idle(z)
    <3>1. PICK z \in own : Idle(z) BY <2>2
    <3>2. z # None BY CredentialAssumption DEF Tasks
    <3> QED BY <3>1, <3>2
  <2> QED BY <2>1, <2>2
<1>2. x \in own \cup {None} /\ P(x)
  BY <1>1 DEF Spare
<1>3. x # None
  BY CredentialAssumption
<1> QED BY <1>2, <1>3

\* A new record's id is stored nowhere and nobody works on it.
Fresh(r) == store[r] = None /\ \A y \in Tasks : ctx[y].row # r

LEMMA NewRowFacts ==
  ASSUME NEW own \in {HolderRows, IssuerRows}, NEW r, r = NewRow(own), r # None
  PROVE  r \in own /\ Fresh(r)
<1> DEFINE P(q) == IF q = None THEN \A s \in own : ~ Fresh(s) ELSE Fresh(q)
<1>1. r = CHOOSE q \in own \cup {None} : P(q)
  BY DEF NewRow, Fresh
<1>2. \E q \in own \cup {None} : P(q)
  <2>1. CASE \A s \in own : ~ Fresh(s) BY <2>1
  <2>2. CASE \E s \in own : Fresh(s)
    BY <2>2, CredentialAssumption DEF Rows
  <2> QED BY <2>1, <2>2
<1> QED BY <1>1, <1>2
-----------------------------------------------------------------------------
(* The kinds of steps in which storage, cache and holder do not change.    *)

Grows == handled \subseteq handled' /\ replayed \subseteq replayed' /\ harm \subseteq harm'
SameWorld == UNCHANGED <<storageVars, requests, kept, metadata, listed, held, issued>>

\* Nothing becomes of a message.
Quiet == UNCHANGED taskVars /\ SameWorld /\ opened' = opened /\ sent' \subseteq sent /\ Grows

\* A task is done or gives up before it has written.
Ends(x) ==
  /\ Finished(x) /\ SameWorld /\ opened' = opened /\ sent' = sent /\ Grows
  /\ phase[x] \in {"load", "work", "save", "store"}
  /\ Saving(x) => "ghost" \in harm'

FirstOps == {"create", "propose", "acceptProposal", "acceptRequest", "acceptOffer", "abandon",
             "storeProposal", "storeOffer", "storeRequest", "process", "ack"}

\* A call or a handler starts.
Begins(x, o, r, q) ==
  /\ Begun(x, o, r, q) /\ SameWorld /\ sent' = sent /\ Grows
  /\ o \in FirstOps
  /\ IF o \in Creating THEN Fresh(r) ELSE cache[r] # None
  /\ IF o \in {"create", "propose"} THEN ~ opened /\ opened' = TRUE ELSE opened' = opened
  /\ o = "storeRequest" => \E m \in sent : m.type = "request" /\ m.request = q
  /\ o = "process" => \E m \in sent : m.type = "issue" /\ m.request = q
  /\ o = "ack" => \E m \in sent : m.type = "ack"
  /\ o = "storeProposal" => /\ sent # {}
                            /\ \A s \in IssuerRows : cache[s] = None
                            /\ Unraced' => \A y \in Tasks : Op(y) # "storeProposal"
  /\ o = "storeOffer" => sent # {}

StartsSomething(x) ==
  \E o \in FirstOps : \E r \in Own(x) : \E q \in Requests : Begins(x, o, r, q)

LEMMA OwnFacts ==
  /\ \A x \in HolderTasks : x \in Tasks /\ Own(x) = HolderRows /\ PlansOf(x) = HolderPlans
  /\ \A x \in IssuerTasks : x \in Tasks /\ Own(x) = IssuerRows /\ PlansOf(x) = IssuerPlans
                            /\ x \notin HolderTasks
  /\ \A x \in Tasks : Own(x) \subseteq Rows
  /\ None \in Requests
BY CredentialAssumption DEF Own, PlansOf, Tasks, Rows, Requests

LEMMA OfferStarts ==
  ASSUME LocalInv, NEW x \in Tasks, Offer(x)
  PROVE  StartsSomething(x) /\ TaskFunctions' /\ CountsOK' /\ NetOK'
<1>0. Typing /\ UNCHANGED <<storageVars, holderVars, issued, netVars, harm>> /\ opened' = TRUE /\ ~ opened
  BY DEF LocalInv, Offer
<1>1. x \in IssuerTasks /\ Idle(x)
  BY SpareFacts DEF Offer
<1>2. PICK q \in {<<>>, <<"setAttributes">>, <<"register">>} :
        Start(x, <<"create">> \o q \o <<"sendOffer">>, NewRow(IssuerRows), None, FALSE)
  BY DEF Offer
<1> DEFINE p == <<"create">> \o q \o <<"sendOffer">>
           r == NewRow(IssuerRows)
<1>3. p \in PlansOf(x) /\ OpOf(p) = "create"
  BY <1>1, NewPlans, OwnFacts
<1>4. r \in IssuerRows /\ Fresh(r)
  BY <1>2, NewRowFacts DEF Start
<1>5. requests' = requests
  BY <1>0 DEF holderVars
<1> HIDE DEF p, r
<1>6. Begun(x, "create", r, None) /\ TaskFunctions'
  BY <1>0, <1>1, <1>2, <1>3, <1>4, <1>5, StartFacts, OwnFacts DEF p, r
<1>7. Begins(x, "create", r, None)
  BY <1>0, <1>4, <1>6 DEF Begins, SameWorld, holderVars, netVars, Grows, FirstOps, Creating
<1>8. CountsOK' /\ NetOK'
  BY <1>0 DEF Offer, Typing, CountsOK, NetOK, holderVars, boundVars, netVars, Requests
<1> QED BY <1>1, <1>4, <1>6, <1>7, <1>8, OwnFacts DEF StartsSomething, FirstOps

LEMMA ProposeStarts ==
  ASSUME LocalInv, NEW x \in Tasks, Propose(x)
  PROVE  StartsSomething(x) /\ TaskFunctions' /\ CountsOK' /\ NetOK'
<1>0. Typing /\ UNCHANGED <<storageVars, holderVars, issued, netVars, harm>> /\ opened' = TRUE /\ ~ opened
  BY DEF LocalInv, Propose
<1>1. x \in HolderTasks /\ Idle(x)
  BY SpareFacts DEF Propose
<1> DEFINE p == <<"propose", "sendPropose">>
           r == NewRow(HolderRows)
<1>2. Start(x, p, r, None, FALSE)
  BY DEF Propose
<1>3. p \in PlansOf(x) /\ OpOf(p) = "propose"
  BY <1>1, OpFacts, OwnFacts DEF HolderPlans
<1>4. r \in HolderRows /\ Fresh(r)
  BY <1>2, NewRowFacts DEF Start
<1>5. requests' = requests
  BY <1>0 DEF holderVars
<1> HIDE DEF p, r
<1>6. Begun(x, "propose", r, None) /\ TaskFunctions'
  BY <1>0, <1>1, <1>2, <1>3, <1>4, <1>5, StartFacts, OwnFacts
<1>7. Begins(x, "propose", r, None)
  BY <1>0, <1>4, <1>6 DEF Begins, SameWorld, holderVars, netVars, Grows, FirstOps, Creating
<1>8. CountsOK' /\ NetOK'
  BY <1>0 DEF Propose, Typing, CountsOK, NetOK, holderVars, boundVars, netVars, Requests
<1> QED BY <1>1, <1>4, <1>6, <1>7, <1>8, OwnFacts DEF StartsSomething, FirstOps

LEMMA AcceptStarts ==
  ASSUME LocalInv, NEW x \in Tasks, Accept(x)
  PROVE  StartsSomething(x) /\ TaskFunctions' /\ CountsOK' /\ NetOK'
<1>0. Typing /\ UNCHANGED <<opened, storageVars, holderVars, issued, netVars, harm>>
  BY DEF LocalInv, Accept
<1>1. Idle(x) /\ (x \in HolderTasks \/ x \in IssuerTasks)
  BY SpareFacts DEF Accept
<1>2. PICK r \in Found(x) :
        \/ /\ cache[r].state = "ProposalReceived"
           /\ \E p \in {<<>>, <<"setAttributes">>} :
                Start(x, <<"acceptProposal">> \o p \o <<"sendOffer">>, r, None, FALSE)
        \/ /\ cache[r].state = "RequestReceived"
           /\ Start(x, <<"acceptRequest", "sendIssue">>, r, None, FALSE)
        \/ /\ cache[r].state = "OfferReceived"
           /\ Start(x, <<"acceptOffer", "sendRequest">>, r, None, FALSE)
  BY DEF Accept
<1>3. r \in Own(x) /\ cache[r] # None /\ r \in Rows
  BY OwnFacts DEF Found
<1>4. requests' = requests
  BY <1>0 DEF holderVars
<1>5. cache[r].state \in (IF x \in HolderTasks THEN HolderStates ELSE IssuerStates)
  BY <1>0, <1>3, CredentialAssumption DEF Typing, StorageOK, StatesOf, Own, Rows
<1>10. CountsOK' /\ NetOK'
  BY <1>0 DEF Accept, Call, Typing, CountsOK, NetOK, holderVars, netVars, Requests
<1>6. ASSUME NEW p \in PlansOf(x), Start(x, p, r, None, FALSE),
             OpOf(p) \in {"acceptProposal", "acceptRequest", "acceptOffer"}
      PROVE  StartsSomething(x) /\ TaskFunctions'
  <2>1. Begun(x, OpOf(p), r, None) /\ TaskFunctions'
    BY <1>0, <1>1, <1>3, <1>4, <1>6, StartFacts, OwnFacts
  <2>2. Begins(x, OpOf(p), r, None)
    BY <1>0, <1>3, <1>6, <2>1 DEF Begins, SameWorld, holderVars, netVars, Grows, FirstOps, Creating
  <2> QED BY <1>3, <1>6, <2>1, <2>2, OwnFacts DEF StartsSomething, FirstOps
<1>7. CASE \E p \in {<<>>, <<"setAttributes">>} :
             Start(x, <<"acceptProposal">> \o p \o <<"sendOffer">>, r, None, FALSE)
             /\ cache[r].state = "ProposalReceived"
  <2>1. x \notin HolderTasks BY <1>5, <1>7 DEF HolderStates, Terminal
  <2>2. PICK p \in {<<>>, <<"setAttributes">>} :
             Start(x, <<"acceptProposal">> \o p \o <<"sendOffer">>, r, None, FALSE)
    BY <1>7
  <2> DEFINE P == <<"acceptProposal">> \o p \o <<"sendOffer">>
  <2>3. P \in PlansOf(x) /\ OpOf(P) = "acceptProposal"
    BY <2>1, NewPlans DEF PlansOf
  <2> HIDE DEF P
  <2>4. Start(x, P, r, None, FALSE) BY <2>2 DEF P
  <2>5. OpOf(P) \in {"acceptProposal", "acceptRequest", "acceptOffer"} BY <2>3
  <2> QED BY <1>6, <1>10, <2>3, <2>4, <2>5, Zenon
<1>8. CASE /\ Start(x, <<"acceptRequest", "sendIssue">>, r, None, FALSE)
           /\ cache[r].state = "RequestReceived"
  <2>1. x \notin HolderTasks BY <1>5, <1>8 DEF HolderStates, Terminal
  <2>2. /\ <<"acceptRequest", "sendIssue">> \in PlansOf(x)
        /\ OpOf(<<"acceptRequest", "sendIssue">>) = "acceptRequest"
    BY <2>1, OpFacts DEF PlansOf, IssuerPlans
  <2>3. OpOf(<<"acceptRequest", "sendIssue">>) \in {"acceptProposal", "acceptRequest", "acceptOffer"}
    BY <2>2
  <2> QED BY <1>6, <1>10, <1>8, <2>2, <2>3, Zenon
<1>9. CASE /\ Start(x, <<"acceptOffer", "sendRequest">>, r, None, FALSE)
           /\ cache[r].state = "OfferReceived"
  <2>1. x \in HolderTasks BY <1>5, <1>9 DEF IssuerStates, Terminal
  <2>2. /\ <<"acceptOffer", "sendRequest">> \in PlansOf(x)
        /\ OpOf(<<"acceptOffer", "sendRequest">>) = "acceptOffer"
    BY <2>1, OpFacts DEF PlansOf, HolderPlans
  <2>3. OpOf(<<"acceptOffer", "sendRequest">>) \in {"acceptProposal", "acceptRequest", "acceptOffer"}
    BY <2>2
  <2> QED BY <1>6, <1>10, <1>9, <2>2, <2>3, Zenon
<1> QED BY <1>2, <1>7, <1>8, <1>9, <1>10

LEMMA AbandonStarts ==
  ASSUME LocalInv, NEW x \in Tasks, Abandon(x)
  PROVE  StartsSomething(x) /\ TaskFunctions' /\ CountsOK' /\ NetOK'
<1>0. /\ Typing /\ UNCHANGED <<opened, storageVars, holderVars, issued, netVars>>
      /\ harm' = harm \cup {"cut"}
  BY DEF LocalInv, Abandon
<1>1. Idle(x)
  BY SpareFacts DEF Abandon
<1>2. PICK r \in Found(x) : Start(x, <<"abandon">>, r, None, FALSE)
  BY DEF Abandon
<1>3. r \in Own(x) /\ cache[r] # None
  BY DEF Found
<1>4. requests' = requests
  BY <1>0 DEF holderVars
<1>5. <<"abandon">> \in PlansOf(x) /\ OpOf(<<"abandon">>) = "abandon"
  BY OpFacts DEF PlansOf, HolderPlans, IssuerPlans
<1>6. Begun(x, "abandon", r, None) /\ TaskFunctions'
  BY <1>0, <1>1, <1>2, <1>3, <1>4, <1>5, StartFacts, OwnFacts
<1>7. Begins(x, "abandon", r, None)
  BY <1>0, <1>3, <1>6 DEF Begins, SameWorld, holderVars, netVars, Grows, FirstOps, Creating
<1>8. CountsOK' /\ NetOK'
  BY <1>0 DEF Abandon, Call, Typing, CountsOK, NetOK, holderVars, netVars, Requests
<1> QED BY <1>3, <1>6, <1>7, <1>8, OwnFacts DEF StartsSomething, FirstOps

LEMMA HandleStarts ==
  ASSUME LocalInv, NEW x \in Tasks, NEW m \in sent, Handle(x, m)
  PROVE  (StartsSomething(x) \/ Quiet) /\ TaskFunctions' /\ CountsOK' /\ NetOK'
<1>0. /\ Typing /\ UNCHANGED <<autoAccept, opened, storageVars, holderVars, issued, sent, boundVars>>
      /\ handled' = handled \cup {m}
      /\ harm' = IF \E y \in IssuerTasks : todo'[x] = <<"storeProposal">> /\ todo[y] = todo'[x]
                   THEN harm \cup {"raced"} ELSE harm
  BY DEF LocalInv, Handle
<1>1. m \in [type : MessageTypes, request : Requests] /\ Grows
  <2>1. m \in [type : MessageTypes, request : Requests] BY <1>0 DEF Typing, NetOK
  <2>2. replayed \subseteq replayed' /\ (m \in handled => m.type \in replayed') BY DEF Handle
  <2> QED BY <1>0, <2>1, <2>2 DEF Grows
<1>2. CountsOK' /\ NetOK'
  <2>1. replayed' \subseteq replayed \cup {m.type} BY DEF Handle
  <2>2. Requests' = Requests BY <1>0 DEF Requests, holderVars
  <2> QED BY <1>0, <1>1, <2>1, <2>2 DEF Typing, CountsOK, NetOK, holderVars, boundVars
<1>3. requests' = requests /\ m.request \in Requests
  BY <1>0, <1>1 DEF holderVars
<1>4. ASSUME UNCHANGED taskVars
      PROVE  Quiet /\ TaskFunctions'
  <2>1. Requests' = Requests BY <1>3 DEF Requests
  <2> QED BY <1>0, <1>1, <1>4, <2>1 DEF Quiet, SameWorld, holderVars, taskVars, Typing, TaskFunctions, Context,
                                        ExchangeRecord
<1>5. ASSUME Idle(x), NEW p \in PlansOf(x), NEW r \in Found(x), NEW q \in Requests, NEW a \in BOOLEAN,
             Start(x, p, r, q, a), OpOf(p) \in {"storeRequest", "process", "ack"},
             OpOf(p) = "storeRequest" => m.type = "request" /\ m.request = q,
             OpOf(p) = "process" => m.type = "issue" /\ m.request = q,
             OpOf(p) = "ack" => m.type = "ack"
      PROVE  StartsSomething(x) /\ TaskFunctions'
  <2>1. r \in Own(x) /\ cache[r] # None BY DEF Found
  <2>2. Begun(x, OpOf(p), r, q) /\ TaskFunctions'
    BY <1>0, <1>3, <1>5, <2>1, StartFacts
  <2>3. Begins(x, OpOf(p), r, q)
    BY <1>0, <1>1, <1>5, <2>1, <2>2 DEF Begins, SameWorld, holderVars, FirstOps, Creating
  <2> QED BY <1>5, <2>1, <2>2, <2>3 DEF StartsSomething, FirstOps
<1>6. ASSUME x = Spare(IssuerTasks), m.type = "propose", HandlePropose(x)
      PROVE  (StartsSomething(x) \/ Quiet) /\ TaskFunctions'
  <2>1. x \in IssuerTasks /\ Idle(x) BY <1>6, SpareFacts
  <2>2. CASE UNCHANGED taskVars BY <1>4, <2>2
  <2>3. CASE Found(x) = {} /\ Start(x, <<"storeProposal">>, NewRow(IssuerRows), None, FALSE)
    <3> DEFINE r == NewRow(IssuerRows)
    <3>1. r \in IssuerRows /\ Fresh(r) BY <2>3, NewRowFacts DEF Start
    <3>2. <<"storeProposal">> \in PlansOf(x) /\ OpOf(<<"storeProposal">>) = "storeProposal"
      BY <2>1, OpFacts, OwnFacts DEF IssuerPlans
    <3> HIDE DEF r
    <3>3. Begun(x, "storeProposal", r, None) /\ TaskFunctions'
      BY <1>0, <1>3, <2>1, <2>3, <3>1, <3>2, StartFacts, OwnFacts DEF r
    <3>4. \A s \in IssuerRows : cache[s] = None BY <2>1, <2>3, OwnFacts DEF Found
    <3>5. todo'[x] = <<"storeProposal">> BY <1>0, <2>3 DEF Start, Typing, TaskFunctions
    <3>6. Unraced' => \A y \in Tasks : Op(y) # "storeProposal"
      <4> SUFFICES ASSUME NEW y \in Tasks, Op(y) = "storeProposal" PROVE "raced" \in harm'
        BY DEF Unraced
      <4>1. todo[y] = <<"storeProposal">>
        BY <1>0, SingleProposal DEF Op, Typing, TaskFunctions
      <4>2. y \in IssuerTasks
        BY <1>0, TaskOps DEF HolderOps, Tasks
      <4> QED BY <1>0, <3>5, <4>1, <4>2
    <3>7. Begins(x, "storeProposal", r, None)
      BY <1>0, <1>1, <3>1, <3>3, <3>4, <3>6 DEF Begins, SameWorld, holderVars, FirstOps, Creating
    <3> QED BY <2>1, <3>1, <3>3, <3>7, OwnFacts DEF StartsSomething, FirstOps
  <2> QED BY <1>6, <2>2, <2>3 DEF HandlePropose
<1>7. ASSUME x = Spare(IssuerTasks), m.type = "request", HandleRequest(x, m.request)
      PROVE  (StartsSomething(x) \/ Quiet) /\ TaskFunctions'
  <2>1. x \in IssuerTasks /\ Idle(x) BY <1>7, SpareFacts
  <2>2. CASE UNCHANGED taskVars BY <1>4, <2>2
  <2>3. CASE \E r \in Found(x) : Start(x, <<"storeRequest", "decide">>, r, m.request, cache[r].auto)
    <3>1. PICK r \in Found(x) : Start(x, <<"storeRequest", "decide">>, r, m.request, cache[r].auto)
      BY <2>3
    <3>2. /\ <<"storeRequest", "decide">> \in PlansOf(x)
          /\ OpOf(<<"storeRequest", "decide">>) = "storeRequest"
      BY <2>1, OpFacts, OwnFacts DEF IssuerPlans
    <3>3. cache[r].auto \in BOOLEAN
      BY <1>0, OwnFacts DEF Found, Typing, StorageOK, ExchangeRecord
    <3> DEFINE p == <<"storeRequest", "decide">>
    <3>4. p \in PlansOf(x) /\ OpOf(p) = "storeRequest" /\ Start(x, p, r, m.request, cache[r].auto)
      BY <3>1, <3>2
    <3> HIDE DEF p
    <3> QED BY <1>3, <1>5, <1>7, <2>1, <3>3, <3>4
  <2> QED BY <1>7, <2>2, <2>3 DEF HandleRequest
<1>8. ASSUME x = Spare(IssuerTasks), m.type = "ack", HandleAck(x)
      PROVE  (StartsSomething(x) \/ Quiet) /\ TaskFunctions'
  <2>1. x \in IssuerTasks /\ Idle(x) BY <1>8, SpareFacts
  <2>2. CASE UNCHANGED taskVars BY <1>4, <2>2
  <2>3. CASE \E r \in Found(x) : Start(x, <<"ack">>, r, None, FALSE)
    <3> DEFINE p == <<"ack">>
    <3>1. PICK r \in Found(x) : Start(x, p, r, None, FALSE) BY <2>3
    <3>2. p \in PlansOf(x) /\ OpOf(p) = "ack"
      BY <2>1, OpFacts, OwnFacts DEF IssuerPlans
    <3> HIDE DEF p
    <3> QED BY <1>5, <1>8, <2>1, <3>1, <3>2, OwnFacts
  <2> QED BY <1>8, <2>2, <2>3 DEF HandleAck
<1>9. ASSUME x = Spare(HolderTasks), m.type = "offer", HandleOffer(x)
      PROVE  StartsSomething(x) /\ TaskFunctions'
  <2>1. x \in HolderTasks /\ Idle(x) BY <1>9, SpareFacts
  <2> DEFINE p == IF autoAccept THEN <<"storeOffer", "acceptOffer", "sendRequest">> ELSE <<"storeOffer">>
             r == NewRow(HolderRows)
  <2>2. Start(x, p, r, None, FALSE) BY <1>9 DEF HandleOffer
  <2>3. p \in PlansOf(x) /\ OpOf(p) = "storeOffer"
    BY <2>1, OpFacts, OwnFacts DEF HolderPlans
  <2>4. r \in HolderRows /\ Fresh(r) BY <2>2, NewRowFacts DEF Start
  <2> HIDE DEF p, r
  <2>5. Begun(x, "storeOffer", r, None) /\ TaskFunctions'
    BY <1>0, <1>3, <2>1, <2>2, <2>3, <2>4, StartFacts, OwnFacts
  <2>8. Begins(x, "storeOffer", r, None)
    BY <1>0, <1>1, <2>4, <2>5 DEF Begins, SameWorld, holderVars, FirstOps, Creating
  <2> QED BY <2>1, <2>4, <2>5, <2>8, OwnFacts DEF StartsSomething, FirstOps
<1>10. ASSUME x = Spare(HolderTasks), m.type = "issue", HandleIssue(x, m.request)
       PROVE  (StartsSomething(x) \/ Quiet) /\ TaskFunctions'
  <2>1. x \in HolderTasks /\ Idle(x) BY <1>10, SpareFacts
  <2>2. CASE UNCHANGED taskVars BY <1>4, <2>2
  <2>3. CASE \E r \in Found(x) : Start(x, <<"process", "sendAck">>, r, m.request, FALSE)
    <3> DEFINE p == <<"process", "sendAck">>
    <3>1. PICK r \in Found(x) : Start(x, p, r, m.request, FALSE) BY <2>3
    <3>2. p \in PlansOf(x) /\ OpOf(p) = "process"
      BY <2>1, OpFacts, OwnFacts DEF HolderPlans
    <3> HIDE DEF p
    <3> QED BY <1>3, <1>5, <1>10, <2>1, <3>1, <3>2
  <2> QED BY <1>10, <2>2, <2>3 DEF HandleIssue
<1>11. \/ x = Spare(IssuerTasks) /\ m.type = "propose" /\ HandlePropose(x)
       \/ x = Spare(IssuerTasks) /\ m.type = "request" /\ HandleRequest(x, m.request)
       \/ x = Spare(IssuerTasks) /\ m.type = "ack" /\ HandleAck(x)
       \/ x = Spare(HolderTasks) /\ m.type = "offer" /\ HandleOffer(x)
       \/ x = Spare(HolderTasks) /\ m.type = "issue" /\ HandleIssue(x, m.request)
  BY DEF Handle
<1> QED BY <1>2, <1>6, <1>7, <1>8, <1>9, <1>10, <1>11

LEMMA LoseQuiet ==
  ASSUME Typing, NEW m \in sent, Lose(m)
  PROVE  Quiet /\ TaskFunctions' /\ CountsOK' /\ NetOK'
<1>1. Requests' = Requests BY DEF Lose, holderVars, Requests
<1> QED BY <1>1 DEF Lose, Fault, Quiet, SameWorld, Grows, taskVars, holderVars, Typing, TaskFunctions,
                    CountsOK, NetOK, Context, ExchangeRecord

LEMMA StutterQuiet ==
  ASSUME Typing, UNCHANGED vars
  PROVE  Quiet /\ TaskFunctions' /\ CountsOK' /\ NetOK'
<1>1. Requests' = Requests BY DEF vars, holderVars, Requests
<1> QED BY <1>1 DEF vars, Quiet, SameWorld, Grows, taskVars, holderVars, netVars, boundVars, Typing,
                    TaskFunctions, CountsOK, NetOK, Context, ExchangeRecord

LEMMA LoadSecretQuiet ==
  ASSUME Typing, LoadSecret
  PROVE  Quiet /\ TaskFunctions' /\ CountsOK' /\ NetOK'
<1>1. Requests' = Requests BY DEF LoadSecret, Requests
<1> QED BY <1>1 DEF LoadSecret, Quiet, SameWorld, Grows, taskVars, netVars, boundVars, Typing,
                    TaskFunctions, CountsOK, NetOK, Context, ExchangeRecord

LEMMA FailEnds ==
  ASSUME Typing, NEW x \in Tasks, Fail(x)
  PROVE  Ends(x) /\ TaskFunctions' /\ CountsOK' /\ NetOK'
<1>1. requests' = requests /\ Requests' = Requests BY DEF Fail, holderVars, Requests
<1>2. Finished(x) /\ TaskFunctions' BY <1>1, ReturnFacts DEF Fail
<1>3. phase[x] \in {"load", "work", "save", "store"}
  <2>1. CASE phase[x] \in {"work", "save", "store"} BY <2>1
  <2>2. CASE Head(todo[x]) \in DOMAIN Sending
    <3>1. Op(x) \in DOMAIN Sending BY <2>2, TaskOps DEF Fail
    <3>2. ~ Works(x) BY <3>1 DEF Typing, TaskOK, Creating, Updating, Sending
    <3> QED BY <3>2 DEF Works
  <2> QED BY <2>1, <2>2 DEF Fail
<1>4. Saving(x) => "ghost" \in harm' BY TaskOps DEF Fail, Saving
<1>5. harm \subseteq harm' /\ harm' \subseteq harm \cup {"cut", "ghost"} BY DEF Fail
<1>6. SameWorld BY DEF Fail, SameWorld, holderVars
<1>7. CountsOK' /\ NetOK'
  BY <1>1, <1>5 DEF Fail, Fault, netVars, holderVars, Typing, CountsOK, NetOK
<1> QED BY <1>2, <1>3, <1>4, <1>5, <1>6, <1>7 DEF Fail, Ends, Grows, netVars
-----------------------------------------------------------------------------
(* The operations of the service.                                          *)

LEMMA DomainFacts == DOMAIN Creates = Creating /\ DOMAIN Updates = Updating
BY DEF Creates, Creating, Updates, Updating

LEMMA ReadyFacts ==
  /\ \A s : Ready("acceptProposal", s) <=> s = "ProposalReceived"
  /\ \A s : Ready("acceptOffer", s) <=> s = "OfferReceived"
  /\ \A s : Ready("storeRequest", s) <=> s = "OfferSent"
  /\ \A s : Ready("setAttributes", s) <=> s \in IssuerStates
  /\ \A s : Ready("acceptRequest", s) <=> s = "RequestReceived"
  /\ \A s : Ready("process", s) <=> s = "RequestSent"
  /\ \A s : Ready("ack", s) <=> s \in IssuerStates \ {"Done"}
  /\ \A s : Ready("abandon", s) <=> s \in (HolderStates \cup IssuerStates) \ Terminal
BY DEF Ready, Updates, Transition, accept_proposal, accept_offer, store_request,
  set_auto_issue_attributes, accept_request, process_credential, process_ack, abandon_exchange

\* The state an operation leaves a record in.
LeftIn(o, s) ==
  CASE o = "acceptProposal" -> "OfferSent" [] o = "acceptOffer" -> "RequestSent"
    [] o = "storeRequest" -> "RequestReceived" [] o = "acceptRequest" -> "CredentialIssued"
    [] o = "process" -> "Done" [] o = "ack" -> "Done" [] o = "abandon" -> "Abandoned"
    [] OTHER -> s

LEMMA ChangedFacts ==
  ASSUME NEW o \in Updating, NEW rec \in ExchangeRecord, NEW q \in Requests
  PROVE  LET new == Changed(o, rec, q) IN
         /\ new \in ExchangeRecord
         /\ new.state = LeftIn(o, rec.state)
         /\ new.request = IF o = "storeRequest" THEN q ELSE rec.request
<1>1. rec.state \in HolderStates \cup IssuerStates /\ rec.auto \in BOOLEAN /\ rec.request \in Requests
  BY DEF ExchangeRecord
<1>2. (IF Updates[o].to = None THEN rec.state ELSE Updates[o].to) = LeftIn(o, rec.state)
  <2>1. ASSUME o = "setAttributes" PROVE Updates[o].to = None
    BY <2>1 DEF Updates, set_auto_issue_attributes, Transition
  <2>2. ASSUME o # "setAttributes"
        PROVE  Updates[o].to = LeftIn(o, rec.state) /\ Updates[o].to \in HolderStates \cup IssuerStates
    BY <2>2 DEF Updating, LeftIn, Updates, Transition, accept_proposal, accept_offer, store_request,
      accept_request, process_credential, process_ack, abandon_exchange, HolderStates, IssuerStates,
      Terminal
  <2>3. Updates[o].to = None => o = "setAttributes"
    BY <2>2, RecordAssumption
  <2> QED BY <2>1, <2>2, <2>3 DEF LeftIn
<1>3. LeftIn(o, rec.state) \in HolderStates \cup IssuerStates
  BY <1>1 DEF LeftIn, HolderStates, IssuerStates, Terminal
<1> QED BY <1>1, <1>2, <1>3 DEF Changed, ExchangeRecord

\* An operation leaves a record of its own side in a state of that side.
LEMMA LeftInOwn ==
  ASSUME Typing, NEW x \in Tasks, Op(x) \in Updating, NEW s \in StatesOf(ctx[x].row)
  PROVE  LeftIn(Op(x), s) \in StatesOf(ctx[x].row)
<1>1. CASE x \in HolderTasks
  <2>1. Op(x) \in {"acceptOffer", "process", "abandon"} /\ ctx[x].row \in HolderRows
    BY <1>1, TaskOps DEF HolderOps, Updating
  <2> QED BY <2>1 DEF LeftIn, StatesOf, HolderStates, Terminal
<1>2. CASE x \notin HolderTasks
  <2>1. Op(x) \in Updating \ {"acceptOffer", "process"} /\ ctx[x].row \in IssuerRows
    BY <1>2, TaskOps DEF IssuerOps, Updating
  <2>2. StatesOf(ctx[x].row) = IssuerStates
    BY <2>1, CredentialAssumption DEF StatesOf
  <2> QED BY <2>1, <2>2 DEF LeftIn, IssuerStates, Terminal, Updating
<1> QED BY <1>1, <1>2

LEMMA NoneNoRecord == CountsOK => None \notin ExchangeRecord
<1> SUFFICES ASSUME CountsOK PROVE None \notin ExchangeRecord
  OBVIOUS
<1>1. Requests \subseteq Nat \cup {None} BY DEF CountsOK, Requests
<1> QED BY <1>1, RecordAssumption DEF ExchangeRecord

LEMMA NewRecord ==
  ASSUME Typing, NEW x \in Tasks, Op(x) \in Creating
  PROVE  LET new == Exchange(Creates[Op(x)]) IN
         /\ new \in ExchangeRecord /\ new # None
         /\ new.state \in StatesOf(ctx[x].row) /\ new.request = None
         /\ Op(x) \in {"create", "storeProposal"} => ctx[x].row \in IssuerRows
         /\ Op(x) \in {"propose", "storeOffer"} => ctx[x].row \in HolderRows
         /\ new.state = CASE Op(x) = "create" -> "OfferSent"
                           [] Op(x) = "propose" -> "ProposalSent"
                           [] Op(x) = "storeProposal" -> "ProposalReceived"
                           [] OTHER -> "OfferReceived"
<1>1. /\ Op(x) \in {"create", "storeProposal"} => ctx[x].row \in IssuerRows
      /\ Op(x) \in {"propose", "storeOffer"} => ctx[x].row \in HolderRows
  BY TaskOps DEF HolderOps, IssuerOps
<1>2. Creates[Op(x)] = CASE Op(x) = "create" -> "OfferSent"
                         [] Op(x) = "propose" -> "ProposalSent"
                         [] Op(x) = "storeProposal" -> "ProposalReceived"
                         [] OTHER -> "OfferReceived"
  BY DEF Creates, Creating
<1>3. Creates[Op(x)] \in StatesOf(ctx[x].row)
  BY <1>1, <1>2, CredentialAssumption DEF StatesOf, HolderStates, IssuerStates, Creating
<1>4. Exchange(Creates[Op(x)]) \in ExchangeRecord
  BY <1>3 DEF Exchange, ExchangeRecord, Requests, StatesOf
<1> QED BY <1>1, <1>2, <1>3, <1>4, NoneNoRecord DEF Exchange, Typing

-----------------------------------------------------------------------------
(* The steps of a task.                                                    *)

SameNet == UNCHANGED <<opened, netVars>>

\* Create: the copy of a new record.
Created(x) ==
  /\ Alone(x) /\ Op(x) \in Creating /\ phase[x] = "load"
  /\ todo'[x] = todo[x] /\ ctx'[x] = ctx[x]
  /\ copy'[x] = Exchange(Creates[Op(x)]) /\ phase'[x] = "store"
  /\ SameWorld /\ SameNet /\ harm' = harm

\* Load: the copy of a cached record, changed.
Loaded(x) ==
  LET rec == cache[ctx[x].row] IN
  /\ Alone(x) /\ Op(x) \in Updating /\ phase[x] = "load"
  /\ rec # None /\ Ready(Op(x), rec.state)
  /\ todo'[x] = todo[x] /\ copy'[x] = Changed(Op(x), rec, ctx[x].request)
  /\ phase'[x] = IF Op(x) \in Working THEN "work" ELSE "store"
  /\ ctx'[x].row = ctx[x].row
  /\ ctx'[x].request = IF Op(x) = "acceptRequest" THEN rec.request ELSE ctx[x].request
  /\ SameWorld /\ SameNet /\ harm \subseteq harm'
  /\ Unraced' => \A y \in Tasks : y # x /\ Works(y) =>
                   ctx[y].row # ctx[x].row /\ (Op(x) # "process" \/ Op(y) # "process")

LEMMA CreateFacts ==
  ASSUME Typing, NEW x \in Tasks, Create(x)
  PROVE  Created(x) /\ TaskFunctions' /\ CountsOK' /\ NetOK'
<1>1. Requests' = Requests BY DEF Create, holderVars, Requests
<1>2. Op(x) \in Creating /\ Op(x) = Head(todo[x])
  BY TaskOps, DomainFacts DEF Create
<1>3. Exchange(Creates[Op(x)]) \in ExchangeRecord
  BY <1>2, NewRecord
<1>4. Created(x)
  BY <1>2 DEF Create, Created, Typing, TaskFunctions, Alone, SameWorld, holderVars, SameNet
<1> QED BY <1>1, <1>2, <1>3, <1>4 DEF Create, Typing, TaskFunctions, CountsOK, NetOK, netVars, holderVars,
                                boundVars, Phases, Context, ExchangeRecord

LEMMA LoadFacts ==
  ASSUME Typing, NEW x \in Tasks, Load(x)
  PROVE  (Loaded(x) \/ Ends(x)) /\ TaskFunctions' /\ CountsOK' /\ NetOK'
<1> DEFINE rec == cache[ctx[x].row]
<1>1. requests' = requests /\ Requests' = Requests BY DEF Load, holderVars, Requests
<1>2. Op(x) \in Updating /\ Op(x) = Head(todo[x]) /\ ~ Idle(x) /\ phase[x] = "load"
  BY TaskOps, DomainFacts DEF Load
<1>3. CountsOK' /\ SameWorld /\ SameNet
  BY <1>1 DEF Load, Typing, CountsOK, holderVars, boundVars, SameWorld, SameNet
<1>4. CASE Return(x) /\ UNCHANGED harm
  <2>1. Finished(x) /\ TaskFunctions' BY <1>1, <1>4, ReturnFacts
  <2>2. NetOK' BY <1>1, <1>3, <1>4 DEF SameNet, netVars, Typing, NetOK
  <2> QED BY <1>2, <1>3, <1>4, <2>1, <2>2 DEF Ends, SameNet, netVars, Grows, Saving
<1>5. CASE /\ rec # None /\ Ready(Op(x), rec.state)
           /\ copy' = [copy EXCEPT ![x] = Changed(Op(x), rec, ctx[x].request)]
           /\ phase' = [phase EXCEPT ![x] = IF Op(x) \in Working THEN "work" ELSE "store"]
           /\ ctx' = [ctx EXCEPT ![x].request = IF Op(x) = "acceptRequest" THEN rec.request ELSE @]
           /\ harm' = IF Busy(x) THEN harm \cup {"raced"} ELSE harm
           /\ UNCHANGED todo
  <2>1. ctx[x].row \in Rows /\ ctx[x] \in Context /\ rec \in ExchangeRecord
    BY <1>2, <1>5, TaskOps DEF Typing, TaskFunctions, StorageOK
  <2>2. rec.request \in Requests /\ ctx[x].request \in Requests
    BY <2>1 DEF ExchangeRecord, Context
  <2>3. Changed(Op(x), rec, ctx[x].request) \in ExchangeRecord
    BY <1>2, <2>1, <2>2, ChangedFacts
  <2>4. Unraced' => ~ Busy(x)
    BY <1>5 DEF Unraced
  <2>5. ASSUME ~ Busy(x), NEW y \in Tasks, y # x, Works(y)
        PROVE  ctx[y].row # ctx[x].row /\ (Op(x) # "process" \/ Op(y) # "process")
    <3>1. Op(y) = Head(todo[y]) BY <2>5, TaskOps
    <3>2. ~ (ctx[y].row = ctx[x].row \/ {Head(todo[x]), Head(todo[y])} = {"process"})
      BY <2>5 DEF Busy, Works
    <3> QED BY <1>2, <3>1, <3>2
  <2>6. NetOK' /\ harm \subseteq harm'
    BY <1>1, <1>3, <1>5 DEF SameNet, netVars, Typing, NetOK
  <2>7. TaskFunctions'
    BY <1>1, <1>5, <2>1, <2>2, <2>3 DEF Typing, TaskFunctions, Phases, Context, ExchangeRecord
  <2>8. Alone(x) /\ todo'[x] = todo[x] /\ copy'[x] = Changed(Op(x), rec, ctx[x].request)
        /\ phase'[x] = (IF Op(x) \in Working THEN "work" ELSE "store")
    BY <1>5 DEF Typing, TaskFunctions, Alone
  <2>9. /\ ctx'[x].row = ctx[x].row
        /\ ctx'[x].request = IF Op(x) = "acceptRequest" THEN rec.request ELSE ctx[x].request
    BY <1>5, <2>1 DEF Typing, TaskFunctions, Context
  <2>10. Loaded(x)
    BY <1>2, <1>3, <1>5, <2>4, <2>5, <2>6, <2>8, <2>9 DEF Loaded
  <2> QED BY <1>3, <2>6, <2>7, <2>10
<1> QED BY <1>2, <1>4, <1>5 DEF Load

\* A holder's service is at work, between the check and the write.
AtWork(x, o, from, to) ==
  /\ Alone(x) /\ Op(x) = o /\ phase[x] = from /\ phase'[x] = to /\ todo'[x] = todo[x]
  /\ UNCHANGED <<storageVars, issued>> /\ SameNet

\* MakeRequest: the next request.
Made(x) ==
  /\ AtWork(x, "acceptOffer", "work", "save")
  /\ ctx'[x].row = ctx[x].row /\ ctx'[x].request = requests + 1
  /\ copy'[x].state = copy[x].state
  /\ requests' = requests + 1 /\ kept' = requests + 1
  /\ UNCHANGED <<metadata, listed, held>> /\ harm' = harm

\* SaveMetadata: the metadata of the thread, which had none.
Saved(x) ==
  /\ AtWork(x, "acceptOffer", "save", "store")
  /\ ctx'[x] = ctx[x] /\ copy'[x] = copy[x]
  /\ metadata = None /\ metadata' = ctx[x].request
  /\ UNCHANGED <<requests, kept, listed, held>> /\ harm' = harm

\* KeepCredential: the credential, which is for the request at hand, is listed.
Listed(x) ==
  /\ AtWork(x, "process", "work", "save")
  /\ ctx'[x] = ctx[x] /\ copy'[x] = copy[x]
  /\ Opener = ctx[x].request /\ listed' = listed + 1
  /\ UNCHANGED <<requests, kept, metadata, held>> /\ harm' = harm

\* SaveCredential: it is stored.
Kept(x) ==
  /\ AtWork(x, "process", "save", "forget")
  /\ ctx'[x] = ctx[x] /\ copy'[x] = copy[x]
  /\ held' = held + 1 /\ kept' = None
  /\ UNCHANGED <<requests, metadata, listed>> /\ harm' = harm

Forgot(x) ==
  /\ AtWork(x, "process", "forget", "store")
  /\ ctx'[x] = ctx[x] /\ copy'[x] = copy[x]
  /\ metadata' = None \/ (metadata' = metadata /\ "torn" \in harm')
  /\ UNCHANGED <<requests, kept, listed, held>> /\ harm \subseteq harm'

Stored(x) ==
  /\ Alone(x) /\ Op(x) \in Creating \cup Updating /\ phase[x] = "store" /\ phase'[x] = "cache"
  /\ todo'[x] = todo[x] /\ ctx'[x] = ctx[x] /\ copy'[x] = copy[x]
  /\ store' = [store EXCEPT ![ctx[x].row] = copy[x]]
  /\ UNCHANGED <<cache, registered, holderVars, issued>> /\ SameNet /\ harm' = harm

Cached(x) ==
  /\ Advanced(x) /\ Op(x) \in Creating \cup Updating /\ phase[x] = "cache"
  /\ cache' = [cache EXCEPT ![ctx[x].row] = copy[x]]
  /\ UNCHANGED <<store, registered, holderVars, issued>> /\ SameNet /\ harm' = harm

\* Register and Unregister.
Registers(x) ==
  /\ Advanced(x) /\ Op(x) \in {"register", "unregister"} /\ phase[x] = "load"
  /\ UNCHANGED <<store, cache, holderVars, issued>> /\ SameNet /\ harm' = harm

Decided(x) ==
  /\ Alone(x) /\ Op(x) = "decide" /\ phase[x] = "load"
  /\ todo'[x] \in PlansOf(x) /\ OpOf(todo'[x]) = "acceptRequest"
  /\ phase'[x] = phase[x] /\ ctx'[x] = ctx[x] /\ copy'[x] = copy[x]
  /\ SameWorld /\ SameNet /\ harm' = harm

Sends == DOMAIN Sending

Sent(x) ==
  /\ Advanced(x) /\ Op(x) \in Sends /\ phase[x] = "load"
  /\ sent' = sent \cup {Message(Sending[Op(x)],
                               IF Op(x) \in {"sendRequest", "sendIssue"} THEN ctx[x].request ELSE None)}
  /\ issued' = IF Op(x) = "sendIssue" THEN issued + 1 ELSE issued
  /\ UNCHANGED <<opened, storageVars, holderVars, handled, replayed, harm>>

LEMMA PhaseFacts ==
  ASSUME Typing, NEW x \in Tasks
  PROVE  /\ phase[x] \in {"work", "save"} => Op(x) \in {"acceptOffer", "process"}
         /\ phase[x] = "forget" => Op(x) = "process"
         /\ phase[x] # "load" => /\ Op(x) \in Creating \cup Updating /\ ~ Idle(x)
                                 /\ ctx[x].row \in Rows /\ copy[x] \in ExchangeRecord
                                 /\ copy[x] # None /\ copy[x].state \in StatesOf(ctx[x].row)
         /\ Op(x) \notin Creating \cup Updating => phase[x] = "load"
         /\ Idle(x) => phase[x] = "load"
BY TaskOps DEF Typing, TaskOK, TaskFunctions, Works, Working

LEMMA MakeRequestFacts ==
  ASSUME Typing, NEW x \in Tasks, MakeRequest(x)
  PROVE  /\ Made(x) /\ TaskFunctions' /\ CountsOK' /\ NetOK' /\ StorageOK'
         /\ copy'[x] # None
<1>1. Op(x) = "acceptOffer" /\ copy[x] \in ExchangeRecord /\ ctx[x] \in Context
  BY PhaseFacts, TaskOps DEF MakeRequest, Typing, TaskFunctions
<1>2. requests' = requests + 1 /\ requests \in Nat /\ kept' = requests + 1
  BY DEF MakeRequest, Typing, CountsOK
<1>3. Requests \subseteq Requests' /\ requests + 1 \in Requests'
  BY <1>2 DEF Requests
<1>4. Context \subseteq Context' /\ ExchangeRecord \subseteq ExchangeRecord'
  BY <1>3 DEF Context, ExchangeRecord
<1>5. /\ [ctx[x] EXCEPT !.request = requests + 1] \in Context'
      /\ [copy[x] EXCEPT !.request = requests + 1] \in ExchangeRecord'
      /\ [ctx[x] EXCEPT !.request = requests + 1].row = ctx[x].row
      /\ [ctx[x] EXCEPT !.request = requests + 1].request = requests + 1
      /\ [copy[x] EXCEPT !.request = requests + 1].state = copy[x].state
  BY <1>1, <1>3 DEF Context, ExchangeRecord
<1>6. /\ ctx' = [ctx EXCEPT ![x] = [ctx[x] EXCEPT !.request = requests + 1]]
      /\ copy' = [copy EXCEPT ![x] = [copy[x] EXCEPT !.request = requests + 1]]
  BY DEF MakeRequest, Typing, TaskFunctions
<1>7. Made(x)
  BY <1>1, <1>2, <1>5, <1>6 DEF MakeRequest, Made, AtWork, Typing, TaskFunctions, Alone, SameNet
<1>8. TaskFunctions'
  BY <1>4, <1>5, <1>6 DEF MakeRequest, Typing, TaskFunctions, Phases
<1>9. StorageOK'
  BY <1>4 DEF MakeRequest, Typing, StorageOK, storageVars
<1>10. CountsOK' /\ NetOK'
  BY <1>2, <1>3 DEF MakeRequest, Typing, CountsOK, NetOK, netVars, boundVars
<1>11. copy'[x] # None
  <2>1. Requests' \subseteq Nat \cup {None} BY <1>2 DEF Requests
  <2>2. None \notin ExchangeRecord' BY <2>1, RecordAssumption DEF ExchangeRecord
  <2> QED BY <1>5, <1>6, <2>2 DEF Typing, TaskFunctions
<1> QED BY <1>7, <1>8, <1>9, <1>10, <1>11

\* The other steps of the holder's service make no request.
LEMMA ServiceTyped ==
  ASSUME Typing, NEW x \in Tasks, NEW f \in Phases, phase' = [phase EXCEPT ![x] = f],
         UNCHANGED <<todo, ctx, copy, storageVars, requests>>
  PROVE  TaskFunctions' /\ StorageOK'
<1>1. Requests' = Requests BY DEF Requests
<1> QED BY <1>1 DEF Typing, TaskFunctions, StorageOK, storageVars, Context, ExchangeRecord

LEMMA SaveMetadataFacts ==
  ASSUME Typing, NEW x \in Tasks, SaveMetadata(x)
  PROVE  (Saved(x) \/ Ends(x)) /\ TaskFunctions' /\ CountsOK' /\ NetOK' /\ StorageOK'
<1>1. Op(x) = "acceptOffer" /\ ctx[x].request \in Requests
  BY PhaseFacts, TaskOps DEF SaveMetadata, Typing, TaskFunctions, Context
<1>2. requests' = requests /\ Requests' = Requests BY DEF SaveMetadata, Requests
<1>3. CountsOK' /\ NetOK'
  BY <1>1, <1>2 DEF SaveMetadata, Typing, CountsOK, NetOK, netVars, boundVars
<1>4. CASE metadata = None
  <2>1. Saved(x)
    BY <1>1, <1>4 DEF SaveMetadata, Saved, AtWork, Typing, TaskFunctions, Alone, SameNet
  <2>2. TaskFunctions' /\ StorageOK' BY <1>4, ServiceTyped DEF SaveMetadata, Phases
  <2> QED BY <1>3, <2>1, <2>2
<1>5. CASE metadata # None
  <2>1. Finished(x) /\ TaskFunctions' BY <1>2, <1>5, ReturnFacts DEF SaveMetadata
  <2>2. Ends(x) BY <1>1, <1>5, <2>1 DEF SaveMetadata, Ends, SameWorld, Grows, netVars, Saving
  <2>3. StorageOK'
    BY <1>2 DEF SaveMetadata, Typing, StorageOK, storageVars, ExchangeRecord
  <2> QED BY <1>3, <2>1, <2>2, <2>3
<1> QED BY <1>4, <1>5

LEMMA KeepFacts ==
  ASSUME Typing, NEW x \in Tasks, KeepCredential(x)
  PROVE  (Listed(x) \/ Ends(x)) /\ TaskFunctions' /\ CountsOK' /\ NetOK' /\ StorageOK'
<1>1. Op(x) = "process" BY PhaseFacts, TaskOps DEF KeepCredential
<1>2. requests' = requests /\ Requests' = Requests BY DEF KeepCredential, Requests
<1>3. harm \subseteq harm' /\ harm' \subseteq harm \cup {"locked"} /\ listed' \in {listed, listed + 1}
  BY DEF KeepCredential
<1>4. CountsOK' /\ NetOK'
  BY <1>2, <1>3 DEF KeepCredential, Typing, CountsOK, NetOK, netVars, boundVars
<1>5. CASE secret /\ Opener = ctx[x].request
  <2>1. Listed(x)
    BY <1>1, <1>5 DEF KeepCredential, Listed, AtWork, Typing, TaskFunctions, Alone, SameNet
  <2>2. TaskFunctions' /\ StorageOK' BY <1>5, ServiceTyped DEF KeepCredential, Phases
  <2> QED BY <1>4, <2>1, <2>2
<1>6. CASE ~ (secret /\ Opener = ctx[x].request)
  <2>1. Finished(x) /\ TaskFunctions' BY <1>2, <1>6, ReturnFacts DEF KeepCredential
  <2>2. Ends(x)
    BY <1>1, <1>3, <1>6, <2>1 DEF KeepCredential, Ends, SameWorld, Grows, netVars, Saving
  <2>3. StorageOK'
    BY <1>2 DEF KeepCredential, Typing, StorageOK, storageVars, ExchangeRecord
  <2> QED BY <1>4, <2>1, <2>2, <2>3
<1> QED BY <1>5, <1>6

LEMMA SaveCredentialFacts ==
  ASSUME Typing, NEW x \in Tasks, SaveCredential(x)
  PROVE  Kept(x) /\ TaskFunctions' /\ CountsOK' /\ NetOK' /\ StorageOK'
<1>1. Op(x) = "process" BY PhaseFacts, TaskOps DEF SaveCredential
<1>2. Requests' = Requests /\ None \in Requests BY DEF SaveCredential, Requests
<1>3. CountsOK' /\ NetOK'
  BY <1>2 DEF SaveCredential, Typing, CountsOK, NetOK, netVars, boundVars
<1>4. Kept(x)
  BY <1>1 DEF SaveCredential, Kept, AtWork, Typing, TaskFunctions, Alone, SameNet
<1>5. TaskFunctions' /\ StorageOK' BY ServiceTyped DEF SaveCredential, Phases
<1> QED BY <1>3, <1>4, <1>5

LEMMA ForgetFacts ==
  ASSUME Typing, NEW x \in Tasks, ForgetMetadata(x)
  PROVE  Forgot(x) /\ TaskFunctions' /\ CountsOK' /\ NetOK' /\ StorageOK'
<1>1. Op(x) = "process" BY PhaseFacts DEF ForgetMetadata
<1>2. Requests' = Requests /\ None \in Requests BY DEF ForgetMetadata, Requests
<1>3. /\ metadata' = None \/ (metadata' = metadata /\ "torn" \in harm')
      /\ harm \subseteq harm' /\ harm' \subseteq harm \cup {"torn"} /\ faults' \in {faults, faults + 1}
  BY DEF ForgetMetadata, Fault
<1>4. CountsOK' /\ NetOK'
  BY <1>2, <1>3 DEF ForgetMetadata, Typing, CountsOK, NetOK, netVars
<1>5. Forgot(x)
  BY <1>1, <1>3 DEF ForgetMetadata, Forgot, AtWork, Typing, TaskFunctions, Alone, SameNet
<1>6. TaskFunctions' /\ StorageOK' BY ServiceTyped DEF ForgetMetadata, Phases
<1> QED BY <1>4, <1>5, <1>6

LEMMA WriteStorageFacts ==
  ASSUME Typing, NEW x \in Tasks, WriteStorage(x)
  PROVE  Stored(x) /\ TaskFunctions' /\ CountsOK' /\ NetOK' /\ StorageOK'
<1>1. /\ Op(x) \in Creating \cup Updating /\ ctx[x].row \in Rows
      /\ copy[x] \in ExchangeRecord /\ copy[x] # None /\ copy[x].state \in StatesOf(ctx[x].row)
  BY PhaseFacts DEF WriteStorage
<1>2. Requests' = Requests /\ ExchangeRecord' = ExchangeRecord
  BY DEF WriteStorage, holderVars, Requests, ExchangeRecord
<1>3. CountsOK' /\ NetOK'
  BY <1>2 DEF WriteStorage, Typing, CountsOK, NetOK, netVars, boundVars, holderVars
<1>4. Stored(x)
  BY <1>1 DEF WriteStorage, Stored, Typing, TaskFunctions, Alone, SameNet
<1>5. StorageOK'
  BY <1>1, <1>2 DEF WriteStorage, Typing, StorageOK
<1> QED BY <1>2, <1>3, <1>4, <1>5 DEF WriteStorage, Typing, TaskFunctions, Phases, Context

LEMMA WriteCacheFacts ==
  ASSUME Typing, RowInv, NEW x \in Tasks, WriteCache(x)
  PROVE  Cached(x) /\ TaskFunctions' /\ CountsOK' /\ NetOK' /\ StorageOK'
<1>1. /\ Op(x) \in Creating \cup Updating /\ ctx[x].row \in Rows /\ ~ Idle(x)
      /\ copy[x] \in ExchangeRecord /\ copy[x] # None /\ copy[x].state \in StatesOf(ctx[x].row)
  BY PhaseFacts DEF WriteCache
<1>2. requests' = requests /\ Requests' = Requests /\ ExchangeRecord' = ExchangeRecord
  BY DEF WriteCache, holderVars, Requests, ExchangeRecord
<1>3. CountsOK' /\ NetOK'
  BY <1>2 DEF WriteCache, Typing, CountsOK, NetOK, netVars, boundVars, holderVars
<1>4. Advanced(x) /\ TaskFunctions'
  BY <1>1, <1>2, ProceedFacts DEF WriteCache
<1>5. Cached(x)
  BY <1>1, <1>4 DEF WriteCache, Cached, SameNet
<1>6. store[ctx[x].row] # None
  BY <1>1, TaskOps DEF RowInv, WriteCache, Typing, StorageOK
<1>7. StorageOK'
  BY <1>1, <1>2, <1>6 DEF WriteCache, Typing, StorageOK
<1> QED BY <1>3, <1>4, <1>5, <1>7

LEMMA RegisterFacts ==
  ASSUME Typing, NEW x \in Tasks, Register(x) \/ Unregister(x)
  PROVE  Registers(x) /\ TaskFunctions' /\ CountsOK' /\ NetOK' /\ StorageOK'
<1>1. /\ Op(x) \in {"register", "unregister"} /\ ~ Idle(x) /\ ctx[x].row \in IssuerRows
      /\ phase[x] = "load"
  <2>1. Op(x) \in {"register", "unregister"} /\ ~ Idle(x) BY TaskOps DEF Register, Unregister
  <2> QED BY <2>1, TaskOps, PhaseFacts DEF HolderOps, Creating, Updating
<1>2. requests' = requests /\ Requests' = Requests /\ ExchangeRecord' = ExchangeRecord
  BY DEF Register, Unregister, holderVars, Requests, ExchangeRecord
<1>3. CountsOK' /\ NetOK'
  BY <1>2 DEF Register, Unregister, Typing, CountsOK, NetOK, netVars, boundVars, holderVars
<1>4. Advanced(x) /\ TaskFunctions'
  BY <1>1, <1>2, ProceedFacts DEF Register, Unregister
<1>5. Registers(x)
  BY <1>1, <1>4 DEF Register, Unregister, Registers, SameNet
<1>6. StorageOK'
  BY <1>1, <1>2 DEF Register, Unregister, Typing, StorageOK
<1> QED BY <1>3, <1>4, <1>5, <1>6

LEMMA DecideFacts ==
  ASSUME Typing, NEW x \in Tasks, Decide(x)
  PROVE  (Decided(x) \/ Ends(x)) /\ TaskFunctions' /\ CountsOK' /\ NetOK'
<1>1. Op(x) = "decide" /\ phase[x] = "load" /\ PlansOf(x) = IssuerPlans
  <2>1. Op(x) = "decide" BY TaskOps DEF Decide
  <2> QED BY <2>1, TaskOps, PhaseFacts DEF HolderOps, Creating, Updating, PlansOf
<1>2. requests' = requests /\ Requests' = Requests BY DEF Decide, holderVars, Requests
<1>3. CountsOK' /\ NetOK'
  BY <1>2 DEF Decide, Typing, CountsOK, NetOK, netVars, boundVars, holderVars
<1> DEFINE p == <<"acceptRequest", "unregister", "sendIssue">>
<1>4. p \in IssuerPlans /\ OpOf(p) = "acceptRequest" BY OpFacts DEF IssuerPlans
<1>5. CASE todo' = [todo EXCEPT ![x] = p] /\ UNCHANGED <<phase, ctx, copy>>
  <2> HIDE DEF p
  <2>1. Decided(x)
    BY <1>1, <1>4, <1>5 DEF Decide, Decided, Typing, TaskFunctions, Alone, SameWorld, holderVars, SameNet
  <2> QED BY <1>2, <1>3, <1>4, <1>5, <2>1 DEF Typing, TaskFunctions, Phases, Context, ExchangeRecord
<1>6. CASE Return(x)
  <2>1. Finished(x) /\ TaskFunctions' BY <1>2, <1>6, ReturnFacts
  <2> QED BY <1>1, <1>3, <2>1 DEF Decide, Ends, SameWorld, holderVars, Grows, netVars, Saving
<1> QED BY <1>5, <1>6 DEF Decide

LEMMA SendFacts ==
  ASSUME Typing, NEW x \in Tasks, Send(x)
  PROVE  Sent(x) /\ TaskFunctions' /\ CountsOK' /\ NetOK'
<1>1. Op(x) \in Sends /\ ~ Idle(x) /\ Op(x) = Head(todo[x])
  BY TaskOps DEF Send, Sends
<1>2. phase[x] = "load"
  BY <1>1, PhaseFacts DEF Sends, Sending, Creating, Updating
<1>3. requests' = requests /\ Requests' = Requests BY DEF Send, holderVars, Requests
<1>4. Advanced(x) /\ TaskFunctions'
  BY <1>1, <1>3, ProceedFacts DEF Send
<1>5. /\ Sending[Op(x)] \in MessageTypes
      /\ Sending[Op(x)] \in {"request", "issue"} <=> Op(x) \in {"sendRequest", "sendIssue"}
      /\ Sending[Op(x)] = "issue" <=> Op(x) = "sendIssue"
  BY <1>1 DEF Sends, Sending, MessageTypes
<1>6. Sent(x)
  BY <1>1, <1>2, <1>4, <1>5 DEF Send, Sent
<1>7. ctx[x].request \in Requests /\ None \in Requests
  BY DEF Typing, TaskFunctions, Context, Requests
<1>8. CountsOK' /\ NetOK'
  BY <1>3, <1>5, <1>6, <1>7 DEF Send, Sent, Typing, CountsOK, NetOK, holderVars, boundVars, Message
<1> QED BY <1>4, <1>6, <1>8

\* Crash: the tasks of one agent stop, and its cache is loaded again.
Crashed(tasks, rows) ==
  /\ \A y \in Tasks \ tasks : /\ todo'[y] = todo[y] /\ phase'[y] = phase[y]
                             /\ ctx'[y] = ctx[y] /\ copy'[y] = copy[y]
  /\ \A y \in tasks : todo'[y] = <<>> /\ phase'[y] = "load" /\ ctx'[y] = NoContext
  /\ cache' = [r \in Rows |-> IF r \in rows THEN store[r] ELSE cache[r]]
  /\ UNCHANGED <<store, requests, metadata, held, issued>> /\ SameNet /\ harm \subseteq harm'
  /\ kept' \in {kept, None}
  /\ (tasks = HolderTasks /\ listed' = held) \/ (tasks = IssuerTasks /\ listed' = listed)
  /\ "torn" \notin harm' => \A y \in tasks : phase[y] # "forget"

\* The agents that may crash.
Agents == {<<HolderTasks, HolderRows>>, <<IssuerTasks, IssuerRows>>}

LEMMA CrashFacts ==
  ASSUME Typing, NEW tasks, NEW rows, <<tasks, rows>> \in Agents, Crash(tasks, rows),
         UNCHANGED <<requests, metadata, held>>, kept' \in {kept, None}, secret' \in BOOLEAN,
         (tasks = HolderTasks /\ listed' = held) \/ (tasks = IssuerTasks /\ listed' = listed)
  PROVE  Crashed(tasks, rows) /\ Typing'
<1>0. tasks \subseteq Tasks /\ rows \subseteq Rows
  BY DEF Agents, Tasks, Rows
<1>1. Requests' = Requests /\ None \in Requests BY DEF Requests
<1>2. Crashed(tasks, rows)
  BY <1>0 DEF Crash, Crashed, SameNet
<1>3. CountsOK' /\ NetOK'
  <2>1. CountsOK' BY <1>1 DEF Crash, Fault, Typing, CountsOK
  <2>2. harm' \subseteq {"raced", "cut", "torn", "ghost", "locked"}
    BY DEF Crash, Typing, NetOK
  <2> QED BY <1>1, <2>1, <2>2 DEF Crash, Typing, NetOK, netVars
<1>4. NoContext \in Context /\ <<>> \in HolderPlans /\ OpOf(<<>>) = "none" /\ \A x \in Tasks : <<>> \in PlansOf(x)
  BY <1>1, OpFacts DEF Context, NoContext, HolderPlans, IssuerPlans, PlansOf
<1>5. TaskFunctions'
  BY <1>1, <1>4 DEF Crash, Typing, TaskFunctions, Phases, Context, ExchangeRecord
<1>6. StorageOK'
  BY <1>0, <1>1 DEF Crash, Typing, StorageOK, ExchangeRecord
<1>7. ASSUME NEW x \in Tasks PROVE TaskOK(x)'
  <2>1. CASE x \in tasks
    BY <1>2, <1>4, <2>1 DEF Crashed, TaskOK, Op, Works, Creating
  <2>2. CASE x \notin tasks
    <3>1. TaskOK(x) BY DEF Typing
    <3> QED BY <1>2, <2>2, <3>1 DEF Crashed, TaskOK, Op, Works
  <2> QED BY <2>1, <2>2
<1> QED BY <1>2, <1>3, <1>5, <1>6, <1>7 DEF Typing

-----------------------------------------------------------------------------
(* Typing.                                                                 *)

LEMMA TypingAlone ==
  ASSUME Typing, NEW x \in Tasks, Alone(x), TaskFunctions', CountsOK', NetOK', StorageOK', TaskOK(x)'
  PROVE  Typing'
<1>1. ASSUME NEW y \in Tasks, y # x PROVE TaskOK(y)'
  <2>1. TaskOK(y) BY DEF Typing
  <2> QED BY <1>1, <2>1 DEF Alone, TaskOK, Op, Works
<1> QED BY <1>1 DEF Typing

LEMMA SameStorage ==
  ASSUME Typing, SameWorld
  PROVE  StorageOK'
<1>1. Requests' = Requests BY DEF SameWorld, holderVars, Requests
<1> QED BY <1>1 DEF SameWorld, storageVars, Typing, StorageOK, ExchangeRecord

LEMMA QuietTyping ==
  ASSUME Typing, Quiet, TaskFunctions', CountsOK', NetOK'
  PROVE  Typing'
<1>1. ASSUME NEW y \in Tasks PROVE TaskOK(y)'
  <2>1. TaskOK(y) BY DEF Typing
  <2> QED BY <2>1 DEF Quiet, taskVars, TaskOK, Op, Works
<1> QED BY <1>1, SameStorage DEF Typing, Quiet

LEMMA EndsTyping ==
  ASSUME Typing, NEW x \in Tasks, Finished(x), StorageOK', TaskFunctions', CountsOK', NetOK'
  PROVE  Typing'
<1>1. OpOf(<<>>) = "none" /\ <<>> \in PlansOf(x)
  BY OpFacts DEF HolderPlans, IssuerPlans, PlansOf
<1>2. TaskOK(x)'
  BY <1>1 DEF Finished, TaskOK, Op, Works, Creating
<1> QED BY <1>2, TypingAlone DEF Finished

LEMMA AdvancedTyping ==
  ASSUME Typing, NEW x \in Tasks, Op(x) # "none", Advanced(x), StorageOK', TaskFunctions', CountsOK', NetOK'
  PROVE  Typing'
<1>1. TaskOK(x) BY DEF Typing
<1>2. TaskOK(x)'
  BY <1>1 DEF Advanced, TaskOK, Op, Works
<1> QED BY <1>2, TypingAlone DEF Advanced

LEMMA BeginsTyping ==
  ASSUME Typing, NEW x \in Tasks, NEW o, NEW r, NEW q, Begins(x, o, r, q), TaskFunctions', CountsOK', NetOK'
  PROVE  Typing'
<1>1. TaskOK(x) /\ Op(x) = "none" BY DEF Typing, Begins, Begun
<1>2. phase[x] = "load" BY <1>1, TaskOps
<1>3. o # "none" BY DEF Begins, FirstOps
<1>4. TaskOK(x)'
  BY <1>1, <1>2, <1>3 DEF Begins, Begun, TaskOK, Op, Works
<1> QED BY <1>4, TypingAlone, SameStorage DEF Begins, Begun

LEMMA CreatedTyping ==
  ASSUME Typing, NEW x \in Tasks, Created(x), TaskFunctions', CountsOK', NetOK'
  PROVE  Typing'
<1>1. TaskOK(x) BY DEF Typing
<1>2. TaskOK(x)'
  BY <1>1, NewRecord DEF Created, TaskOK, Op, Works
<1> QED BY <1>2, TypingAlone, SameStorage DEF Created

LEMMA LoadedTyping ==
  ASSUME Typing, NEW x \in Tasks, Loaded(x), TaskFunctions', CountsOK', NetOK'
  PROVE  Typing'
<1>1. TaskOK(x) BY DEF Typing
<1> DEFINE rec == cache[ctx[x].row]
<1>2. /\ Op(x) \in Updating /\ Op(x) # "none" /\ ctx[x].row \in Rows /\ rec \in ExchangeRecord
      /\ rec.state \in StatesOf(ctx[x].row) /\ ctx[x].request \in Requests
  BY TaskOps DEF Loaded, Updating, Typing, StorageOK, TaskFunctions, Context
<1>3. /\ copy'[x] \in ExchangeRecord /\ copy'[x] # None
      /\ copy'[x].state \in StatesOf(ctx[x].row)
  BY <1>2, ChangedFacts, LeftInOwn, NoneNoRecord DEF Loaded, Typing
<1>4. Op(x) \notin Creating BY <1>2 DEF Updating, Creating
<1>5. TaskOK(x)'
  BY <1>1, <1>2, <1>3, <1>4 DEF Loaded, TaskOK, Op, Works
<1> QED BY <1>5, TypingAlone, SameStorage DEF Loaded

LEMMA MovedTyping ==
  ASSUME Typing, NEW x \in Tasks, Made(x) \/ Saved(x) \/ Listed(x) \/ Kept(x) \/ Forgot(x) \/ Stored(x),
         copy'[x] # None, StorageOK', TaskFunctions', CountsOK', NetOK'
  PROVE  Typing'
<1>1. TaskOK(x) BY DEF Typing
<1>2. CASE Made(x)
  <2>1. TaskOK(x)'
    BY <1>1, <1>2 DEF AtWork, Made, TaskOK, Op, Works, Working, Creating
  <2> QED BY <1>2, <2>1, TypingAlone DEF AtWork, Made
<1>3. CASE Saved(x) \/ Listed(x) \/ Kept(x) \/ Forgot(x)
  <2>1. TaskOK(x)'
    BY <1>1, <1>3 DEF AtWork, Saved, Listed, Kept, Forgot, TaskOK, Op, Works, Working, Creating
  <2> QED BY <1>3, <2>1, TypingAlone DEF AtWork, Saved, Listed, Kept, Forgot
<1>4. CASE Stored(x)
  <2>1. TaskOK(x)'
    BY <1>1, <1>4 DEF Stored, TaskOK, Op, Works
  <2> QED BY <1>4, <2>1, TypingAlone DEF Stored
<1> QED BY <1>2, <1>3, <1>4

LEMMA DecidedTyping ==
  ASSUME Typing, NEW x \in Tasks, Decided(x), TaskFunctions', CountsOK', NetOK'
  PROVE  Typing'
<1>1. TaskOK(x) BY DEF Typing
<1>2. TaskOK(x)'
  BY <1>1 DEF Decided, TaskOK, Op, Works
<1> QED BY <1>2, TypingAlone, SameStorage DEF Decided

\* Every step is of one of these kinds.
TaskMoves(x) ==
  \/ Ends(x) \/ StartsSomething(x) \/ Created(x) \/ Loaded(x) \/ Made(x) \/ Saved(x)
  \/ Listed(x) \/ Kept(x) \/ Forgot(x) \/ Stored(x) \/ Cached(x) \/ Registers(x) \/ Decided(x) \/ Sent(x)

Moves ==
  \/ Quiet
  \/ \E x \in Tasks : TaskMoves(x)
  \/ Crashed(HolderTasks, HolderRows) \/ Crashed(IssuerTasks, IssuerRows)

LEMMA TaskStepMoves ==
  ASSUME LocalInv, NEW x \in Tasks, TaskStep(x)
  PROVE  TaskMoves(x) /\ Typing'
<1>0. Typing /\ RowInv BY DEF LocalInv
<1> USE DEF TaskMoves
<1>1. CASE Create(x)
  BY <1>0, <1>1, CreateFacts, CreatedTyping
<1>2. CASE Load(x)
  <2>1. (Loaded(x) \/ Ends(x)) /\ TaskFunctions' /\ CountsOK' /\ NetOK' BY <1>0, <1>2, LoadFacts
  <2>2. Ends(x) => StorageOK' /\ Finished(x) BY <1>0, SameStorage DEF Ends
  <2> QED BY <1>0, <2>1, <2>2, LoadedTyping, EndsTyping
<1>3. CASE MakeRequest(x)
  BY <1>0, <1>3, MakeRequestFacts, MovedTyping
<1>4. CASE KeepCredential(x) \/ SaveMetadata(x)
  <2>1. /\ Listed(x) \/ Saved(x) \/ Ends(x)
        /\ TaskFunctions' /\ CountsOK' /\ NetOK' /\ StorageOK'
    BY <1>0, <1>4, KeepFacts, SaveMetadataFacts
  <2>2. Ends(x) => Finished(x) BY DEF Ends
  <2>3. Listed(x) \/ Saved(x) => copy'[x] # None
    BY <1>0, PhaseFacts DEF Listed, Saved, AtWork
  <2> QED BY <1>0, <2>1, <2>2, <2>3, MovedTyping, EndsTyping
<1>5. CASE SaveCredential(x) \/ ForgetMetadata(x)
  <2>1. (Kept(x) \/ Forgot(x)) /\ TaskFunctions' /\ CountsOK' /\ NetOK' /\ StorageOK'
    BY <1>0, <1>5, SaveCredentialFacts, ForgetFacts
  <2>2. copy'[x] # None BY <1>0, <2>1, PhaseFacts DEF Kept, Forgot, AtWork
  <2> QED BY <1>0, <2>1, <2>2, MovedTyping
<1>6. CASE WriteStorage(x)
  <2>1. Stored(x) /\ TaskFunctions' /\ CountsOK' /\ NetOK' /\ StorageOK'
    BY <1>0, <1>6, WriteStorageFacts
  <2>2. copy'[x] # None BY <1>0, <2>1, PhaseFacts DEF Stored
  <2> QED BY <1>0, <2>1, <2>2, MovedTyping
<1>7. CASE WriteCache(x)
  <2>1. Cached(x) /\ TaskFunctions' /\ CountsOK' /\ NetOK' /\ StorageOK'
    BY <1>0, <1>7, WriteCacheFacts
  <2>2. Op(x) # "none" /\ Advanced(x) BY <2>1 DEF Cached, Creating, Updating
  <2> QED BY <1>0, <2>1, <2>2, AdvancedTyping
<1>8. CASE Register(x) \/ Unregister(x)
  <2>1. Registers(x) /\ TaskFunctions' /\ CountsOK' /\ NetOK' /\ StorageOK'
    BY <1>0, <1>8, RegisterFacts
  <2>2. Op(x) # "none" /\ Advanced(x) BY <2>1 DEF Registers
  <2> QED BY <1>0, <2>1, <2>2, AdvancedTyping
<1>9. CASE Decide(x)
  <2>1. (Decided(x) \/ Ends(x)) /\ TaskFunctions' /\ CountsOK' /\ NetOK' BY <1>0, <1>9, DecideFacts
  <2>2. Ends(x) => StorageOK' /\ Finished(x) BY <1>0, SameStorage DEF Ends
  <2> QED BY <1>0, <2>1, <2>2, DecidedTyping, EndsTyping
<1>10. CASE Send(x)
  <2>1. Sent(x) /\ TaskFunctions' /\ CountsOK' /\ NetOK' BY <1>0, <1>10, SendFacts
  <2>2. Op(x) # "none" /\ Advanced(x) BY <2>1 DEF Sent, Sends, Sending
  <2>3. Requests' = Requests BY <2>1 DEF Sent, holderVars, Requests
  <2>4. StorageOK' BY <1>0, <2>1, <2>3 DEF Sent, storageVars, Typing, StorageOK, ExchangeRecord
  <2> QED BY <1>0, <2>1, <2>2, <2>4, AdvancedTyping
<1> QED BY <1>1, <1>2, <1>3, <1>4, <1>5, <1>6, <1>7, <1>8, <1>9, <1>10 DEF TaskStep

LEMMA NextMoves ==
  ASSUME LocalInv, [Next]_vars
  PROVE  Moves /\ Typing'
<1>0. Typing BY DEF LocalInv
<1>1. ASSUME NEW x \in Tasks, StartsSomething(x), TaskFunctions', CountsOK', NetOK'
      PROVE  Moves /\ Typing'
  <2>1. PICK o \in FirstOps, r \in Own(x), q \in Requests : Begins(x, o, r, q)
    BY <1>1 DEF StartsSomething
  <2>2. Typing' BY <1>0, <1>1, <2>1, BeginsTyping
  <2> QED BY <1>1, <2>2 DEF Moves, TaskMoves
<1>2. ASSUME Quiet, TaskFunctions', CountsOK', NetOK'
      PROVE  Moves /\ Typing'
  BY <1>0, <1>2, QuietTyping DEF Moves
<1>3. ASSUME NEW x \in Tasks, Offer(x) \/ Propose(x) \/ Accept(x) \/ Abandon(x)
      PROVE  Moves /\ Typing'
  BY <1>1, <1>3, OfferStarts, ProposeStarts, AcceptStarts, AbandonStarts
<1>4. ASSUME NEW x \in Tasks, NEW m \in sent, Handle(x, m)
      PROVE  Moves /\ Typing'
  BY <1>1, <1>2, <1>4, HandleStarts
<1>5. ASSUME NEW x \in Tasks, TaskStep(x)
      PROVE  Moves /\ Typing'
  BY <1>5, TaskStepMoves DEF Moves
<1>6. ASSUME NEW x \in Tasks, Fail(x)
      PROVE  Moves /\ Typing'
  <2>1. Ends(x) /\ TaskFunctions' /\ CountsOK' /\ NetOK' BY <1>0, <1>6, FailEnds
  <2>2. StorageOK' /\ Finished(x) BY <1>0, <2>1, SameStorage DEF Ends
  <2> QED BY <1>0, <2>1, <2>2, EndsTyping DEF Moves, TaskMoves
<1>7. ASSUME NEW m \in sent, Lose(m)
      PROVE  Moves /\ Typing'
  BY <1>0, <1>2, <1>7, LoseQuiet
<1>8. CASE CrashHolder
  <2>1. /\ Crash(HolderTasks, HolderRows) /\ UNCHANGED <<requests, metadata, held>>
        /\ kept' \in {kept, None} /\ secret' \in BOOLEAN /\ listed' = held
    BY <1>8 DEF CrashHolder
  <2>2. <<HolderTasks, HolderRows>> \in Agents BY DEF Agents
  <2>3. Crashed(HolderTasks, HolderRows) /\ Typing' BY <1>0, <2>1, <2>2, CrashFacts
  <2> QED BY <2>3 DEF Moves
<1>9. CASE CrashIssuer
  <2>1. secret \in BOOLEAN BY <1>0 DEF Typing, CountsOK
  <2> QED BY <1>0, <1>9, <2>1, CrashFacts DEF Agents, Moves, CrashIssuer, holderVars
<1>11. CASE LoadSecret
  BY <1>0, <1>2, <1>11, LoadSecretQuiet
<1>10. CASE UNCHANGED vars
  BY <1>0, <1>2, <1>10, StutterQuiet
<1> QED BY <1>3, <1>4, <1>5, <1>6, <1>7, <1>8, <1>9, <1>10, <1>11 DEF Next
-----------------------------------------------------------------------------
(* The records of the tasks.                                               *)

\* The operation that follows another makes no record.
LEMMA AdvancedOps ==
  ASSUME Typing, NEW x \in Tasks, Advanced(x), Op(x) \notin {"none", "decide"}
  PROVE  /\ Op(x)' \notin Creating
         /\ After(Op(x), Op(x)')
         /\ phase'[x] = "load"
         /\ Op(x)' = "none" => ctx'[x] = NoContext
         /\ Op(x)' # "none" => ctx'[x] = ctx[x]
<1>1. Op(x) \in HolderOps \cup IssuerOps
  BY TaskOps
<1>2. After(Op(x), Op(x)')
  BY DEF Advanced, Op
<1>3. Op(x)' \notin Creating
  BY <1>1, <1>2 DEF After, HolderOps, IssuerOps, Creating, Sending
<1> QED BY <1>2, <1>3 DEF Advanced, Op

LEMMA FinishedOps ==
  ASSUME NEW x \in Tasks, Finished(x)
  PROVE  Op(x)' = "none" /\ ctx'[x].row = None /\ phase'[x] = "load"
BY OpFacts DEF Finished, Op, NoContext

LEMMA RowsNotNone ==
  ASSUME Typing, NEW x \in Tasks, Op(x) # "none"
  PROVE  ctx[x].row \in Rows /\ ctx[x].row # None
BY TaskOps, CredentialAssumption

LEMMA RowQuiet ==
  ASSUME Typing, RowInv, Quiet
  PROVE  RowInv'
BY DEF RowInv, Quiet, taskVars, SameWorld, storageVars, Op

LEMMA RowEnds ==
  ASSUME Typing, RowInv, NEW x \in Tasks, Ends(x)
  PROVE  RowInv'
<1>1. Op(x)' = "none" /\ ctx'[x].row = None /\ phase'[x] = "load"
  BY FinishedOps DEF Ends
<1> QED BY <1>1, RowsNotNone DEF Ends, Finished, Alone, RowInv, SameWorld, storageVars, Op

LEMMA RowBegins ==
  ASSUME Typing, RowInv, NEW x \in Tasks, NEW o, NEW r, NEW q, Begins(x, o, r, q)
  PROVE  RowInv'
<1>1. r \in Rows /\ Op(x) = "none" /\ phase[x] = "load" /\ o # "none"
  BY OwnFacts, TaskOps DEF Begins, Begun, FirstOps
<1>2. store[r] = None => cache[r] = None
  BY <1>1 DEF Typing, StorageOK
<1> QED BY <1>1, <1>2, RowsNotNone DEF Begins, Begun, Fresh, Alone, RowInv, SameWorld, storageVars, Op

LEMMA RowWorks ==
  ASSUME Typing, RowInv, NEW x \in Tasks, Created(x) \/ Loaded(x) \/ Made(x) \/ Saved(x) \/ Listed(x) \/ Kept(x) \/ Forgot(x)
  PROVE  RowInv'
<1>1. /\ Alone(x) /\ todo'[x] = todo[x] /\ ctx'[x].row = ctx[x].row /\ phase'[x] # "cache"
      /\ phase[x] # "cache"
      /\ store' = store /\ cache' = cache
  BY DEF Created, Loaded, AtWork, Made, Saved, Listed, Kept, Forgot, SameWorld, storageVars
<1> QED BY <1>1 DEF RowInv, Alone, Op

LEMMA RowStored ==
  ASSUME Typing, RowInv, NEW x \in Tasks, Stored(x)
  PROVE  RowInv'
<1>1. ctx[x].row \in Rows /\ Op(x) # "none"
  BY PhaseFacts, TaskOps DEF Stored
<1>2. store' = [store EXCEPT ![ctx[x].row] = copy[x]] /\ cache' = cache /\ DOMAIN store = Rows
  BY DEF Stored, Typing, StorageOK
<1>3. /\ Alone(x) /\ phase[x] = "store" /\ phase'[x] = "cache"
      /\ todo'[x] = todo[x] /\ ctx'[x] = ctx[x] /\ copy'[x] = copy[x]
  BY DEF Stored
<1> QED BY <1>1, <1>2, <1>3, RowsNotNone DEF Alone, RowInv, Op

LEMMA RowCached ==
  ASSUME Typing, RowInv, NEW x \in Tasks, Cached(x)
  PROVE  RowInv'
<1>1. ctx[x].row \in Rows /\ Op(x) \notin {"none", "decide"} /\ copy[x] # None
  BY PhaseFacts DEF Cached, Creating, Updating
<1>2. cache' = [cache EXCEPT ![ctx[x].row] = copy[x]] /\ store' = store /\ DOMAIN cache = Rows
  BY DEF Cached, Typing, StorageOK
<1>3. Alone(x)
  BY DEF Cached, Advanced
<1>4. /\ Op(x)' \notin Creating /\ (Op(x)' # "none" => ctx'[x] = ctx[x])
      /\ (Op(x)' = "none" => ctx'[x].row = None)
  BY <1>1, AdvancedOps DEF Cached, NoContext
<1> QED BY <1>1, <1>2, <1>3, <1>4, RowsNotNone DEF Alone, RowInv, Op

LEMMA RowAdvanced ==
  ASSUME Typing, RowInv, NEW x \in Tasks, Registers(x) \/ Sent(x)
  PROVE  RowInv'
<1>1. Alone(x) /\ Advanced(x) /\ Op(x) \notin Creating \cup {"none", "decide"} /\ store' = store /\ cache' = cache
  BY DEF Registers, Sent, Advanced, Sends, Sending, Creating, storageVars
<1>4. /\ Op(x)' \notin Creating /\ (Op(x)' # "none" => ctx'[x] = ctx[x])
      /\ (Op(x)' = "none" => ctx'[x].row = None)
  BY <1>1, AdvancedOps DEF NoContext
<1> QED BY <1>1, <1>4, RowsNotNone DEF Alone, RowInv, Op

LEMMA RowDecided ==
  ASSUME Typing, RowInv, NEW x \in Tasks, Decided(x)
  PROVE  RowInv'
BY DEF Decided, Alone, RowInv, Op, SameWorld, storageVars, Creating

\* A task that goes on when the other agent crashes works on a record of its own.
LEMMA CrashedTasks ==
  ASSUME Typing, NEW tasks, NEW rows, <<tasks, rows>> \in Agents, Crashed(tasks, rows)
  PROVE  /\ tasks \subseteq Tasks
         /\ \A y \in tasks : /\ Op(y)' = "none" /\ ctx'[y].row = None /\ phase'[y] = "load"
                             /\ Op(y) # "none" => ctx[y].row \in rows
         /\ \A y \in Tasks \ tasks : /\ Op(y)' = Op(y) /\ ctx'[y] = ctx[y] /\ phase'[y] = phase[y]
                                     /\ copy'[y] = copy[y]
                                     /\ Op(y) # "none" => ctx[y].row \in Rows \ rows
         /\ store' = store
         /\ \A r \in rows : cache'[r] = store[r]
         /\ \A r \in Rows \ rows : cache'[r] = cache[r]
<1>1. OpOf(<<>>) = "none" BY OpFacts
<1>2. rows \subseteq Rows /\ tasks \subseteq Tasks
  BY DEF Agents, Rows, Tasks
<1>3. ASSUME NEW y \in Tasks \ tasks, Op(y) # "none"
      PROVE  ctx[y].row \in Rows \ rows
  BY <1>3, TaskOps, CredentialAssumption DEF Agents, Tasks, Rows
<1>4. ASSUME NEW y \in tasks, Op(y) # "none"
      PROVE  ctx[y].row \in rows
  BY <1>2, <1>4, TaskOps, CredentialAssumption DEF Agents
<1> QED BY <1>1, <1>2, <1>3, <1>4 DEF Crashed, NoContext, Op

LEMMA RowCrashed ==
  ASSUME Typing, RowInv, NEW tasks, NEW rows, <<tasks, rows>> \in Agents, Crashed(tasks, rows)
  PROVE  RowInv'
BY CrashedTasks, RowsNotNone DEF RowInv

LEMMA MovesRows ==
  ASSUME Typing, RowInv, Moves
  PROVE  RowInv'
<1>1. ASSUME NEW x \in Tasks, TaskMoves(x) PROVE RowInv'
  BY <1>1, RowEnds, RowBegins, RowWorks, RowStored, RowCached, RowAdvanced, RowDecided
     DEF TaskMoves, StartsSomething
<1>2. ASSUME NEW tasks, NEW rows, <<tasks, rows>> \in Agents, Crashed(tasks, rows) PROVE RowInv'
  BY <1>2, RowCrashed
<1> QED BY <1>1, <1>2, RowQuiet DEF Moves, Agents
-----------------------------------------------------------------------------
(* The exchange is opened once.                                            *)

\* While the first record is made there is nothing else.
LEMMA OpenedAlone ==
  ASSUME Typing, OpenedInv, NEW x \in Tasks, Op(x) # "none"
  PROVE  /\ opened
         /\ \A y \in Tasks : y # x => Op(y) \notin {"create", "propose"}
BY DEF OpenedInv

LEMMA OpenedTask ==
  ASSUME Typing, OpenedInv, NEW x \in Tasks, Op(x) # "none", opened' = opened, Alone(x),
         Op(x)' \in {"create", "propose"} =>
            Op(x) = Op(x)' /\ ctx'[x].row = ctx[x].row /\ sent' = sent,
         \A r \in Rows : r # ctx[x].row => store'[r] = store[r]
  PROVE  OpenedInv'
BY OpenedAlone DEF OpenedInv, Alone, Op

LEMMA OpenedBegins ==
  ASSUME Typing, RowInv, OpenedInv, NEW x \in Tasks, NEW o, NEW r, NEW q, Begins(x, o, r, q)
  PROVE  OpenedInv'
<1>1. r \in Rows /\ Op(x) = "none" /\ o # "none" /\ Op(x)' = o /\ ctx'[x].row = r
  BY OwnFacts DEF Begins, Begun, FirstOps, Op
<1>2. CASE o \in {"create", "propose"}
  BY <1>1, <1>2 DEF Begins, Begun, Alone, OpenedInv, Op, SameWorld, storageVars
<1>3. CASE o \notin {"create", "propose"}
  <2>1. sent # {} \/ cache[r] # None
    BY <1>3 DEF Begins, Creating
  <2>2. cache[r] # None => store[r] # None
    BY <1>1 DEF Typing, StorageOK
  <2>3. ASSUME NEW y \in Tasks, Op(y) \in {"create", "propose"} PROVE FALSE
    BY <1>1, <2>1, <2>2, <2>3 DEF OpenedInv, RowInv, Creating
  <2>4. opened
    BY <1>1, <2>1, <2>2 DEF OpenedInv
  <2> QED BY <1>1, <1>3, <2>3, <2>4 DEF Begins, Begun, Alone, OpenedInv, Op
<1> QED BY <1>2, <1>3

LEMMA MovesOpened ==
  ASSUME Typing, RowInv, OpenedInv, Moves
  PROVE  OpenedInv'
<1>1. CASE Quiet
  BY <1>1 DEF OpenedInv, Quiet, taskVars, SameWorld, storageVars, Op
<1>2. ASSUME NEW x \in Tasks, Created(x) \/ Loaded(x) \/ Made(x) \/ Saved(x) \/ Listed(x) \/ Kept(x) \/ Forgot(x)
      PROVE  OpenedInv'
  <2>1. /\ Alone(x) /\ todo'[x] = todo[x] /\ ctx'[x].row = ctx[x].row
        /\ store' = store /\ opened' = opened /\ sent' = sent /\ Op(x) # "none"
    BY <1>2 DEF Created, Loaded, AtWork, Made, Saved, Listed, Kept, Forgot, SameWorld, storageVars, SameNet, netVars,
                Creating, Updating
  <2> QED BY <2>1, OpenedTask DEF Op
<1>3. ASSUME NEW x \in Tasks, Ends(x)
      PROVE  OpenedInv'
  <2>1. Op(x)' = "none" /\ Alone(x) /\ store' = store /\ opened' = opened /\ sent' = sent
    BY <1>3, FinishedOps DEF Ends, Finished, SameWorld, storageVars
  <2>2. CASE Op(x) # "none"
    BY <2>1, <2>2, OpenedTask
  <2>3. CASE Op(x) = "none"
    BY <2>1, <2>3 DEF OpenedInv, Alone, Op
  <2> QED BY <2>2, <2>3
<1>4. ASSUME NEW x \in Tasks, Stored(x)
      PROVE  OpenedInv'
  <2>1. ctx[x].row \in Rows /\ Op(x) # "none"
    BY <1>4, PhaseFacts DEF Stored, Creating, Updating
  <2>2. \A r \in Rows : r # ctx[x].row => store'[r] = store[r]
    BY <1>4, <2>1 DEF Stored, Typing, StorageOK
  <2>3. Alone(x) /\ Op(x)' = Op(x) /\ ctx'[x] = ctx[x] /\ opened' = opened /\ sent' = sent
    BY <1>4 DEF Stored, Op, SameNet, netVars
  <2> QED BY <2>1, <2>2, <2>3, OpenedTask
<1>5. ASSUME NEW x \in Tasks, Cached(x) \/ Registers(x) \/ Sent(x)
      PROVE  OpenedInv'
  <2>1. Advanced(x) /\ Op(x) \notin {"none", "decide"} /\ opened' = opened /\ store' = store
    BY <1>5 DEF Cached, Registers, Sent, SameNet, Sends, Sending, Creating, Updating, storageVars
  <2>2. Op(x)' \notin {"create", "propose"} /\ Alone(x)
    BY <2>1, AdvancedOps DEF Creating, Advanced
  <2> QED BY <2>1, <2>2, OpenedTask
<1>6. ASSUME NEW x \in Tasks, Decided(x)
      PROVE  OpenedInv'
  <2>1. /\ Alone(x) /\ Op(x) = "decide" /\ Op(x)' = "acceptRequest"
        /\ store' = store /\ opened' = opened /\ sent' = sent
    BY <1>6 DEF Decided, SameWorld, storageVars, SameNet, netVars, Op
  <2> QED BY <2>1, OpenedTask
<1>7. ASSUME NEW tasks, NEW rows, <<tasks, rows>> \in Agents, Crashed(tasks, rows)
      PROVE  OpenedInv'
  <2>1. opened' = opened /\ sent' = sent BY <1>7 DEF Crashed, SameNet, netVars
  <2> QED BY <1>7, <2>1, CrashedTasks DEF OpenedInv
<1>8. ASSUME NEW x \in Tasks, TaskMoves(x) PROVE OpenedInv'
  BY <1>2, <1>3, <1>4, <1>5, <1>6, <1>8, OpenedBegins DEF TaskMoves, StartsSomething
<1> QED BY <1>1, <1>7, <1>8 DEF Moves, Agents
-----------------------------------------------------------------------------
(* The numbers of requests.                                                *)

NumberTask(x) ==
  /\ Op(x) \in {"sendRequest", "storeRequest"} => ctx[x].request # None
  /\ Op(x) = "acceptOffer" /\ phase[x] \in {"save", "store", "cache"} => ctx[x].request # None

LEMMA NumberAlone ==
  ASSUME NumberInv, NEW x \in Tasks, Alone(x), sent' \subseteq sent, NumberTask(x)'
  PROVE  NumberInv'
BY DEF NumberInv, NumberTask, Alone, Op

LEMMA MovesNumbers ==
  ASSUME Typing, NumberInv, Moves
  PROVE  NumberInv'
<1>1. CASE Quiet
  BY <1>1 DEF NumberInv, Quiet, taskVars, Op
<1>2. ASSUME NEW x \in Tasks, Created(x) \/ Loaded(x) \/ Saved(x) \/ Listed(x) \/ Kept(x) \/ Forgot(x) \/ Stored(x)
      PROVE  NumberInv'
  <2>1. Alone(x) /\ Op(x)' = Op(x) /\ sent' = sent
    BY <1>2 DEF Created, Loaded, AtWork, Saved, Listed, Kept, Forgot, Stored, SameNet, netVars, Op
  <2>2. NumberTask(x)'
    BY <1>2, <2>1 DEF Created, Loaded, AtWork, Saved, Listed, Kept, Forgot, Stored, NumberInv, NumberTask, Creating, Working
  <2> QED BY <2>1, <2>2, NumberAlone
<1>3. ASSUME NEW x \in Tasks, Made(x)
      PROVE  NumberInv'
  <2>1. Alone(x) /\ Op(x)' = Op(x) /\ sent' = sent /\ ctx'[x].request # None
    BY <1>3, CredentialAssumption DEF Made, AtWork, SameNet, netVars, Op, Typing, CountsOK
  <2> QED BY <2>1, NumberAlone DEF NumberTask
<1>4. ASSUME NEW x \in Tasks, Ends(x)
      PROVE  NumberInv'
  <2>1. Alone(x) /\ Op(x)' = "none" /\ sent' = sent
    BY <1>4, FinishedOps DEF Ends, Finished
  <2> QED BY <2>1, NumberAlone DEF NumberTask
<1>5. ASSUME NEW x \in Tasks, NEW o, NEW r, NEW q, Begins(x, o, r, q)
      PROVE  NumberInv'
  <2>1. Alone(x) /\ Op(x)' = o /\ sent' = sent /\ o \in FirstOps
        /\ ctx'[x].request = q /\ phase'[x] = "load"
    BY <1>5, TaskOps DEF Begins, Begun, Op
  <2>2. o = "storeRequest" => q # None
    BY <1>5 DEF Begins, NumberInv
  <2> QED BY <2>1, <2>2, NumberAlone DEF NumberTask, FirstOps
<1>6. ASSUME NEW x \in Tasks, Cached(x) \/ Registers(x)
      PROVE  NumberInv'
  <2>1. Advanced(x) /\ Op(x) \notin {"none", "decide"} /\ sent' = sent
    BY <1>6 DEF Cached, Registers, SameNet, netVars, Creating, Updating
  <2>2. Alone(x) /\ After(Op(x), Op(x)') /\ phase'[x] = "load" /\ (Op(x)' # "none" => ctx'[x] = ctx[x])
    BY <2>1, AdvancedOps DEF Advanced
  <2>3. Op(x)' # "storeRequest"
    BY <1>6, <2>2 DEF After, Cached, Registers, Creating, Updating
  <2>4. Op(x)' = "sendRequest" => Op(x) = "acceptOffer" /\ phase[x] = "cache"
    BY <1>6, <2>2 DEF After, Cached, Registers, Creating, Updating
  <2> QED BY <2>1, <2>2, <2>3, <2>4, NumberAlone DEF NumberTask, NumberInv
<1>7. ASSUME NEW x \in Tasks, Decided(x)
      PROVE  NumberInv'
  <2>1. Alone(x) /\ Op(x)' = "acceptRequest" /\ sent' = sent
    BY <1>7 DEF Decided, SameNet, netVars, Op
  <2> QED BY <2>1, NumberAlone DEF NumberTask
<1>8. ASSUME NEW x \in Tasks, Sent(x)
      PROVE  NumberInv'
  <2>1. Alone(x) /\ Op(x)' = "none"
    BY <1>8 DEF Sent, Advanced, After, Sends, Op
  <2>2. ASSUME NEW m \in sent' \ sent
        PROVE  /\ m.type = "request" => m.request # None
               /\ m.type \notin {"request", "issue"} => m.request = None
    BY <1>8, <2>2 DEF Sent, Message, Sends, Sending, NumberInv
  <2> QED BY <2>1, <2>2 DEF NumberInv, Alone, Op
<1>9. ASSUME NEW tasks, NEW rows, <<tasks, rows>> \in Agents, Crashed(tasks, rows)
      PROVE  NumberInv'
  <2>1. sent' = sent BY <1>9 DEF Crashed, SameNet, netVars
  <2> QED BY <1>9, <2>1, CrashedTasks DEF NumberInv
<1>10. ASSUME NEW x \in Tasks, TaskMoves(x) PROVE NumberInv'
  BY <1>2, <1>3, <1>4, <1>5, <1>6, <1>7, <1>8, <1>10 DEF TaskMoves, StartsSomething
<1> QED BY <1>1, <1>9, <1>10 DEF Moves, Agents
-----------------------------------------------------------------------------
(* What Done means.                                                        *)

DoneTask(x) ==
  /\ Op(x) \notin {"sendAck", "ack"}
  /\ Op(x) = "process" => phase[x] \in {"load", "work", "save"}
  /\ Works(x) /\ Op(x) # "process" => copy[x].state # "Done"

LEMMA DoneAlone ==
  ASSUME Typing, DoneInv, NEW x \in Tasks, Alone(x), held' = held, sent' = sent, store' = store, cache' = cache,
         held = 0 => DoneTask(x)'
  PROVE  DoneInv'
BY DEF DoneInv, DoneTask, Alone, Op, Works

LEMMA MovesDone ==
  ASSUME Typing, DoneInv, Moves
  PROVE  DoneInv'
<1>1. CASE Quiet
  BY <1>1 DEF DoneInv, Quiet, taskVars, SameWorld, storageVars, holderVars, Op, Works
<1>2. ASSUME NEW x \in Tasks, Created(x)
      PROVE  DoneInv'
  <2>1. Alone(x) /\ Op(x)' = Op(x) /\ sent' = sent /\ store' = store /\ cache' = cache /\ held' = held
    BY <1>2 DEF Created, SameNet, netVars, Op, SameWorld, storageVars, holderVars
  <2>2. copy'[x].state # "Done"
    BY <1>2, NewRecord DEF Created, Creating
  <2>3. DoneTask(x)'
    BY <1>2, <2>1, <2>2 DEF Created, DoneTask, Creating
  <2> QED BY <2>1, <2>3, DoneAlone
<1>3. ASSUME NEW x \in Tasks, Loaded(x)
      PROVE  DoneInv'
  <2>1. Alone(x) /\ Op(x)' = Op(x) /\ sent' = sent /\ store' = store /\ cache' = cache /\ held' = held
    BY <1>3 DEF Loaded, SameNet, netVars, Op, SameWorld, storageVars, holderVars
  <2> DEFINE rec == cache[ctx[x].row]
  <2>2. /\ Op(x) \in Updating /\ ctx[x].row \in Rows /\ rec \in ExchangeRecord /\ rec # None
        /\ ctx[x].request \in Requests
    BY <1>3, TaskOps DEF Loaded, Updating, Typing, StorageOK, TaskFunctions, Context
  <2>3. copy'[x].state = LeftIn(Op(x), rec.state)
    BY <1>3, <2>2, ChangedFacts DEF Loaded
  <2>4. ASSUME held = 0 PROVE DoneTask(x)'
    <3>1. rec.state # "Done" /\ Op(x) # "ack" BY <2>2, <2>4 DEF DoneInv
    <3>2. Op(x) # "process" => copy'[x].state # "Done"
      BY <2>2, <2>3, <3>1 DEF LeftIn
    <3>3. Op(x) = "process" => phase'[x] = "work" BY <1>3 DEF Loaded, Working
    <3>4. Op(x) # "sendAck" BY <2>2 DEF Updating
    <3> QED BY <2>1, <3>1, <3>2, <3>3, <3>4 DEF DoneTask, Works
  <2> QED BY <2>1, <2>4, DoneAlone
<1>4. ASSUME NEW x \in Tasks, Made(x) \/ Saved(x)
      PROVE  DoneInv'
  <2>1. /\ Alone(x) /\ Op(x)' = Op(x) /\ sent' = sent /\ store' = store /\ cache' = cache /\ held' = held
        /\ Op(x) = "acceptOffer" /\ copy'[x].state = copy[x].state /\ Works(x)
    BY <1>4 DEF AtWork, Made, Saved, SameNet, netVars, Op, storageVars, Works
  <2>2. held = 0 => DoneTask(x)'
    BY <2>1 DEF DoneInv, DoneTask
  <2> QED BY <2>1, <2>2, DoneAlone
<1>5. ASSUME NEW x \in Tasks, Kept(x)
      PROVE  DoneInv'
  BY <1>5 DEF Kept, DoneInv, Typing, CountsOK
<1>6. ASSUME NEW x \in Tasks, Forgot(x)
      PROVE  DoneInv'
  BY <1>6 DEF AtWork, Forgot, DoneInv
<1>15. ASSUME NEW x \in Tasks, Listed(x)
       PROVE  DoneInv'
  <2>1. /\ Alone(x) /\ Op(x)' = "process" /\ phase'[x] = "save"
        /\ sent' = sent /\ store' = store /\ cache' = cache /\ held' = held
    BY <1>15 DEF AtWork, Listed, SameNet, netVars, Op, storageVars
  <2> QED BY <2>1, DoneAlone DEF DoneTask
<1>7. ASSUME NEW x \in Tasks, Stored(x)
      PROVE  DoneInv'
  <2>1. ctx[x].row \in Rows /\ phase[x] = "store" /\ Works(x)
    BY <1>7, PhaseFacts DEF Stored, Works
  <2>2. /\ store' = [store EXCEPT ![ctx[x].row] = copy[x]] /\ cache' = cache /\ DOMAIN store = Rows
        /\ sent' = sent /\ held' = held
    BY <1>7 DEF Stored, Typing, StorageOK, SameNet, netVars, holderVars
  <2>3. Alone(x) /\ todo'[x] = todo[x] /\ copy'[x] = copy[x]
    BY <1>7 DEF Stored
  <2>4. ASSUME held = 0 PROVE copy[x].state # "Done" /\ Op(x) # "process"
    BY <2>1, <2>4 DEF DoneInv
  <2> QED BY <2>1, <2>2, <2>3, <2>4 DEF DoneInv, Alone, Op, Works
<1>8. ASSUME NEW x \in Tasks, Cached(x)
      PROVE  DoneInv'
  <2>1. ctx[x].row \in Rows /\ phase[x] = "cache" /\ Works(x) /\ Op(x) \in Creating \cup Updating
    BY <1>8, PhaseFacts DEF Cached, Works
  <2>2. /\ cache' = [cache EXCEPT ![ctx[x].row] = copy[x]] /\ store' = store /\ DOMAIN cache = Rows
        /\ sent' = sent /\ held' = held
    BY <1>8 DEF Cached, Typing, StorageOK, SameNet, netVars, holderVars
  <2>3. Alone(x) /\ phase'[x] = "load" /\ After(Op(x), Op(x)')
    BY <1>8 DEF Cached, Advanced, Op
  <2>4. ASSUME held = 0 PROVE copy[x].state # "Done" /\ Op(x) # "process"
    BY <2>1, <2>4 DEF DoneInv
  <2>5. Op(x) # "process" => Op(x)' \notin {"ack", "sendAck", "process"}
    BY <2>1, <2>3 DEF After, Creating, Updating
  <2> QED BY <2>1, <2>2, <2>3, <2>4, <2>5 DEF DoneInv, Alone, Op, Works
<1>9. ASSUME NEW x \in Tasks, Ends(x)
      PROVE  DoneInv'
  <2>1. Alone(x) /\ Op(x)' = "none" /\ sent' = sent /\ phase'[x] = "load"
        /\ store' = store /\ cache' = cache /\ held' = held
    BY <1>9, FinishedOps DEF Ends, Finished, SameWorld, storageVars, holderVars
  <2> QED BY <2>1, DoneAlone DEF DoneTask, Works
<1>10. ASSUME NEW x \in Tasks, NEW o, NEW r, NEW q, Begins(x, o, r, q)
       PROVE  DoneInv'
  <2>1. Alone(x) /\ Op(x)' = o /\ sent' = sent /\ o \in FirstOps /\ phase'[x] = "load"
        /\ store' = store /\ cache' = cache /\ held' = held
    BY <1>10, TaskOps DEF Begins, Begun, Op, SameWorld, storageVars, holderVars
  <2>2. held = 0 => o # "ack"
    BY <1>10 DEF Begins, DoneInv
  <2> QED BY <2>1, <2>2, DoneAlone DEF DoneTask, FirstOps, Works
<1>11. ASSUME NEW x \in Tasks, Registers(x) \/ Decided(x)
       PROVE  DoneInv'
  <2>1. /\ Alone(x) /\ sent' = sent /\ phase'[x] = "load"
        /\ store' = store /\ cache' = cache /\ held' = held
    BY <1>11 DEF Decided, Registers, Advanced, SameWorld, SameNet, netVars, storageVars, holderVars
  <2>2. Op(x)' \in {"sendOffer", "sendIssue", "acceptRequest"}
    BY <1>11 DEF Decided, Registers, Advanced, After, Op
  <2> QED BY <2>1, <2>2, DoneAlone DEF DoneTask, Works
<1>12. ASSUME NEW x \in Tasks, Sent(x)
       PROVE  DoneInv'
  <2>1. Alone(x) /\ Op(x)' = "none" /\ phase'[x] = "load" /\ store' = store /\ cache' = cache /\ held' = held
    BY <1>12 DEF Sent, Advanced, After, Sends, Op, storageVars, holderVars
  <2>2. ASSUME NEW m \in sent' \ sent, held = 0
        PROVE  m.type # "ack"
    BY <1>12, <2>2 DEF Sent, Message, Sends, Sending, DoneInv
  <2> QED BY <2>1, <2>2 DEF DoneInv, Alone, Op, Works
<1>13. ASSUME NEW tasks, NEW rows, <<tasks, rows>> \in Agents, Crashed(tasks, rows)
       PROVE  DoneInv'
  <2>1. sent' = sent /\ held' = held BY <1>13 DEF Crashed, SameNet, netVars, holderVars
  <2> QED BY <1>13, <2>1, CrashedTasks DEF DoneInv, Works
<1>14. ASSUME NEW x \in Tasks, TaskMoves(x) PROVE DoneInv'
  BY <1>2, <1>3, <1>4, <1>5, <1>6, <1>7, <1>8, <1>9, <1>10, <1>11, <1>12, <1>14, <1>15
     DEF TaskMoves, StartsSomething
<1> QED BY <1>1, <1>13, <1>14 DEF Moves, Agents
-----------------------------------------------------------------------------
(* Storage, cache and copies are in step.                                  *)

\* A task that does not work on a record it did not work on before.
LEMMA ExclusiveAlone ==
  ASSUME Exclusive, NEW x \in Tasks, Alone(x),
         Works(x)' => Works(x) /\ Op(x)' = Op(x) /\ ctx'[x].row = ctx[x].row
  PROVE  Exclusive'
BY DEF Exclusive, Alone, Works, Op

LEMMA ExclusiveNew ==
  ASSUME Exclusive, NEW x \in Tasks, Alone(x), Op(x)' = Op(x), ctx'[x].row = ctx[x].row,
         \A y \in Tasks : y # x /\ Works(y) =>
           ctx[y].row # ctx[x].row /\ (Op(x) # "process" \/ Op(y) # "process")
  PROVE  Exclusive'
BY DEF Exclusive, Alone, Works, Op

LEMMA SyncedAlone ==
  ASSUME Synced, NEW x \in Tasks, Alone(x), store' = store, cache' = cache, phase[x] # "cache"
  PROVE  Synced'
BY DEF Synced, Alone

LEMMA CurrentOther ==
  ASSUME NEW x \in Tasks, Alone(x), NEW y \in Tasks, y # x, Current(y),
         Works(y) => store'[ctx[y].row] = store[ctx[y].row]
  PROVE  Current(y)'
BY DEF Current, UpToDate, Alone, Op, Works

\* A step that writes no record.
LEMMA InStepAlone ==
  ASSUME InStep, NEW x \in Tasks, Alone(x), store' = store, cache' = cache, phase[x] # "cache",
         Works(x)' => Works(x) /\ Op(x)' = Op(x) /\ ctx'[x].row = ctx[x].row,
         Current(x)'
  PROVE  InStep'
<1>1. \A y \in Tasks : Current(y)'
  BY CurrentOther DEF InStep
<1> QED BY <1>1, ExclusiveAlone, SyncedAlone DEF InStep

LEMMA MovesInStep ==
  ASSUME Typing, RowInv, InStep, Moves, Unraced'
  PROVE  InStep'
<1>1. CASE Quiet
  BY <1>1 DEF Quiet, taskVars, SameWorld, storageVars, InStep, Exclusive, Synced, Current, UpToDate, Op, Works
<1>2. ASSUME NEW x \in Tasks, Created(x)
      PROVE  InStep'
  <2>1. /\ Alone(x) /\ Op(x)' = Op(x) /\ ctx'[x].row = ctx[x].row /\ Op(x) \in Creating
        /\ store' = store /\ cache' = cache /\ phase[x] = "load"
    BY <1>2 DEF Created, Op, SameWorld, storageVars
  <2>2. \A y \in Tasks : y # x => ctx[y].row # ctx[x].row
    BY <2>1 DEF RowInv, Creating
  <2>3. Op(x) # "process" /\ Op(x) \notin Updating BY <2>1 DEF Creating, Updating
  <2>4. Exclusive' BY <2>1, <2>2, <2>3, ExclusiveNew DEF InStep
  <2>5. Synced' BY <2>1, SyncedAlone DEF InStep
  <2>6. ASSUME NEW y \in Tasks PROVE Current(y)'
    BY <2>1, <2>3, CurrentOther DEF InStep, Current
  <2> QED BY <2>4, <2>5, <2>6 DEF InStep
<1>3. ASSUME NEW x \in Tasks, Loaded(x)
      PROVE  InStep'
  <2> DEFINE r == ctx[x].row
             rec == cache[r]
  <2>1. /\ Alone(x) /\ Op(x)' = Op(x) /\ ctx'[x].row = r /\ Op(x) \in Updating
        /\ store' = store /\ cache' = cache /\ phase[x] = "load"
    BY <1>3 DEF Loaded, Op, SameWorld, storageVars
  <2>2. \A y \in Tasks : y # x /\ Works(y) =>
          ctx[y].row # r /\ (Op(x) # "process" \/ Op(y) # "process")
    BY <1>3 DEF Loaded
  <2>3. /\ r \in Rows /\ rec \in ExchangeRecord /\ rec # None /\ ctx[x].request \in Requests
    BY <1>3, <2>1, TaskOps DEF Loaded, Updating, Typing, StorageOK, TaskFunctions, Context
  <2>4. store[r] = rec
    BY <2>1, <2>2, <2>3 DEF InStep, Synced, Works
  <2>5. Exclusive' BY <2>1, <2>2, ExclusiveNew DEF InStep
  <2>6. Synced' BY <2>1, SyncedAlone DEF InStep
  <2>7. Current(x)'
    <3>1. phase'[x] \in {"work", "store"} BY <1>3 DEF Loaded
    <3>2. store'[ctx'[x].row] = rec BY <2>1, <2>4
    <3>3. rec # None /\ Ready(Op(x), rec.state) BY <1>3 DEF Loaded
    <3>4. CASE Op(x) = "acceptOffer"
      <4>1. copy'[x].state = "RequestSent"
        BY <1>3, <2>1, <2>3, <3>4, ChangedFacts DEF Loaded, LeftIn
      <4> QED BY <2>1, <3>1, <3>2, <3>3, <3>4, <4>1 DEF Current, UpToDate
    <3>5. CASE Op(x) # "acceptOffer"
      <4>1. copy'[x] = Changed(Op(x), rec, ctx'[x].request)
        BY <1>3 DEF Loaded, Changed
      <4> QED BY <2>1, <3>1, <3>2, <3>3, <3>5, <4>1 DEF Current, UpToDate
    <3> QED BY <3>4, <3>5
  <2>8. ASSUME NEW y \in Tasks PROVE Current(y)'
    BY <2>1, <2>7, CurrentOther DEF InStep
  <2> QED BY <2>5, <2>6, <2>8 DEF InStep
<1>4. ASSUME NEW x \in Tasks, Made(x) \/ Saved(x) \/ Listed(x) \/ Kept(x) \/ Forgot(x)
      PROVE  InStep'
  <2>1. /\ Alone(x) /\ Op(x)' = Op(x) /\ ctx'[x].row = ctx[x].row
        /\ store' = store /\ cache' = cache /\ phase[x] \in {"work", "save", "forget"} /\ Works(x)
        /\ phase'[x] \in {"save", "forget", "store"} /\ copy'[x].state = copy[x].state
    BY <1>4 DEF AtWork, Made, Saved, Listed, Kept, Forgot, Op, storageVars, Works
  <2>2. /\ Op(x) \in {"acceptOffer", "process"}
        /\ Op(x) = "process" => copy'[x] = copy[x] /\ ctx'[x] = ctx[x]
    BY <1>4 DEF AtWork, Made, Saved, Listed, Kept, Forgot
  <2>3. Current(x)'
    BY <2>1, <2>2 DEF InStep, Current, UpToDate, Updating
  <2> QED BY <2>1, <2>3, InStepAlone
<1>5. ASSUME NEW x \in Tasks, Stored(x)
      PROVE  InStep'
  <2>1. ctx[x].row \in Rows /\ phase[x] = "store" /\ phase'[x] = "cache" /\ Works(x)
    BY <1>5, PhaseFacts DEF Stored, Works
  <2>2. /\ store' = [store EXCEPT ![ctx[x].row] = copy[x]] /\ cache' = cache /\ DOMAIN store = Rows
    BY <1>5 DEF Stored, Typing, StorageOK
  <2>3. Alone(x) /\ Op(x)' = Op(x) /\ ctx'[x] = ctx[x] /\ copy'[x] = copy[x]
    BY <1>5 DEF Stored, Op
  <2>4. Exclusive' BY <2>1, <2>3, ExclusiveAlone DEF InStep
  <2>5. Synced'
    BY <2>1, <2>2, <2>3 DEF InStep, Synced, Alone
  <2>6. Current(x)'
    BY <2>1, <2>2, <2>3 DEF Current
  <2>7. ASSUME NEW y \in Tasks, y # x PROVE Current(y)'
    <3>1. Works(y) => ctx[y].row # ctx[x].row BY <2>1, <2>7 DEF InStep, Exclusive
    <3>2. Works(y) => store'[ctx[y].row] = store[ctx[y].row]
      BY <2>1, <2>2, <3>1, PhaseFacts DEF Works
    <3> QED BY <2>3, <2>7, <3>2, CurrentOther DEF InStep
  <2> QED BY <2>4, <2>5, <2>6, <2>7 DEF InStep
<1>6. ASSUME NEW x \in Tasks, Cached(x)
      PROVE  InStep'
  <2>1. ctx[x].row \in Rows /\ phase[x] = "cache" /\ Works(x) /\ Op(x) \in Creating \cup Updating
    BY <1>6, PhaseFacts DEF Cached, Works
  <2>2. /\ cache' = [cache EXCEPT ![ctx[x].row] = copy[x]] /\ store' = store /\ DOMAIN cache = Rows
    BY <1>6 DEF Cached, Typing, StorageOK
  <2>3. Alone(x) /\ phase'[x] = "load"
    BY <1>6 DEF Cached, Advanced
  <2>4. Exclusive' BY <2>3, ExclusiveAlone DEF InStep, Works
  <2>5. store[ctx[x].row] = copy[x]
    BY <2>1 DEF InStep, Current, RowInv, Creating, Updating
  <2>6. Synced'
    BY <2>1, <2>2, <2>3, <2>5 DEF InStep, Synced, Alone
  <2>7. ASSUME NEW y \in Tasks PROVE Current(y)'
    BY <2>2, <2>3, CurrentOther DEF InStep, Current
  <2> QED BY <2>4, <2>6, <2>7 DEF InStep
<1>7. ASSUME NEW x \in Tasks, Alone(x), store' = store, cache' = cache, phase[x] # "cache", phase'[x] = "load"
      PROVE  InStep'
  <2>1. ~ Works(x)' /\ Current(x)' BY <1>7 DEF Works, Current
  <2> QED BY <1>7, <2>1, InStepAlone
<1>8. ASSUME NEW x \in Tasks, Ends(x) \/ Registers(x) \/ Decided(x) \/ Sent(x)
      PROVE  InStep'
  <2>1. Alone(x) /\ store' = store /\ cache' = cache /\ phase[x] # "cache" /\ phase'[x] = "load"
    BY <1>8 DEF Ends, Finished, Registers, Decided, Sent, Advanced, SameWorld, storageVars
  <2> QED BY <1>7, <2>1
<1>9. ASSUME NEW x \in Tasks, NEW o, NEW r, NEW q, Begins(x, o, r, q)
      PROVE  InStep'
  <2>1. Alone(x) /\ store' = store /\ cache' = cache /\ phase[x] # "cache" /\ phase'[x] = "load"
    BY <1>9, TaskOps DEF Begins, Begun, SameWorld, storageVars
  <2> QED BY <1>7, <2>1
<1>10. ASSUME NEW tasks, NEW rows, <<tasks, rows>> \in Agents, Crashed(tasks, rows)
       PROVE  InStep'
  <2>1. rows \subseteq Rows BY <1>10 DEF Agents, Rows
  <2>2. Exclusive' BY <1>10, CrashedTasks DEF InStep, Exclusive, Works
  <2>3. Synced'
    <3> SUFFICES ASSUME NEW r \in Rows, store'[r] # cache'[r]
                 PROVE  \E x \in Tasks : phase'[x] = "cache" /\ ctx'[x].row = r
      BY DEF Synced
    <3>1. r \notin rows /\ store[r] # cache[r] BY <1>10, CrashedTasks
    <3>2. PICK x \in Tasks : phase[x] = "cache" /\ ctx[x].row = r BY <3>1 DEF InStep, Synced
    <3>3. Op(x) # "none" BY <3>2, TaskOps
    <3>4. x \notin tasks BY <1>10, <3>1, <3>2, <3>3, CrashedTasks
    <3> QED BY <1>10, <3>2, <3>4, CrashedTasks
  <2>4. ASSUME NEW y \in Tasks PROVE Current(y)'
    <3>1. CASE y \in tasks BY <1>10, <3>1, CrashedTasks DEF Current, Updating
    <3>2. CASE y \notin tasks BY <1>10, <3>2, CrashedTasks DEF InStep, Current, UpToDate
    <3> QED BY <3>1, <3>2
  <2> QED BY <2>2, <2>3, <2>4 DEF InStep
<1>11. ASSUME NEW x \in Tasks, TaskMoves(x) PROVE InStep'
  BY <1>2, <1>3, <1>4, <1>5, <1>6, <1>8, <1>9, <1>11 DEF TaskMoves, StartsSomething
<1> QED BY <1>1, <1>10, <1>11 DEF Moves, Agents
-----------------------------------------------------------------------------
(* What a step does to storage.                                            *)

LEMMA StoreMoves ==
  ASSUME Moves
  PROVE  store' = store \/ \E x \in Tasks : Stored(x)
BY DEF Moves, TaskMoves, Quiet, Ends, StartsSomething, Begins, Created, Loaded, AtWork, Made, Saved, Listed, Kept, Forgot,
  Cached, Registers, Decided, Sent, Crashed, SameWorld, storageVars

\* A task does nothing, stops, or takes the step.
Rests(y) == /\ Op(y)' = Op(y) /\ ctx'[y] = ctx[y] /\ phase'[y] = phase[y] /\ copy'[y] = copy[y]

LEMMA TaskCases ==
  ASSUME Typing, Moves, NEW y \in Tasks
  PROVE  Rests(y) \/ (Op(y)' = "none" /\ ~ Works(y)') \/ TaskMoves(y)
<1>1. CASE Quiet BY <1>1 DEF Quiet, taskVars, Op, Rests
<1>2. ASSUME NEW tasks, NEW rows, <<tasks, rows>> \in Agents, Crashed(tasks, rows)
      PROVE  Rests(y) \/ (Op(y)' = "none" /\ ~ Works(y)')
  BY <1>2, CrashedTasks DEF Rests, Works
<1>3. ASSUME NEW x \in Tasks, Alone(x), x # y
      PROVE  Rests(y)
  BY <1>3 DEF Alone, Op, Rests
<1>4. ASSUME NEW x \in Tasks, TaskMoves(x)
      PROVE  Alone(x)
  BY <1>4 DEF TaskMoves, Ends, Finished, StartsSomething, Begins, Begun, Created, Loaded, AtWork, Made, Saved, Listed, Kept,
    Forgot, Stored, Cached, Registers, Decided, Sent, Advanced
<1> QED BY <1>1, <1>2, <1>3, <1>4 DEF Moves, Agents

\* A record that is written is new, or is the one in storage, changed.
LEMMA StoredFacts ==
  ASSUME Typing, RowInv, InStep, NEW x \in Tasks, Stored(x)
  PROVE  LET r == ctx[x].row IN
         /\ r \in Rows /\ \A s \in Rows : s # r => store'[s] = store[s]
         /\ store'[r] = copy[x] /\ store'[r] # None
         /\ Op(x) \in Creating \cup Updating
         /\ Op(x) \in Creating => store[r] = None /\ store'[r] = Exchange(Creates[Op(x)])
         /\ Op(x) \in Updating =>
              /\ store[r] # None /\ Ready(Op(x), store[r].state)
              /\ store'[r].state = LeftIn(Op(x), store[r].state)
              /\ Op(x) # "acceptOffer" =>
                   store'[r].request = IF Op(x) = "storeRequest" THEN ctx[x].request ELSE store[r].request
         /\ r \in IssuerRows => x \notin HolderTasks
         /\ r \in HolderRows => x \in HolderTasks
<1> DEFINE r == ctx[x].row
<1>1. /\ r \in Rows /\ Works(x) /\ phase[x] = "store" /\ copy[x] # None
      /\ Op(x) \in Creating \cup Updating /\ Op(x) # "none"
  BY PhaseFacts DEF Stored, Works, Creating, Updating
<1>2. store' = [store EXCEPT ![r] = copy[x]] /\ DOMAIN store = Rows
  BY DEF Stored, Typing, StorageOK
<1>3. Op(x) \in Creating => store[r] = None /\ copy[x] = Exchange(Creates[Op(x)])
  BY <1>1 DEF RowInv, Typing, TaskOK
<1>4. ASSUME Op(x) \in Updating
      PROVE  /\ store[r] # None /\ Ready(Op(x), store[r].state)
             /\ copy[x].state = LeftIn(Op(x), store[r].state)
             /\ Op(x) # "acceptOffer" =>
                  copy[x].request = IF Op(x) = "storeRequest" THEN ctx[x].request ELSE store[r].request
  <2>1. UpToDate(x) BY <1>1, <1>4 DEF InStep, Current
  <2>2. store[r] \in ExchangeRecord /\ ctx[x].request \in Requests
    BY <1>1, <2>1 DEF UpToDate, Typing, StorageOK, TaskFunctions, Context
  <2>3. CASE Op(x) = "acceptOffer" BY <2>1, <2>3 DEF UpToDate, LeftIn
  <2>4. CASE Op(x) # "acceptOffer"
    BY <1>4, <2>1, <2>2, <2>4, ChangedFacts DEF UpToDate
  <2> QED BY <2>1, <2>3, <2>4 DEF UpToDate
<1>5. /\ r \in IssuerRows => x \notin HolderTasks
      /\ r \in HolderRows => x \in HolderTasks
  BY <1>1, TaskOps, CredentialAssumption
<1> HIDE DEF r
<1>6. store'[r] = copy[x] /\ \A s \in Rows : s # r => store'[s] = store[s]
  BY <1>1, <1>2
<1> QED BY <1>1, <1>3, <1>4, <1>5, <1>6 DEF r

\* What is loaded is what storage has.
LEMMA LoadedFacts ==
  ASSUME Typing, InStep, NEW x \in Tasks, Loaded(x), Unraced'
  PROVE  /\ ctx[x].row \in Rows /\ store[ctx[x].row] = cache[ctx[x].row] /\ store[ctx[x].row] # None
         /\ Ready(Op(x), store[ctx[x].row].state)
<1>1. ctx[x].row \in Rows
  BY TaskOps DEF Loaded, Updating
<1> QED BY <1>1 DEF Loaded, InStep, Synced, Works

-----------------------------------------------------------------------------
(* The thread has one record at the issuer.                                *)

\* Only the start of a call that makes a record claims one.
LEMMA ClaimMoves ==
  ASSUME Typing, RowInv, InStep, Moves, NEW r \in IssuerRows, Claimed(r)'
  PROVE  \/ Claimed(r)
         \/ \E x \in Tasks, o \in {"create", "storeProposal"} : \E q : Begins(x, o, r, q)
<1>0. r \in Rows BY DEF Rows
<1>1. ASSUME store'[r] # None PROVE Claimed(r)
  <2>1. CASE store[r] # None BY <2>1 DEF Claimed
  <2>2. CASE store[r] = None
    <3>1. PICK x \in Tasks : Stored(x) BY <1>1, <2>2, StoreMoves
    <3>2. ctx[x].row = r /\ Op(x) \in Creating /\ x \notin HolderTasks
      BY <1>0, <1>1, <2>2, <3>1, StoredFacts
    <3>3. Op(x) \in {"create", "storeProposal"}
      BY <3>2, TaskOps DEF Creating, IssuerOps
    <3> QED BY <3>2, <3>3 DEF Claimed
  <2> QED BY <2>1, <2>2
<1>2. ASSUME NEW y \in Tasks, Op(y)' \in {"create", "storeProposal"}, ctx'[y].row = r
      PROVE  \/ Op(y) = Op(y)' /\ ctx[y].row = r
             \/ \E o \in {"create", "storeProposal"} : \E q : Begins(y, o, r, q)
  <2>1. CASE Rests(y) BY <1>2, <2>1 DEF Rests
  <2>2. CASE Op(y)' = "none" BY <1>2, <2>2
  <2>5. CASE Created(y) \/ Loaded(y) \/ Made(y) \/ Saved(y) \/ Listed(y) \/ Kept(y) \/ Forgot(y) \/ Stored(y)
    BY <1>2, <2>5 DEF Created, Loaded, AtWork, Made, Saved, Listed, Kept, Forgot, Stored, Op
  <2>6. CASE Cached(y) \/ Registers(y) \/ Sent(y)
    <3>1. Advanced(y) /\ Op(y) \notin {"none", "decide"}
      BY <2>6 DEF Cached, Registers, Sent, Sends, Sending, Creating, Updating
    <3> QED BY <1>2, <3>1, AdvancedOps DEF Creating
  <2>7. CASE Ends(y) BY <1>2, <2>7, FinishedOps DEF Ends
  <2>8. CASE Decided(y) BY <1>2, <2>8 DEF Decided, Op
  <2>9. CASE StartsSomething(y)
    <3>1. PICK o \in FirstOps, s \in Own(y), q \in Requests : Begins(y, o, s, q)
      BY <2>9 DEF StartsSomething
    <3>2. o = Op(y)' /\ s = r BY <1>2, <3>1 DEF Begins, Begun, Op
    <3> QED BY <1>2, <3>1, <3>2
  <2>10. CASE TaskMoves(y)
    BY <2>5, <2>6, <2>7, <2>8, <2>9, <2>10 DEF TaskMoves
  <2> QED BY <2>1, <2>2, <2>10, TaskCases
<1> QED BY <1>1, <1>2 DEF Claimed

LEMMA MovesOneIssuer ==
  ASSUME Typing, RowInv, OpenedInv, InStep, OneIssuer, Moves, Unraced'
  PROVE  OneIssuer'
<1>1. ASSUME NEW x \in Tasks, NEW o \in {"create", "storeProposal"}, NEW r \in IssuerRows, NEW q,
             Begins(x, o, r, q), NEW s \in IssuerRows, Claimed(s)
      PROVE  FALSE
  <2>1. s \in Rows BY DEF Rows
  <2>2. CASE o = "create"
    BY <1>1, <2>1, <2>2 DEF Begins, OpenedInv, Claimed
  <2>3. CASE o = "storeProposal"
    <3>1. sent # {} /\ cache[s] = None /\ \A y \in Tasks : Op(y) # "storeProposal"
      BY <1>1, <2>3 DEF Begins
    <3>2. \A y \in Tasks : Op(y) # "create" BY <3>1 DEF OpenedInv
    <3>3. store[s] # None BY <1>1, <3>1, <3>2 DEF Claimed
    <3>4. PICK y \in Tasks : phase[y] = "cache" /\ ctx[y].row = s
      BY <2>1, <3>1, <3>3 DEF InStep, Synced
    <3>5. Op(y) \in Creating BY <3>1, <3>4, TaskOps DEF RowInv, Works
    <3>6. y \notin HolderTasks
      BY <3>4, <3>5, TaskOps, CredentialAssumption DEF Works
    <3>7. Op(y) \in IssuerOps
      BY <3>4, <3>6, TaskOps DEF Works
    <3> QED BY <3>1, <3>2, <3>5, <3>7 DEF Creating, IssuerOps
  <2> QED BY <2>2, <2>3
<1>2. ASSUME NEW r \in IssuerRows, NEW s \in IssuerRows, Claimed(r)', Claimed(s)'
      PROVE  r = s
  <2>1. CASE Claimed(r) /\ Claimed(s) BY <2>1 DEF OneIssuer
  <2>2. ASSUME NEW x \in Tasks, NEW y \in Tasks, NEW o, NEW p, NEW q, NEW u,
               Begins(x, o, r, q), Begins(y, p, s, u)
        PROVE  r = s
    <3>1. x = y
      <4> SUFFICES ASSUME x # y PROVE FALSE OBVIOUS
      <4>1. Op(y)' = Op(y) /\ Op(y) = "none" BY <2>2 DEF Begins, Begun, Alone, Op
      <4> QED BY <2>2, <4>1 DEF Begins, Begun, Op, FirstOps
    <3> QED BY <2>2, <3>1 DEF Begins, Begun
  <2> QED BY <1>1, <1>2, <2>1, <2>2, ClaimMoves
<1> QED BY <1>2 DEF OneIssuer
-----------------------------------------------------------------------------
(* One request is accepted, and answered once.                             *)

\* What was accepted stays accepted.
LEMMA AcceptedStable ==
  ASSUME Typing, RowInv, InStep, Moves, NEW r \in IssuerRows, NEW q, Accepted(r, q)
  PROVE  AcceptedIn(store', r, q)
<1>0. r \in Rows BY DEF Rows
<1>1. CASE store' = store BY <1>1 DEF Accepted, AcceptedIn
<1>2. ASSUME NEW x \in Tasks, Stored(x) PROVE AcceptedIn(store', r, q)
  <2>1. CASE ctx[x].row # r BY <1>0, <1>2, <2>1, StoredFacts DEF Accepted, AcceptedIn
  <2>2. CASE ctx[x].row = r
    <3>1. store[r] # None /\ store[r].state \in PastAccept BY DEF Accepted, AcceptedIn
    <3>2. Op(x) \in Updating /\ Ready(Op(x), store[r].state)
      BY <1>2, <2>2, <3>1, StoredFacts
    <3>3. Op(x) \in {"setAttributes", "ack", "abandon"}
      BY <3>1, <3>2, ReadyFacts DEF PastAccept, Updating
    <3>4. LeftIn(Op(x), store[r].state) \in PastAccept
      BY <3>1, <3>3 DEF LeftIn, PastAccept
    <3>5. /\ store'[r] # None /\ store'[r].state = LeftIn(Op(x), store[r].state)
          /\ store'[r].request = store[r].request
      BY <1>2, <2>2, <3>2, <3>3, StoredFacts
    <3> QED BY <3>4, <3>5 DEF Accepted, AcceptedIn
  <2> QED BY <2>1, <2>2
<1> QED BY <1>1, <1>2, StoreMoves

LEMMA MovesRequest ==
  ASSUME Typing, RowInv, NumberInv, InStep, RequestInv, Moves, Unraced'
  PROVE  RequestInv'
<1>1. ASSUME NEW r \in IssuerRows, store'[r] # None
      PROVE  /\ store'[r].state \in {"ProposalReceived", "OfferSent"} => store'[r].request = None
             /\ store'[r].state \in {"RequestReceived", "CredentialIssued"} => store'[r].request # None
  <2>0. r \in Rows BY DEF Rows
  <2>1. CASE store'[r] = store[r] BY <1>1, <2>1 DEF RequestInv
  <2>2. CASE store'[r] # store[r]
    <3>1. PICK x \in Tasks : Stored(x) BY <2>2, StoreMoves
    <3>2. ctx[x].row = r /\ x \notin HolderTasks /\ Op(x) \in Creating \cup Updating /\ Op(x) # "none"
      BY <2>0, <2>2, <3>1, StoredFacts DEF Creating, Updating
    <3>3. CASE Op(x) \in Creating
      <4>1. store'[r] = Exchange(Creates[Op(x)]) BY <3>1, <3>2, <3>3, StoredFacts
      <4>2. /\ store'[r].request = None
            /\ store'[r].state \in {"OfferSent", "ProposalSent", "ProposalReceived", "OfferReceived"}
        BY <3>3, <4>1, NewRecord
      <4> QED BY <4>2
    <3>4. CASE Op(x) \in Updating
      <4>1. Op(x) \in Updating \ {"acceptOffer", "process"}
        BY <3>2, <3>4, TaskOps DEF IssuerOps
      <4>2. /\ store[r] # None /\ Ready(Op(x), store[r].state)
            /\ store'[r].state = LeftIn(Op(x), store[r].state)
            /\ store'[r].request = IF Op(x) = "storeRequest" THEN ctx[x].request ELSE store[r].request
        BY <3>1, <3>2, <4>1, StoredFacts
      <4>3. Op(x) = "storeRequest" => ctx[x].request # None BY DEF NumberInv
      <4>4. /\ store[r].state \in {"ProposalReceived", "OfferSent"} => store[r].request = None
            /\ store[r].state \in {"RequestReceived", "CredentialIssued"} => store[r].request # None
        BY <4>2 DEF RequestInv
      <4> QED BY <4>1, <4>2, <4>3, <4>4, ReadyFacts DEF LeftIn, Updating
    <3> QED BY <3>2, <3>3, <3>4
  <2> QED BY <2>1, <2>2
<1>2. ASSUME NEW y \in Tasks, Works(y)', Op(y)' = "acceptRequest"
      PROVE  store'[ctx'[y].row].request = ctx'[y].request
  <2>1. CASE Rests(y) /\ ~ \E x \in Tasks : Stored(x)
    <3>1. store' = store BY <2>1, StoreMoves
    <3> QED BY <1>2, <2>1, <3>1 DEF Rests, RequestInv, Works
  <2>2. ASSUME Rests(y), NEW x \in Tasks, Stored(x)
        PROVE  store'[ctx'[y].row].request = ctx'[y].request
    <3>1. Works(y) /\ Op(y) = "acceptRequest" /\ Works(x) /\ x # y
      BY <1>2, <2>2 DEF Rests, Works, Stored
    <3>2. ctx[x].row # ctx[y].row /\ ctx[y].row \in Rows
      BY <3>1, TaskOps DEF InStep, Exclusive
    <3>3. store'[ctx[y].row] = store[ctx[y].row] BY <2>2, <3>2, StoredFacts
    <3> QED BY <2>2, <3>1, <3>3 DEF Rests, RequestInv
  <2>3. CASE Loaded(y)
    <3>1. /\ Op(y) = "acceptRequest" /\ ctx'[y].request = cache[ctx[y].row].request
          /\ ctx'[y].row = ctx[y].row /\ store' = store
      BY <1>2, <2>3 DEF Loaded, Op, SameWorld, storageVars
    <3> QED BY <2>3, <3>1, LoadedFacts
  <2>4. CASE Stored(y)
    <3>1. Op(y) = "acceptRequest" /\ ctx'[y] = ctx[y] /\ Works(y)
      BY <1>2, <2>4 DEF Stored, Op, Works
    <3>2. store'[ctx[y].row].request = store[ctx[y].row].request
      BY <2>4, <3>1, StoredFacts DEF Updating
    <3> QED BY <3>1, <3>2 DEF RequestInv
  <2>5. CASE Created(y) \/ Made(y) \/ Saved(y) \/ Listed(y) \/ Kept(y) \/ Forgot(y)
    BY <1>2, <2>5 DEF Created, AtWork, Made, Saved, Listed, Kept, Forgot, Op, Creating
  <2>6. CASE Ends(y) \/ Cached(y) \/ Registers(y) \/ Sent(y) \/ Decided(y)
    BY <1>2, <2>6 DEF Ends, Finished, Cached, Registers, Sent, Advanced, Decided, Works
  <2>7. CASE StartsSomething(y)
    BY <1>2, <2>7, TaskOps DEF StartsSomething, Begins, Begun, Works
  <2> QED BY <1>2, <2>1, <2>2, <2>3, <2>4, <2>5, <2>6, <2>7, TaskCases DEF TaskMoves
<1> QED BY <1>1, <1>2 DEF RequestInv

\* Only the write of accept_request starts the sending of a credential.
LEMMA IssuingMoves ==
  ASSUME Typing, Moves, NEW y \in Tasks, Issuing(y)'
  PROVE  \/ Issuing(y) /\ ctx'[y] = ctx[y] /\ ~ Sent(y)
         \/ Stored(y) /\ Op(y) = "acceptRequest"
<1>1. CASE Rests(y) /\ ~ Sent(y) BY <1>1 DEF Rests, Issuing
<1>2. CASE Op(y)' = "none" BY <1>2 DEF Issuing
<1>3. CASE Created(y) \/ Loaded(y) \/ Made(y) \/ Saved(y) \/ Listed(y) \/ Kept(y) \/ Forgot(y)
  <2>1. Op(y)' = Op(y) /\ phase'[y] # "cache" /\ phase[y] # "cache"
        /\ Op(y) \in Creating \cup Updating
    BY <1>3 DEF Created, Loaded, AtWork, Made, Saved, Listed, Kept, Forgot, Op, Updating
  <2> QED BY <2>1 DEF Issuing, Creating, Updating
<1>4. CASE Stored(y)
  <2>1. Op(y)' = Op(y) /\ Op(y) \in Creating \cup Updating BY <1>4 DEF Stored, Op
  <2> QED BY <1>4, <2>1 DEF Issuing, Creating, Updating
<1>5. CASE Cached(y) \/ Registers(y)
  <2>1. /\ Advanced(y) /\ Op(y) \in Creating \cup Updating \cup {"register", "unregister"}
        /\ Op(y) \in Creating \cup Updating => phase[y] = "cache"
    BY <1>5 DEF Cached, Registers, Creating, Updating
  <2>2. After(Op(y), Op(y)') /\ phase'[y] = "load" /\ (Op(y)' # "none" => ctx'[y] = ctx[y])
    BY <2>1, AdvancedOps DEF Creating, Updating
  <2>3. Op(y)' \in {"unregister", "sendIssue"} BY <2>2 DEF Issuing
  <2>4. Op(y) \in {"acceptRequest", "unregister"}
    BY <2>1, <2>2, <2>3 DEF After, Creating, Updating
  <2>5. ~ Sent(y) BY <2>4 DEF Sent, Sends, Sending
  <2> QED BY <2>1, <2>2, <2>3, <2>4, <2>5 DEF Issuing, Updating
<1>6. CASE Sent(y)
  <2>1. Op(y)' = "none" BY <1>6 DEF Sent, Advanced, After, Sends, Op
  <2> QED BY <2>1 DEF Issuing
<1>7. CASE Decided(y)
  <2>1. Op(y)' = "acceptRequest" /\ phase'[y] = "load" BY <1>7 DEF Decided, Op
  <2> QED BY <2>1 DEF Issuing
<1>8. CASE Ends(y)
  <2>1. Op(y)' = "none" BY <1>8, FinishedOps DEF Ends
  <2> QED BY <2>1 DEF Issuing
<1>9. CASE StartsSomething(y)
  <2>1. Op(y)' \in FirstOps /\ phase'[y] = "load"
    BY <1>9, TaskOps DEF StartsSomething, Begins, Begun, Op
  <2> QED BY <2>1 DEF Issuing, FirstOps
<1> QED BY <1>1, <1>2, <1>3, <1>4, <1>5, <1>6, <1>7, <1>8, <1>9, TaskCases DEF TaskMoves

LEMMA CountMoves ==
  ASSUME Typing, Moves
  PROVE  \/ issued' = issued /\ ~ \E x \in Tasks : Sent(x) /\ Op(x) = "sendIssue"
         \/ \E x \in Tasks : Sent(x) /\ Op(x) = "sendIssue"
<1>1. ASSUME ~ \E x \in Tasks : Sent(x) /\ Op(x) = "sendIssue" PROVE issued' = issued
  BY <1>1 DEF Moves, TaskMoves, Quiet, Ends, StartsSomething, Begins, Created, Loaded, AtWork, Made, Saved, Listed, Kept, Forgot,
    Stored, Cached, Registers, Decided, Sent, Crashed, SameWorld
<1> QED BY <1>1

LEMMA MovesIssuing ==
  ASSUME Typing, RowInv, InStep, OneIssuer, RequestInv, IssuingInv, Moves, Unraced'
  PROVE  IssuingInv'
<1>0. \A x \in Tasks : Issuing(x) => ctx[x].row \in IssuerRows
  BY TaskOps DEF Issuing, HolderOps
<1>1. CASE \E x \in Tasks : Stored(x) /\ Op(x) = "acceptRequest"
  <2>0. PICK x \in Tasks : Stored(x) /\ Op(x) = "acceptRequest" BY <1>1
  <2> DEFINE r == ctx[x].row
  <2>1. /\ store[r] # None /\ store[r].state = "RequestReceived" /\ Works(x)
        /\ store'[r].state = "CredentialIssued" /\ store'[r].request = store[r].request
        /\ store'[r] # None /\ ctx'[x] = ctx[x] /\ issued' = issued /\ Alone(x)
    <3>1. Op(x) \in Updating BY <2>0 DEF Updating
    <3>2. /\ store[r] # None /\ Ready("acceptRequest", store[r].state) /\ store'[r] # None
          /\ store'[r].state = LeftIn("acceptRequest", store[r].state)
          /\ store'[r].request = store[r].request
      BY <2>0, <3>1, StoredFacts
    <3>3. store[r].state = "RequestReceived" /\ store'[r].state = "CredentialIssued"
      BY <3>2, ReadyFacts DEF LeftIn
    <3>4. Works(x) /\ ctx'[x] = ctx[x] /\ issued' = issued /\ Alone(x)
      BY <2>0 DEF Stored, Works
    <3> QED BY <3>2, <3>3, <3>4
  <2>2. r \in IssuerRows BY <2>0, TaskOps DEF HolderOps
  <2>3. ASSUME NEW s \in IssuerRows, NEW q, Accepted(s, q) PROVE FALSE
    <3>1. s = r BY <2>1, <2>2, <2>3 DEF OneIssuer, Claimed, Accepted, AcceptedIn
    <3> QED BY <2>1, <2>3, <3>1 DEF Accepted, AcceptedIn, PastAccept
  <2>4. issued = 0
    <3>1. issued # 1 BY <2>3 DEF IssuingInv
    <3> QED BY <3>1 DEF IssuingInv, Typing, CountsOK
  <2>5. \A y \in Tasks : ~ Issuing(y) BY <1>0, <2>3 DEF IssuingInv
  <2>6. store[r].request = ctx[x].request /\ store[r].request # None
    BY <2>0, <2>1, <2>2 DEF RequestInv
  <2>7. AcceptedIn(store', ctx'[x].row, ctx'[x].request)
    BY <2>1, <2>6 DEF PastAccept, AcceptedIn
  <2>8. ASSUME NEW y \in Tasks, Issuing(y)', y # x PROVE FALSE
    <3>1. Stored(y) BY <2>5, <2>8, IssuingMoves
    <3>2. phase'[y] = phase[y] BY <2>1, <2>8 DEF Alone
    <3> QED BY <3>1, <3>2 DEF Stored
  <2> QED BY <2>1, <2>4, <2>7, <2>8 DEF IssuingInv, Accepted
<1>2. CASE ~ \E x \in Tasks : Stored(x) /\ Op(x) = "acceptRequest"
  <2>1. ASSUME NEW y \in Tasks, Issuing(y)'
        PROVE  /\ Issuing(y) /\ ctx'[y] = ctx[y] /\ issued = 0 /\ ~ Sent(y)
               /\ AcceptedIn(store', ctx'[y].row, ctx'[y].request)
    <3>1. Issuing(y) /\ ctx'[y] = ctx[y] /\ ~ Sent(y) BY <1>2, <2>1, IssuingMoves
    <3>2. ctx[y].row \in IssuerRows /\ issued = 0 /\ Accepted(ctx[y].row, ctx[y].request)
      BY <1>0, <3>1 DEF IssuingInv
    <3>3. AcceptedIn(store', ctx[y].row, ctx[y].request) BY <3>2, AcceptedStable
    <3> QED BY <3>1, <3>2, <3>3
  <2>2. CASE issued' = issued
    <3>1. issued = 1 => \E r \in IssuerRows : AcceptedIn(store', r, store'[r].request)
      <4> SUFFICES ASSUME issued = 1 PROVE \E r \in IssuerRows : AcceptedIn(store', r, store'[r].request)
        OBVIOUS
      <4>1. PICK r \in IssuerRows : Accepted(r, store[r].request) BY DEF IssuingInv
      <4>2. AcceptedIn(store', r, store[r].request) BY <4>1, AcceptedStable
      <4> QED BY <4>2 DEF AcceptedIn
    <3> QED BY <2>1, <2>2, <3>1 DEF IssuingInv, Accepted
  <2>3. ASSUME NEW x \in Tasks, Sent(x), Op(x) = "sendIssue"
        PROVE  IssuingInv'
    <3>1. Issuing(x) BY <2>3 DEF Issuing
    <3>2. issued = 0 /\ issued' = issued + 1 /\ Accepted(ctx[x].row, ctx[x].request)
          /\ ctx[x].row \in IssuerRows
      BY <1>0, <2>3, <3>1 DEF IssuingInv, Sent
    <3>3. \A y \in Tasks : ~ Issuing(y)' BY <2>1, <2>3, <3>1 DEF IssuingInv
    <3>4. AcceptedIn(store', ctx[x].row, ctx[x].request) BY <3>2, AcceptedStable
    <3>5. AcceptedIn(store', ctx[x].row, store'[ctx[x].row].request) BY <3>4 DEF AcceptedIn
    <3> QED BY <3>2, <3>3, <3>5 DEF IssuingInv, Accepted
  <2> QED BY <2>2, <2>3, CountMoves
<1> QED BY <1>1, <1>2

\* A credential that is processed came in a message.
LEMMA ProcessMoves ==
  ASSUME Typing, Moves, NEW y \in Tasks, Op(y)' = "process"
  PROVE  \/ Op(y) = "process" /\ ctx'[y].request = ctx[y].request
         \/ \E m \in sent : m.type = "issue" /\ m.request = ctx'[y].request
<1>1. CASE Rests(y) BY <1>1 DEF Rests
<1>2. CASE Created(y) \/ Loaded(y) \/ Made(y) \/ Saved(y) \/ Listed(y) \/ Kept(y) \/ Forgot(y) \/ Stored(y)
  BY <1>2 DEF Created, Loaded, AtWork, Made, Saved, Listed, Kept, Forgot, Stored, Op
<1>3. CASE Cached(y) \/ Registers(y) \/ Sent(y)
  <2>1. Advanced(y) /\ Op(y) \in Creating \cup Updating \cup {"register", "unregister"} \cup Sends
    BY <1>3 DEF Cached, Registers, Sent
  <2>2. After(Op(y), Op(y)') BY <2>1 DEF Advanced, Op
  <2> QED BY <2>1, <2>2 DEF After, Creating, Updating, Sends, Sending
<1>4. CASE Decided(y) BY <1>4 DEF Decided, Op
<1>5. CASE Ends(y) BY <1>5, FinishedOps DEF Ends
<1>6. CASE StartsSomething(y)
  <2>1. PICK o \in FirstOps, r \in Own(y), q \in Requests : Begins(y, o, r, q)
    BY <1>6 DEF StartsSomething
  <2>2. o = "process" /\ ctx'[y].request = q BY <2>1 DEF Begins, Begun, Op
  <2> QED BY <2>1, <2>2 DEF Begins
<1> QED BY <1>1, <1>2, <1>3, <1>4, <1>5, <1>6, TaskCases DEF TaskMoves

LEMMA SentMoves ==
  ASSUME Moves
  PROVE  \/ sent' \subseteq sent
         \/ \E x \in Tasks : Sent(x)
BY DEF Moves, TaskMoves, Quiet, Ends, StartsSomething, Begins, Created, Loaded, AtWork, Made, Saved, Listed, Kept, Forgot,
    Stored, Cached, Registers, Decided, Crashed, SameNet, netVars

LEMMA HeldMoves ==
  ASSUME Moves
  PROVE  held' = held \/ \E x \in Tasks : Kept(x)
BY DEF Moves, TaskMoves, Quiet, Ends, StartsSomething, Begins, Created, Loaded, AtWork, Made, Saved, Listed, Forgot,
    Stored, Cached, Registers, Decided, Sent, Crashed, SameWorld, holderVars

LEMMA MovesCarried ==
  ASSUME Typing, RowInv, InStep, IssuingInv, CarriedInv, Moves
  PROVE  CarriedInv'
<1>1. ASSUME NEW q, \E r \in IssuerRows : Accepted(r, q)
      PROVE  \E r \in IssuerRows : AcceptedIn(store', r, q)
  BY <1>1, AcceptedStable
<1>2. ASSUME NEW m \in sent', m.type = "issue"
      PROVE  \E r \in IssuerRows : AcceptedIn(store', r, m.request)
  <2>1. CASE m \in sent BY <1>1, <1>2, <2>1 DEF CarriedInv
  <2>2. ASSUME NEW x \in Tasks, Sent(x), m \notin sent
        PROVE  \E r \in IssuerRows : AcceptedIn(store', r, m.request)
    <3>1. Op(x) = "sendIssue" /\ m.request = ctx[x].request
      BY <1>2, <2>2 DEF Sent, Message, Sends, Sending
    <3>2. Accepted(ctx[x].row, ctx[x].request) BY <3>1 DEF IssuingInv, Issuing
    <3>3. ctx[x].row \in IssuerRows BY <3>1, TaskOps DEF HolderOps
    <3> QED BY <1>1, <3>1, <3>2, <3>3
  <2> QED BY <2>1, <2>2, SentMoves
<1>3. ASSUME NEW y \in Tasks, Op(y)' = "process"
      PROVE  \E r \in IssuerRows : AcceptedIn(store', r, ctx'[y].request)
  BY <1>1, <1>3, ProcessMoves DEF CarriedInv
<1>4. ASSUME NEW q, \E r \in IssuerRows : Accepted(r, q)
      PROVE  \E r \in IssuerRows : AcceptedIn(store', r, store'[r].request)
  BY <1>1, <1>4 DEF AcceptedIn
<1>5. held' > 0 => \E r \in IssuerRows : AcceptedIn(store', r, store'[r].request)
  <2>1. CASE held' = held
    <3> SUFFICES ASSUME held > 0 PROVE \E r \in IssuerRows : AcceptedIn(store', r, store'[r].request)
      BY <2>1
    <3>1. PICK s \in IssuerRows : Accepted(s, store[s].request) BY DEF CarriedInv
    <3> QED BY <1>4, <3>1
  <2>2. ASSUME NEW x \in Tasks, Kept(x)
        PROVE  \E r \in IssuerRows : AcceptedIn(store', r, store'[r].request)
    <3>1. \E r \in IssuerRows : Accepted(r, ctx[x].request) BY <2>2 DEF Kept, AtWork, CarriedInv
    <3> QED BY <1>4, <3>1
  <2> QED BY <2>1, <2>2, HeldMoves
<1> QED BY <1>2, <1>3, <1>5 DEF CarriedInv, Accepted
-----------------------------------------------------------------------------
(* The request metadata of the thread are not replaced.                    *)

LEMMA MetadataMoves ==
  ASSUME Moves
  PROVE  metadata' = metadata \/ (\E x \in Tasks : Saved(x)) \/ (\E x \in Tasks : Forgot(x))
BY DEF Moves, TaskMoves, Quiet, Ends, StartsSomething, Begins, Created, Loaded, Made, Listed, Kept,
    Stored, Cached, Registers, Decided, Sent, Crashed, SameWorld, holderVars

LEMMA CacheMoves ==
  ASSUME Moves
  PROVE  \/ cache' = cache
         \/ \E x \in Tasks : Cached(x)
         \/ Crashed(HolderTasks, HolderRows) \/ Crashed(IssuerTasks, IssuerRows)
BY DEF Moves, TaskMoves, Quiet, Ends, StartsSomething, Begins, Created, Loaded, AtWork, Made, Saved,
    Listed, Kept, Forgot, Stored, Registers, Decided, Sent, SameWorld, storageVars

LEMMA HarmMoves ==
  ASSUME Moves
  PROVE  harm \subseteq harm'
BY DEF Moves, TaskMoves, Quiet, Ends, StartsSomething, Begins, Created, Loaded, AtWork, Made, Saved,
    Listed, Kept, Forgot, Stored, Cached, Registers, Decided, Sent, Crashed, Grows

\* A request is there for others when its metadata are stored.
LEMMA AskedMoves ==
  ASSUME Typing, Moves, NEW q, Asked(q)'
  PROVE  \/ Asked(q)
         \/ \E x \in Tasks : Saved(x) /\ ctx[x].request = q
<1>1. ASSUME NEW m \in sent', m.type = "request", m.request = q PROVE Asked(q)
  <2>1. CASE m \in sent BY <1>1, <2>1 DEF Asked
  <2>2. CASE m \notin sent
    <3>1. PICK x \in Tasks : Sent(x) BY <2>2, SentMoves
    <3>2. Op(x) = "sendRequest" /\ ctx[x].request = q
      BY <1>1, <2>2, <3>1 DEF Sent, Message, Sends, Sending
    <3> QED BY <3>2 DEF Asked, AskedBy, MadeBy
  <2> QED BY <2>1, <2>2
<1>2. ASSUME NEW r \in IssuerRows, NEW x \in Tasks, Works(x), ctx[x].row = r, AskedOf(copy[x], q)
      PROVE  Asked(q)
  <2>1. x \notin HolderTasks BY <1>2, TaskOps, CredentialAssumption
  <2> QED BY <1>2, <2>1 DEF Asked, AskedBy, AskedOf
<1>3. ASSUME NEW r \in IssuerRows, AskedOf(store'[r], q) PROVE Asked(q)
  <2>0. r \in Rows BY DEF Rows
  <2>1. CASE store'[r] = store[r] BY <1>3, <2>1 DEF Asked
  <2>2. CASE store'[r] # store[r]
    <3>1. PICK x \in Tasks : Stored(x) BY <2>2, StoreMoves
    <3>2. ctx[x].row = r /\ store'[r] = copy[x] /\ Works(x)
      BY <2>0, <2>2, <3>1, PhaseFacts DEF Stored, Typing, StorageOK, Works
    <3> QED BY <1>2, <1>3, <3>2
  <2> QED BY <2>1, <2>2
<1>4. ASSUME NEW r \in IssuerRows, AskedOf(cache'[r], q) PROVE Asked(q)
  <2>0. r \in Rows BY DEF Rows
  <2>1. CASE cache'[r] \in {store[r], cache[r]} BY <1>4, <2>1 DEF Asked
  <2>2. ASSUME NEW x \in Tasks, Cached(x) PROVE Asked(q)
    <3>1. /\ cache' = [cache EXCEPT ![ctx[x].row] = copy[x]] /\ DOMAIN cache = Rows
          /\ ctx[x].row \in Rows /\ Works(x)
      BY <2>2, PhaseFacts DEF Cached, Typing, StorageOK, Works
    <3>2. CASE ctx[x].row = r BY <1>2, <1>4, <3>1, <3>2
    <3>3. CASE ctx[x].row # r BY <2>0, <2>1, <3>1, <3>3
    <3> QED BY <3>2, <3>3
  <2>3. ASSUME NEW tasks, NEW rows, Crashed(tasks, rows) PROVE Asked(q)
    BY <2>0, <2>1, <2>3 DEF Crashed
  <2> QED BY <2>1, <2>2, <2>3, CacheMoves
<1>5. ASSUME NEW y \in Tasks, (Op(y) = "storeRequest" \/ MadeBy(y))', ctx'[y].request = q
      PROVE  Asked(q) \/ (Saved(y) /\ ctx[y].request = q)
  <2>0. \/ Op(y)' = "storeRequest" \/ Op(y)' = "sendRequest"
        \/ Op(y)' = "acceptOffer" /\ phase'[y] \in {"store", "cache"}
    BY <1>5 DEF MadeBy
  <2>9. ASSUME Op(y) = "storeRequest" \/ MadeBy(y), ctx[y].request = q PROVE Asked(q)
    BY <2>9 DEF Asked, AskedBy
  <2>1. CASE Rests(y) BY <1>5, <2>0, <2>1, <2>9 DEF Rests, MadeBy
  <2>2. CASE Created(y) \/ Loaded(y) \/ Made(y) \/ Listed(y) \/ Kept(y) \/ Forgot(y)
    <3>1. /\ Op(y)' = Op(y) /\ Op(y) \in Creating \cup Updating
          /\ Op(y) = "acceptOffer" => phase'[y] \notin {"store", "cache"}
          /\ Op(y) = "storeRequest" => ctx'[y].request = ctx[y].request
      BY <2>2 DEF Created, Loaded, AtWork, Made, Listed, Kept, Forgot, Op, Creating, Updating, Working
    <3> QED BY <1>5, <2>0, <2>9, <3>1 DEF Creating, Updating
  <2>3. CASE Stored(y)
    <3>1. Op(y)' = Op(y) /\ ctx'[y] = ctx[y] /\ Op(y) \in Creating \cup Updating /\ phase[y] = "store"
      BY <2>3 DEF Stored, Op
    <3> QED BY <1>5, <2>0, <2>9, <3>1 DEF MadeBy, Creating, Updating
  <2>4. CASE Cached(y) \/ Registers(y) \/ Sent(y)
    <3>1. /\ Advanced(y) /\ Op(y) \in Creating \cup Updating \cup {"register", "unregister"} \cup Sends
          /\ Op(y) \in Updating => phase[y] = "cache"
      BY <2>4 DEF Cached, Registers, Sent, Sends, Sending, Updating
    <3>2. After(Op(y), Op(y)') /\ phase'[y] = "load" /\ (Op(y)' # "none" => ctx'[y] = ctx[y])
      BY <3>1, AdvancedOps DEF Creating, Updating, Sends, Sending
    <3>3. Op(y) = "acceptOffer" /\ Op(y)' = "sendRequest"
      BY <2>0, <3>1, <3>2 DEF After, Creating, Updating, Sends, Sending
    <3> QED BY <1>5, <2>9, <3>1, <3>2, <3>3 DEF MadeBy, Updating
  <2>5. CASE Ends(y) BY <2>0, <2>5, FinishedOps DEF Ends
  <2>6. CASE Decided(y) BY <2>0, <2>6 DEF Decided, Op
  <2>7. CASE StartsSomething(y)
    <3>1. PICK o \in FirstOps, s \in Own(y), p \in Requests : Begins(y, o, s, p)
      BY <2>7 DEF StartsSomething
    <3>2. o = Op(y)' /\ ctx'[y].request = p /\ phase'[y] = "load" BY <3>1, TaskOps DEF Begins, Begun, Op
    <3>3. o = "storeRequest" BY <2>0, <3>2 DEF FirstOps
    <3> QED BY <1>5, <3>1, <3>2, <3>3 DEF Begins, Asked
  <2>8. CASE Saved(y) BY <1>5, <2>8 DEF Saved
  <2> QED BY <2>0, <2>1, <2>2, <2>3, <2>4, <2>5, <2>6, <2>7, <2>8, TaskCases DEF TaskMoves
<1>6. ASSUME NEW y \in Tasks, y \notin HolderTasks, Works(y)', copy'[y].request = q, q # None
      PROVE  Asked(q)
  <2>9. ASSUME Works(y), copy[y].request = q PROVE Asked(q)
    BY <1>6, <2>9 DEF Asked, AskedBy
  <2>1. CASE Rests(y) BY <1>6, <2>1, <2>9 DEF Rests, Works
  <2>2. CASE Created(y)
    <3>1. copy'[y].request = None BY <2>2, NewRecord DEF Created
    <3> QED BY <1>6, <3>1
  <2>3. CASE Loaded(y)
    <3> DEFINE rec == cache[ctx[y].row]
    <3>1. /\ Op(y) \in Updating /\ ctx[y].row \in IssuerRows /\ ctx[y].row \in Rows /\ rec # None
          /\ rec \in ExchangeRecord /\ ctx[y].request \in Requests
      BY <1>6, <2>3, TaskOps DEF Loaded, Updating, Typing, StorageOK, TaskFunctions, Context
    <3>2. copy'[y].request = IF Op(y) = "storeRequest" THEN ctx[y].request ELSE rec.request
      BY <2>3, <3>1, ChangedFacts DEF Loaded
    <3> QED BY <1>6, <3>1, <3>2 DEF Asked, AskedBy, AskedOf
  <2>4. CASE Made(y) \/ Saved(y) \/ Listed(y) \/ Kept(y) \/ Forgot(y)
    BY <1>6, <2>4, TaskOps DEF AtWork, Made, Saved, Listed, Kept, Forgot, IssuerOps
  <2>5. CASE Stored(y) BY <1>6, <2>5, <2>9 DEF Stored, Works
  <2>6. CASE Ends(y) \/ Cached(y) \/ Registers(y) \/ Sent(y) \/ Decided(y)
    BY <1>6, <2>6 DEF Ends, Finished, Cached, Registers, Sent, Advanced, Decided, Works
  <2>7. CASE StartsSomething(y)
    BY <1>6, <2>7, TaskOps DEF StartsSomething, Begins, Begun, Works
  <2> QED BY <1>6, <2>1, <2>2, <2>3, <2>4, <2>5, <2>6, <2>7, TaskCases DEF TaskMoves
<1> QED BY <1>1, <1>3, <1>4, <1>5, <1>6 DEF Asked, AskedBy

LEMMA AskedTyped ==
  ASSUME Typing, NumberInv, NEW q, Asked(q)
  PROVE  q \in Requests /\ q # None
<1>1. ASSUME NEW x \in Tasks, AskedBy(x, q) PROVE q \in Requests /\ q # None
  <2>1. CASE (Op(x) = "storeRequest" \/ MadeBy(x)) /\ ctx[x].request = q
    BY <2>1 DEF NumberInv, MadeBy, Typing, TaskFunctions, Context
  <2>2. CASE Works(x) /\ copy[x].request = q /\ q # None
    BY <2>2, PhaseFacts DEF Works, ExchangeRecord
  <2> QED BY <1>1, <2>1, <2>2 DEF AskedBy
<1>2. ASSUME NEW r \in IssuerRows, AskedOf(store[r], q) \/ AskedOf(cache[r], q)
      PROVE  q \in Requests /\ q # None
  BY <1>2 DEF AskedOf, Typing, StorageOK, ExchangeRecord, Rows
<1>3. ASSUME NEW m \in sent, m.type = "request", m.request = q PROVE q \in Requests /\ q # None
  BY <1>3 DEF NumberInv, Typing, NetOK
<1> QED BY <1>1, <1>2, <1>3 DEF Asked

LEMMA MovesMetadata ==
  ASSUME Typing, Typing', NumberInv, DoneInv, MetadataInv, Moves
  PROVE  MetadataInv'
<1> SUFFICES ASSUME held' = 0, NEW q, Asked(q)' PROVE metadata' = q
  BY DEF MetadataInv
<1>1. held = 0
  BY HeldMoves DEF Kept, Typing, CountsOK
<1>2. ASSUME Asked(q) PROVE metadata = q /\ q # None
  BY <1>1, <1>2, AskedTyped DEF MetadataInv
<1>3. ASSUME NEW x \in Tasks, Saved(x) PROVE metadata' = q
  BY <1>2, <1>3, AskedMoves DEF Saved, Alone, AtWork
<1>4. ASSUME NEW x \in Tasks, Forgot(x) PROVE FALSE
  BY <1>1, <1>4 DEF Forgot, AtWork, DoneInv
<1> QED BY <1>2, <1>3, <1>4, AskedMoves, MetadataMoves

LEMMA MakingMoves ==
  ASSUME Typing, Moves, NEW y \in Tasks, Making(y)'
  PROVE  (Making(y) /\ Rests(y)) \/ Made(y)
<1>1. CASE Rests(y) BY <1>1 DEF Rests, Making
<1>2. CASE Created(y) \/ Loaded(y) \/ Saved(y) \/ Listed(y) \/ Kept(y) \/ Forgot(y) \/ Stored(y)
  BY <1>2 DEF Created, Loaded, AtWork, Saved, Listed, Kept, Forgot, Stored, Op, Making
<1>3. CASE Ends(y) \/ Cached(y) \/ Registers(y) \/ Sent(y) \/ Decided(y)
  BY <1>3 DEF Ends, Finished, Cached, Registers, Sent, Advanced, Decided, Making
<1>4. CASE StartsSomething(y)
  BY <1>4, TaskOps DEF StartsSomething, Begins, Begun, Making
<1>5. Op(y)' # "none" BY DEF Making
<1> QED BY <1>1, <1>2, <1>3, <1>4, <1>5, TaskCases DEF TaskMoves

LEMMA MovesUnasked ==
  ASSUME Typing, NumberInv, UnaskedInv, Moves
  PROVE  UnaskedInv'
<1>0. requests + 1 \notin Requests
  BY CredentialAssumption DEF Requests, Typing, CountsOK
<1>1. \A x \in Tasks : ctx[x].request \in Requests BY DEF Typing, TaskFunctions, Context
<1>2. ASSUME NEW x \in Tasks, NEW q, Making(x)', ctx'[x].request = q, Asked(q)' PROVE FALSE
  <2>1. CASE Made(x)
    <3>1. q = requests + 1 BY <1>2, <2>1 DEF Made
    <3>2. ~ Asked(q) BY <1>0, <3>1, AskedTyped
    <3> QED BY <1>0, <1>1, <1>2, <3>1, <3>2, AskedMoves
  <2>2. CASE Making(x) /\ Rests(x)
    <3>1. q = ctx[x].request /\ ~ Asked(q) BY <1>2, <2>2 DEF Rests, UnaskedInv
    <3>2. PICK y \in Tasks : Saved(y) /\ ctx[y].request = q BY <1>2, <3>1, AskedMoves
    <3>3. Making(y) /\ y # x BY <2>2, <3>2 DEF Saved, AtWork, Making, Rests
    <3> QED BY <2>2, <3>1, <3>2, <3>3 DEF UnaskedInv
  <2> QED BY <1>2, <2>1, <2>2, MakingMoves
<1>3. ASSUME NEW x \in Tasks, NEW y \in Tasks, y # x, Making(x)', Making(y)'
      PROVE  ctx'[y].request # ctx'[x].request
  <2>1. CASE Made(x) /\ Made(y)
    BY <1>3, <2>1 DEF Made, AtWork, Alone
  <2>2. CASE Made(x) /\ Rests(y) BY <1>0, <1>1, <2>2 DEF Made, Rests
  <2>3. CASE Made(y) /\ Rests(x) BY <1>0, <1>1, <2>3 DEF Made, Rests
  <2>4. CASE Making(x) /\ Rests(x) /\ Making(y) /\ Rests(y) BY <1>3, <2>4 DEF Rests, UnaskedInv
  <2> QED BY <1>3, <2>1, <2>2, <2>3, <2>4, MakingMoves
<1> QED BY <1>2, <1>3 DEF UnaskedInv
-----------------------------------------------------------------------------
(* The credential is stored once.                                          *)

LEMMA KeptMoves ==
  ASSUME Moves
  PROVE  kept' \in {kept, None} \/ \E x \in Tasks : Made(x)
BY DEF Moves, TaskMoves, Quiet, Ends, StartsSomething, Begins, Created, Loaded, Saved, Listed, Kept,
    Forgot, Stored, Cached, Registers, Decided, Sent, Crashed, SameWorld, holderVars

\* A task that stored the credential goes on to delete the metadata.
LEMMA ForgetMoves ==
  ASSUME Typing, Moves, "torn" \notin harm', NEW y \in Tasks, phase[y] = "forget"
  PROVE  phase'[y] = "forget" \/ Forgot(y)
<1>0. Op(y) = "process" BY PhaseFacts
<1>1. CASE Quiet BY <1>1 DEF Quiet, taskVars
<1>2. ASSUME NEW x \in Tasks, x # y, TaskMoves(x) PROVE phase'[y] = "forget"
  <2>1. Alone(x)
    BY <1>2 DEF TaskMoves, Ends, Finished, StartsSomething, Begins, Begun, Created, Loaded, AtWork, Made,
      Saved, Listed, Kept, Forgot, Stored, Cached, Registers, Decided, Sent, Advanced
  <2> QED BY <1>2, <2>1 DEF Alone
<1>3. CASE TaskMoves(y)
  BY <1>0, <1>3 DEF TaskMoves, Ends, StartsSomething, Begins, Begun, Created, Loaded, AtWork, Made, Saved,
      Listed, Kept, Stored, Cached, Registers, Decided, Sent
<1>4. ASSUME NEW tasks, NEW rows, <<tasks, rows>> \in Agents, Crashed(tasks, rows)
      PROVE  phase'[y] = "forget"
  BY <1>4 DEF Crashed
<1> QED BY <1>1, <1>2, <1>3, <1>4 DEF Moves, Agents

\* A credential is about to be saved only once it was opened.
LEMMA SavingMoves ==
  ASSUME Typing, Moves, NEW y \in Tasks, Saving(y)'
  PROVE  (Saving(y) /\ Rests(y)) \/ Listed(y)
<1>1. CASE Rests(y) BY <1>1 DEF Rests, Saving
<1>2. CASE Created(y) \/ Loaded(y) \/ Made(y) \/ Saved(y) \/ Kept(y) \/ Forgot(y) \/ Stored(y)
  BY <1>2 DEF Created, Loaded, AtWork, Made, Saved, Kept, Forgot, Stored, Op, Saving
<1>3. CASE Ends(y) \/ Cached(y) \/ Registers(y) \/ Sent(y) \/ Decided(y)
  BY <1>3 DEF Ends, Finished, Cached, Registers, Sent, Advanced, Decided, Saving
<1>4. CASE StartsSomething(y)
  BY <1>4, TaskOps DEF StartsSomething, Begins, Begun, Saving
<1>5. Op(y)' # "none" BY DEF Saving
<1> QED BY <1>1, <1>2, <1>3, <1>4, <1>5, TaskCases DEF TaskMoves

\* One task at a time works on a credential.
LEMMA OneSaving ==
  ASSUME Typing, InStep, NEW x \in Tasks, NEW y \in Tasks, Op(x) = "process", Works(x),
         Op(y) = "process", Works(y)
  PROVE  x = y
BY DEF InStep, Exclusive

\* A request that was accepted is the only one an issuer's record has.
LEMMA OnlyAccepted ==
  ASSUME Typing, RowInv, InStep, OneIssuer', CarriedInv, Moves, NEW q,
         \E s \in IssuerRows : Accepted(s, q),
         NEW r \in IssuerRows, store'[r] # None
  PROVE  store[r] # None /\ store[r].request = q /\ store'[r].request = q /\ q # None
<1>1. PICK s \in IssuerRows : Accepted(s, q) OBVIOUS
<1>2. AcceptedIn(store', s, q) BY <1>1, AcceptedStable
<1>3. store'[s] # None BY <1>2 DEF AcceptedIn
<1>4. r = s BY <1>3 DEF OneIssuer, Claimed
<1> QED BY <1>1, <1>2, <1>4 DEF Accepted, AcceptedIn

LEMMA MovesHeld ==
  ASSUME Typing, RowInv, NumberInv, InStep, OneIssuer', CarriedInv, UnaskedInv, HeldInv, Moves,
         "torn" \notin harm'
  PROVE  HeldInv'
<1>0. held \in Nat BY DEF Typing, CountsOK
<1>1. ASSUME NEW x \in Tasks, Kept(x)
      PROVE  /\ held = 0 /\ held' = 1 /\ phase'[x] = "forget" /\ kept' = None /\ Saving(x) /\ Works(x)
             /\ \A r \in IssuerRows : store'[r] # None => store'[r].request # None
  <2>1. Saving(x) /\ Works(x) /\ Op(x) = "process" BY <1>1 DEF Kept, AtWork, Saving, Works
  <2>2. held = 0 /\ held' = 1 BY <1>1, <2>1 DEF HeldInv, Kept
  <2>3. \E r \in IssuerRows : Accepted(r, ctx[x].request) BY <2>1 DEF CarriedInv
  <2>4. \A r \in IssuerRows : store'[r] # None => store'[r].request # None BY <2>3, OnlyAccepted
  <2> QED BY <1>1, <2>1, <2>2, <2>4 DEF Kept, AtWork
<1>2. held' <= 1
  BY <1>1, HeldMoves DEF HeldInv
<1>3. ASSUME held = 1, NEW r \in IssuerRows, store'[r] # None
      PROVE  /\ store[r] # None /\ store[r].request = store'[r].request /\ store[r].request # None
             /\ store[r].request \in Requests
  <2>1. PICK s \in IssuerRows : Accepted(s, store[s].request) BY <1>3 DEF CarriedInv
  <2>2. store[r] # None /\ store[r].request = store'[r].request /\ store[r].request # None
    BY <1>3, <2>1, OnlyAccepted
  <2> QED BY <2>2 DEF Typing, StorageOK, ExchangeRecord, Rows
<1>4. requests + 1 \notin Requests
  BY CredentialAssumption DEF Requests, Typing, CountsOK
<1>5. ASSUME held' = 1, NEW r \in IssuerRows, store'[r] # None
      PROVE  kept' # store'[r].request
  <2>1. ASSUME NEW x \in Tasks, Kept(x) PROVE kept' # store'[r].request BY <1>1, <1>5, <2>1
  <2>2. CASE held' = held
    <3>1. ASSUME NEW x \in Tasks, Made(x) PROVE kept' # store'[r].request
      BY <1>3, <1>4, <1>5, <2>2, <3>1 DEF Made
    <3> QED BY <1>3, <1>5, <2>2, <3>1, KeptMoves DEF HeldInv
  <2> QED BY <2>1, <2>2, HeldMoves
<1>6. ASSUME held' = 1, \A y \in Tasks : phase'[y] # "forget", NEW r \in IssuerRows, store'[r] # None
      PROVE  metadata' # store'[r].request
  <2>1. held' = held BY <1>1, <1>6, HeldMoves
  <2>2. ASSUME NEW x \in Tasks, Saved(x) PROVE metadata' # store'[r].request
    <3>1. Making(x) /\ metadata' = ctx[x].request BY <2>2 DEF Saved, AtWork, Making
    <3>2. ~ Asked(ctx[x].request) BY <3>1 DEF UnaskedInv
    <3>3. Asked(store[r].request) BY <1>3, <1>6, <2>1 DEF Asked, AskedOf
    <3> QED BY <1>3, <1>6, <2>1, <3>1, <3>2, <3>3
  <2>3. ASSUME NEW x \in Tasks, Forgot(x) PROVE metadata' # store'[r].request
    BY <1>3, <1>6, <2>1, <2>3 DEF Forgot
  <2>4. CASE metadata' = metadata /\ ~ \E x \in Tasks : Forgot(x)
    <3>1. \A y \in Tasks : phase[y] # "forget" BY <1>6, <2>4, ForgetMoves
    <3> QED BY <1>3, <1>6, <2>1, <2>4, <3>1 DEF HeldInv
  <2> QED BY <2>2, <2>3, <2>4, MetadataMoves
<1>7. ASSUME NEW y \in Tasks, Saving(y)' PROVE held' = 0
  <2>1. CASE Listed(y)
    <3>1. Op(y) = "process" /\ Works(y) /\ phase[y] = "work" /\ held' = held /\ Opener = ctx[y].request
      BY <2>1 DEF Listed, AtWork, Works
    <3>2. PICK r \in IssuerRows : Accepted(r, ctx[y].request) BY <3>1 DEF CarriedInv
    <3>3. store[r] # None /\ store[r].request = ctx[y].request BY <3>2 DEF Accepted, AcceptedIn
    <3>4. \A z \in Tasks : phase[z] # "forget"
      BY <3>1, PhaseFacts, OneSaving DEF Works
    <3>5. held # 1 BY <3>1, <3>3, <3>4 DEF HeldInv, Opener
    <3> QED BY <1>0, <3>1, <3>5 DEF HeldInv
  <2>2. CASE Saving(y) /\ Rests(y)
    <3>1. held = 0 /\ Works(y) /\ Op(y) = "process" /\ phase'[y] = "save"
      BY <2>2 DEF HeldInv, Saving, Works, Rests
    <3>2. ASSUME NEW x \in Tasks, Kept(x) PROVE FALSE
      <4>1. x = y BY <1>1, <3>1, <3>2, OneSaving DEF Saving
      <4> QED BY <1>1, <3>1, <3>2, <4>1
    <3> QED BY <3>1, <3>2, HeldMoves
  <2> QED BY <1>7, <2>1, <2>2, SavingMoves
<1> QED BY <1>2, <1>5, <1>6, <1>7 DEF HeldInv

LEMMA MovesListed ==
  ASSUME Typing, InStep, ListedInv, Moves, "ghost" \notin harm'
  PROVE  ListedInv'
<1>0. /\ \A y \in Tasks : Saving(y) => Op(y) = "process" /\ Works(y) /\ y \in HolderTasks
      /\ held \in Nat /\ listed \in Nat
  BY TaskOps DEF Saving, Works, IssuerOps, Typing, CountsOK
<1>1. ASSUME \A y \in Tasks : Saving(y)' <=> Saving(y), listed' = listed, held' = held
      PROVE  ListedInv'
  BY <1>1 DEF ListedInv
<1>2. CASE Quiet
  BY <1>1, <1>2 DEF Quiet, SameWorld, taskVars, Saving, Op
<1>3. ASSUME NEW x \in Tasks, Listed(x) PROVE ListedInv'
  <2>1. Op(x) = "process" /\ Works(x) /\ ~ Saving(x) /\ Saving(x)'
    BY <1>3 DEF Listed, AtWork, Works, Saving, Op
  <2>2. \A y \in Tasks : ~ Saving(y) BY <1>0, <2>1, OneSaving
  <2>3. listed' = held' + 1 BY <1>3, <2>2 DEF Listed, ListedInv
  <2> QED BY <2>1, <2>3 DEF ListedInv
<1>4. ASSUME NEW x \in Tasks, Kept(x) PROVE ListedInv'
  <2>1. Op(x) = "process" /\ Works(x) /\ Saving(x) /\ ~ Saving(x)' /\ Alone(x)
    BY <1>4 DEF Kept, AtWork, Works, Saving
  <2>2. listed' = held' BY <1>4, <2>1 DEF Kept, ListedInv
  <2>3. \A y \in Tasks : ~ Saving(y)'
    BY <1>0, <2>1, OneSaving DEF Alone, Saving, Op
  <2> QED BY <2>2, <2>3 DEF ListedInv
<1>5. ASSUME NEW x \in Tasks, TaskMoves(x), ~ Listed(x), ~ Kept(x) PROVE ListedInv'
  <2>1. Alone(x) /\ listed' = listed /\ held' = held
    BY <1>5 DEF TaskMoves, Ends, Finished, StartsSomething, Begins, Begun, Created, Loaded, AtWork, Made,
      Saved, Forgot, Stored, Cached, Registers, Decided, Sent, Advanced, SameWorld, holderVars
  <2>2. ~ Saving(x)
    BY <1>5, TaskOps DEF TaskMoves, Ends, StartsSomething, Begins, Begun, Created, Loaded, AtWork, Made,
      Saved, Forgot, Stored, Cached, Registers, Decided, Sent, Saving
  <2>3. ~ Saving(x)'
    <3>1. CASE Created(x) \/ Loaded(x) \/ Made(x) \/ Saved(x) \/ Forgot(x) \/ Stored(x)
      BY <3>1 DEF Created, Loaded, AtWork, Made, Saved, Forgot, Stored, Op, Saving
    <3>2. CASE Ends(x) \/ Cached(x) \/ Registers(x) \/ Sent(x) \/ Decided(x)
      BY <3>2 DEF Ends, Finished, Cached, Registers, Sent, Advanced, Decided, Saving
    <3>3. CASE StartsSomething(x)
      BY <3>3, TaskOps DEF StartsSomething, Begins, Begun, Saving
    <3> QED BY <1>5, <3>1, <3>2, <3>3 DEF TaskMoves
  <2>4. \A y \in Tasks : y # x => (Saving(y)' <=> Saving(y)) BY <2>1 DEF Alone, Saving, Op
  <2> QED BY <1>1, <2>1, <2>2, <2>3, <2>4
<1>6. ASSUME NEW tasks, NEW rows, <<tasks, rows>> \in Agents, Crashed(tasks, rows) PROVE ListedInv'
  <2>1. held' = held BY <1>6 DEF Crashed
  <2>2. /\ \A y \in tasks : ~ Saving(y)'
        /\ \A y \in Tasks \ tasks : Saving(y)' <=> Saving(y)
    BY <1>6, CrashedTasks DEF Saving
  <2>3. CASE tasks = HolderTasks /\ listed' = held
    <3>1. \A y \in Tasks : ~ Saving(y)' BY <1>0, <2>2, <2>3
    <3> QED BY <2>1, <2>3, <3>1 DEF ListedInv
  <2>4. CASE tasks = IssuerTasks /\ listed' = listed
    <3>1. \A y \in Tasks : Saving(y)' <=> Saving(y)
      BY <1>0, <2>2, <2>4, CredentialAssumption
    <3> QED BY <1>1, <2>1, <2>4, <3>1
  <2> QED BY <1>6, <2>3, <2>4 DEF Crashed
<1> QED BY <1>2, <1>3, <1>4, <1>5, <1>6 DEF Moves, Agents
-----------------------------------------------------------------------------
(* The theorems.                                                           *)

LEMMA InitInv == Init => CredentialInv
<1> SUFFICES ASSUME Init PROVE CredentialInv
  OBVIOUS
<1>1. /\ \A x \in Tasks : Op(x) = "none" /\ phase[x] = "load" /\ ctx[x] = NoContext /\ todo[x] = <<>>
      /\ \A r \in Rows : store[r] = None /\ cache[r] = None
      /\ sent = {} /\ handled = {} /\ held = 0 /\ issued = 0 /\ opened = FALSE
  BY OpFacts DEF Init, Op
<1>2. Typing
  <2>1. None \in Requests /\ <<>> \in HolderPlans /\ \A x \in Tasks : <<>> \in PlansOf(x)
    BY DEF Requests, HolderPlans, IssuerPlans, PlansOf
  <2>2. StorageOK BY DEF Init, StorageOK
  <2>3. CountsOK /\ NetOK BY <2>1 DEF Init, CountsOK, NetOK
  <2>4. TaskFunctions BY <2>1 DEF Init, TaskFunctions, Phases, Context, NoContext
  <2>5. \A x \in Tasks : TaskOK(x) BY <1>1, <2>1 DEF TaskOK, Works, Creating
  <2> QED BY <2>2, <2>3, <2>4, <2>5 DEF Typing
<1>3. RowInv /\ OpenedInv /\ NumberInv BY <1>1 DEF RowInv, OpenedInv, NumberInv
<1>4. DoneInv BY <1>1 DEF DoneInv, Works
<1>5. InStep BY <1>1 DEF InStep, Exclusive, Synced, Current, Works, Updating
<1>6. \A r \in IssuerRows : ~ Claimed(r) BY <1>1 DEF Claimed, Rows
<1>7. OneIssuer BY <1>6 DEF OneIssuer
<1>8. RequestInv /\ IssuingInv /\ CarriedInv
  BY <1>1 DEF RequestInv, IssuingInv, CarriedInv, Works, Issuing, Rows
<1>9. HeldInv /\ ListedInv BY <1>1 DEF Init, HeldInv, ListedInv, Saving
<1>10. MetadataInv /\ UnaskedInv
  <2>1. \A q \in Requests : ~ Asked(q)
    BY <1>1 DEF Asked, AskedBy, AskedOf, MadeBy, Works, Rows
  <2>2. \A x \in Tasks : ~ Making(x) BY <1>1 DEF Making
  <2> QED BY <2>1, <2>2 DEF MetadataInv, UnaskedInv
<1> QED BY <1>2, <1>3, <1>4, <1>5, <1>7, <1>8, <1>9, <1>10 DEF CredentialInv, LocalInv, IssueInv

LEMMA StepInv == CredentialInv /\ [Next]_vars => CredentialInv'
<1> SUFFICES ASSUME CredentialInv, [Next]_vars PROVE CredentialInv'
  OBVIOUS
<1>1. Typing /\ RowInv /\ OpenedInv /\ NumberInv /\ LocalInv /\ DoneInv /\ MetadataInv /\ UnaskedInv
  BY DEF CredentialInv, LocalInv
<1>2. Moves /\ Typing' BY <1>1, NextMoves
<1>3. LocalInv' BY <1>1, <1>2, MovesRows, MovesOpened, MovesNumbers DEF LocalInv
<1>4. DoneInv' BY <1>1, <1>2, MovesDone
<1>6. MetadataInv' /\ UnaskedInv' BY <1>1, <1>2, MovesMetadata, MovesUnasked
<1>5. ASSUME Unraced'
      PROVE  /\ InStep' /\ OneIssuer' /\ IssueInv'
             /\ "torn" \notin harm' => HeldInv' /\ ("ghost" \notin harm' => ListedInv')
  <2>1. Unraced BY <1>2, <1>5, HarmMoves DEF Unraced
  <2>2. InStep /\ OneIssuer /\ RequestInv /\ IssuingInv /\ CarriedInv
    BY <2>1 DEF CredentialInv, IssueInv
  <2>3. InStep' BY <1>1, <1>2, <1>5, <2>2, MovesInStep
  <2>4. OneIssuer' BY <1>1, <1>2, <1>5, <2>2, MovesOneIssuer
  <2>5. RequestInv' BY <1>1, <1>2, <1>5, <2>2, MovesRequest
  <2>6. IssuingInv' BY <1>1, <1>2, <1>5, <2>2, MovesIssuing
  <2>7. CarriedInv' BY <1>1, <1>2, <2>2, MovesCarried
  <2>8. ASSUME "torn" \notin harm' PROVE HeldInv'
    <3>1. HeldInv BY <1>2, <2>1, <2>8, HarmMoves DEF CredentialInv
    <3> QED BY <1>1, <1>2, <2>2, <2>4, <2>8, <3>1, MovesHeld
  <2>9. ASSUME "torn" \notin harm', "ghost" \notin harm' PROVE ListedInv'
    <3>1. ListedInv BY <1>2, <2>1, <2>9, HarmMoves DEF CredentialInv
    <3> QED BY <1>1, <1>2, <2>2, <2>9, <3>1, MovesListed
  <2> QED BY <2>3, <2>4, <2>5, <2>6, <2>7, <2>8, <2>9 DEF IssueInv
<1> QED BY <1>3, <1>4, <1>5, <1>6 DEF CredentialInv

\* The inductive invariant.
THEOREM CredentialSafety == Spec => []CredentialInv
<1>1. Init => CredentialInv BY InitInv
<1>2. CredentialInv /\ [Next]_vars => CredentialInv' BY StepInv
<1> QED BY <1>1, <1>2, PTL DEF Spec

LEMMA PlansAreOperations == HolderPlans \cup IssuerPlans \subseteq Seq(Operations)
<1>1. HolderOps \cup IssuerOps \subseteq Operations
  BY DEF HolderOps, IssuerOps, Operations, Updates, Creates, Sending
<1>2. ASSUME NEW a \in Operations, NEW b \in Operations, NEW c \in Operations
      PROVE  <<>> \in Seq(Operations) /\ <<a>> \in Seq(Operations) /\ <<a, b>> \in Seq(Operations)
             /\ <<a, b, c>> \in Seq(Operations)
  OBVIOUS
<1>3. HolderPlans \subseteq Seq(Operations)
  BY <1>1, <1>2 DEF HolderPlans, HolderOps
<1>4. IssuerPlans \subseteq Seq(Operations)
  BY <1>1, <1>2 DEF IssuerPlans, IssuerOps
<1> QED BY <1>3, <1>4

\* Records, counters, messages and tasks keep their types in every exchange: a
\* cached record is a stored one, a record has a state of its own side, and a
\* task that writes has a copy.
THEOREM ExchangeTyped == Spec => []TypeOK
<1>1. CredentialInv => TypeOK
  <2> SUFFICES ASSUME CredentialInv PROVE TypeOK
    OBVIOUS
  <2>1. Typing BY DEF CredentialInv, LocalInv
  <2>2. todo \in [Tasks -> Seq(Operations)]
    BY <2>1, PlansAreOperations DEF Typing, TaskFunctions
  <2>3. ASSUME NEW x \in Tasks
        PROVE  /\ phase[x] # "load" => ~ Idle(x) /\ copy[x] # None
               /\ IF Idle(x) THEN ctx[x] = NoContext ELSE ctx[x].row \in Own(x)
    <3>1. TaskOK(x) BY <2>1 DEF Typing
    <3> QED BY <2>1, <3>1, PhaseFacts, TaskOps DEF TaskOK
  <2>4. /\ phase \in [Tasks -> {"load", "work", "save", "forget", "store", "cache"}]
        /\ ctx \in [Tasks -> [row : Rows \cup {None}, request : Requests, auto : BOOLEAN]]
        /\ copy \in [Tasks -> ExchangeRecord \cup {None}]
    BY <2>1 DEF Typing, TaskFunctions, Phases, Context
  <2>5. \A r \in Rows : {store[r], cache[r]} \subseteq
          {None} \cup {rec \in ExchangeRecord : rec.state \in StatesOf(r)}
    BY <2>1 DEF Typing, StorageOK
  <2> QED BY <2>1, <2>2, <2>3, <2>4, <2>5 DEF TypeOK, Typing, StorageOK, CountsOK, NetOK
<1> QED BY <1>1, CredentialSafety, PTL

\* process_credential stores the credential before it writes Done and the
\* acknowledgement is sent after both, so nobody says Done, whatever operations
\* overlap, messages are repeated and agents crash, before the credential is
\* stored.
THEOREM DoneIsHeld == Spec => []DoneMeansHeld
<1>1. CredentialInv => DoneMeansHeld
  BY DEF CredentialInv, LocalInv, Typing, CountsOK, DoneInv, DoneMeansHeld
<1> QED BY <1>1, CredentialSafety, PTL

\* accept_request turns a RequestReceived record into a CredentialIssued one,
\* which no operation turns back, and the thread has one record: a request that
\* is delivered again, also after a restart, is not answered again.
THEOREM CredentialIssuedOnce == Spec => []IssuedOnce
<1>1. CredentialInv => IssuedOnce
  BY DEF CredentialInv, Unraced, IssueInv, IssuingInv, IssuedOnce
<1> QED BY <1>1, CredentialSafety, PTL

\* The request metadata are deleted after the credential is stored, first in
\* memory and then in storage, and the metadata of a later request open no
\* credential the issuer has sent: unless operations overlap, a crash comes
\* between the two or the error of the deletion is ignored, the credential is
\* stored once; and it is listed once, unless saving it failed.
THEOREM CredentialHeldOnce == Spec => []HeldOnce
<1>1. CredentialInv => HeldOnce
  <2> SUFFICES ASSUME CredentialInv, Unraced, "torn" \notin harm
               PROVE  held <= 1 /\ ("ghost" \in harm \/ listed <= 1)
    BY DEF HeldOnce, Unraced
  <2>1. HeldInv /\ ("ghost" \notin harm => ListedInv) /\ held \in Nat
    BY DEF CredentialInv, LocalInv, Typing, CountsOK
  <2>2. ASSUME ListedInv PROVE listed <= 1
    <3>1. CASE \A x \in Tasks : ~ Saving(x) BY <2>1, <2>2, <3>1 DEF ListedInv, HeldInv
    <3>2. ASSUME NEW x \in Tasks, Saving(x) PROVE listed <= 1
      BY <2>1, <2>2, <3>2 DEF ListedInv, HeldInv
    <3> QED BY <3>1, <3>2
  <2> QED BY <2>1, <2>2 DEF HeldInv
<1> QED BY <1>1, CredentialSafety, PTL

\* create_credential_request returns a request only after it inserted the
\* metadata of the thread, and fails if there are some: whatever offers are
\* repeated and operations overlap, the stored metadata are those of the
\* request the issuer has, until the credential is stored.
THEOREM StoredMetadataKept == Spec => []MetadataKept
<1>1. CredentialInv => MetadataKept
  <2> SUFFICES ASSUME CredentialInv, NEW r \in IssuerRows, store[r] # None, store[r].request # None
               PROVE  held > 0 \/ metadata = store[r].request
    BY DEF MetadataKept, Issuers
  <2>1. Typing /\ MetadataInv /\ NumberInv /\ held \in Nat
    BY DEF CredentialInv, LocalInv, Typing, CountsOK
  <2>2. Asked(store[r].request) BY DEF Asked, AskedOf
  <2>3. store[r].request \in Requests BY <2>1, <2>2, AskedTyped
  <2> QED BY <2>1, <2>2, <2>3 DEF MetadataInv
<1> QED BY <1>1, CredentialSafety, PTL
=============================================================================
