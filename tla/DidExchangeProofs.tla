-------------------------- MODULE DidExchangeProofs --------------------------
(***************************************************************************)
(* Proofs about DidExchange, for every set of handshakes, records and      *)
(* tasks and every number of replays, metadata calls and faults.           *)
(***************************************************************************)
EXTENDS DidExchange, FiniteSetTheorems, SequenceTheorems, TLAPS

\* What a task may still have to do.
ResponderPrograms ==
  {<<"create", "respond", "adopt", "send">>, <<"create", "respond", "adopt", "rewrite", "send">>,
   <<"respond", "adopt", "send">>, <<"respond", "adopt", "rewrite", "send">>,
   <<"adopt", "send">>, <<"adopt", "rewrite", "send">>, <<"rewrite", "send">>,
   <<"send">>, <<"finish">>, <<"touch">>}

RequesterPrograms ==
  {<<"create", "send", "touch">>, <<"send", "touch">>, <<"touch">>,
   <<"receive", "complete", "send">>, <<"receive", "rewrite", "complete", "send">>,
   <<"rewrite", "complete", "send">>, <<"complete", "send">>, <<"send">>}

Op(x) == Head(todo[x])
Busy(x) == Len(todo[x]) > 1

\* A task works on one thread and one record of its agent.
PlaceOK(x) ==
  /\ x \in RequesterTasks => todo[x] \in RequesterPrograms \cup {<<>>}
  /\ x \in ResponderTasks => todo[x] \in ResponderPrograms \cup {<<>>}
  /\ Idle(x) <=> ctx[x] = NoContext
  /\ Idle(x) => phase[x] = "load" /\ copy[x] = None /\ base[x] = None
  /\ ~ Idle(x) => ctx[x].thread \in Threads
  /\ ~ Idle(x) /\ x \in RequesterTasks => ctx[x].row = ctx[x].thread
  /\ ~ Idle(x) /\ x \in ResponderTasks => ctx[x].row \in Slots

\* The copy it writes, and what it was made from.
CopyOK(x) ==
  /\ copy[x] # None => copy[x].thread = ctx[x].thread
  /\ phase[x] # "load" => copy[x] # None /\ ~ Idle(x) /\ Op(x) # "send"
  /\ Op(x) \in {"adopt", "rewrite"} => copy[x] # None

MadeOK(x) ==
  phase[x] = "store" =>
    /\ Op(x) = "create" => base[x] = None /\ copy[x].did = None /\ copy[x].state # "Completed"
    /\ Op(x) # "create" => base[x] # None
    /\ Op(x) \notin {"create", "adopt", "receive"} => copy[x].did = base[x].did
    /\ Op(x) \in {"adopt", "rewrite", "touch"} => copy[x].state = base[x].state
    /\ Op(x) = "receive" => base[x].state = "RequestSent"
    /\ Op(x) = "complete" => base[x].state = "ResponseReceived"
    /\ Op(x) = "finish" => base[x].state = "ResponseSent" /\ copy[x].state = "Completed"

\* How far the answer of a responder's task has come, and that of a requester's.
AnswerOK(x) ==
  /\ (Op(x) = "respond" /\ phase[x] # "load") \/ Op(x) \in {"adopt", "rewrite"} =>
       copy[x].state = "ResponseSent" /\ ctx[x].did # None
  /\ Op(x) = "send" => ctx[x].did # None
  /\ (Op(x) = "adopt" /\ phase[x] # "load") \/ Op(x) = "rewrite" => copy[x].did = ctx[x].did

ConcludeOK(x) ==
  /\ Op(x) \in {"receive", "rewrite", "complete"} => ctx[x].did # None
  /\ Op(x) = "create" => ctx[x].did = None
  /\ Op(x) = "send" /\ Busy(x) => ctx[x].did = None
  /\ Op(x) = "send" /\ ~ Busy(x) => ctx[x].did # None
  /\ Op(x) = "touch" => ctx[x].did = None
  /\ Op(x) = "receive" /\ phase[x] # "load" => copy[x].did = ctx[x].did
  /\ Op(x) = "rewrite" => copy[x].did = ctx[x].did
  /\ Op(x) = "complete" /\ phase[x] # "load" => copy[x].state = "Completed"

TaskOK(x) ==
  /\ PlaceOK(x)
  /\ ~ Idle(x) => CopyOK(x) /\ MadeOK(x)
  /\ ~ Idle(x) /\ x \in ResponderTasks => AnswerOK(x)
  /\ ~ Idle(x) /\ x \in RequesterTasks => ConcludeOK(x)

\* A record stays with its thread.
RowsOK ==
  /\ \A r \in Rows : cache[r] # None => store[r] # None /\ cache[r].thread = store[r].thread
  /\ \A t \in Threads : store[t] # None => store[t].thread = t
  /\ \A x \in ResponderTasks : ~ Idle(x) =>
       /\ store[ctx[x].row] # None => store[ctx[x].row].thread = ctx[x].thread
       /\ Op(x) # "create" => cache[ctx[x].row] # None
       /\ \A y \in ResponderTasks : ~ Idle(y) /\ ctx[x].row = ctx[y].row => ctx[x].thread = ctx[y].thread
  /\ \A x \in Tasks : phase[x] = "cache" => store[ctx[x].row] # None

\* The responder has one record of a thread, which its cache has or is about to.
ClaimOK(t) ==
  /\ \A x, y \in ResponderTasks :
       ctx[x].thread = t /\ ctx[y].thread = t /\ Busy(x) /\ Busy(y) => x = y
  /\ \A r, q \in Answered(t) : r = q
  /\ \A x \in ResponderTasks, r \in Answered(t) :
       ctx[x].thread = t /\ ~ Idle(x) /\ Op(x) = "create" => r = ctx[x].row
  /\ \A r \in Answered(t) : cache[r] # None \/
       \E x \in ResponderTasks :
         ctx[x].thread = t /\ ctx[x].row = r /\ ~ Idle(x) /\ Op(x) = "create" /\ phase[x] = "cache"

\* The responder's record of t has DID d for good.
Bears(rec, t, d) ==
  rec # None /\ rec.thread = t /\ rec.did = d /\ rec.state \in {"ResponseSent", "Completed"}

Settled(t, d) ==
  /\ \A y \in ResponderTasks : ctx[y].thread = t => ~ Busy(y)
  /\ \E r \in Slots : Bears(store[r], t, d) /\ Bears(cache[r], t, d)

\* The requester's record of t is Completed for good.
Concluded(t) == store[t] # None /\ store[t].state = "Completed"

\* Whoever has a DID of t has the one that is settled.
DidOK(t) ==
  /\ \A m \in sent : m.type = "response" /\ m.thread = t => Settled(t, m.did)
  /\ \A x \in ResponderTasks : ctx[x].thread = t /\ ~ Idle(x) /\ Op(x) = "send" => Settled(t, ctx[x].did)
  /\ \A x \in RequesterTasks : ctx[x].thread = t /\ ctx[x].did # None => Settled(t, ctx[x].did)
  /\ \A x \in RequesterTasks : ctx[x].thread = t /\ copy[x] # None /\ copy[x].did # None =>
       Settled(t, copy[x].did)
  /\ store[t] # None /\ store[t].did # None => Settled(t, store[t].did)
  /\ cache[t] # None /\ cache[t].did # None => Settled(t, cache[t].did)

\* Whoever takes t for complete is right.
DoneOK(t) ==
  /\ \A m \in sent : m.type = "complete" /\ m.thread = t => Concluded(t)
  /\ \A x \in RequesterTasks :
       ctx[x].thread = t /\ ~ Idle(x) /\ Op(x) = "send" /\ ctx[x].did # None => Concluded(t)
  /\ \A x \in ResponderTasks : ctx[x].thread = t /\ ~ Idle(x) /\ Op(x) = "finish" => Concluded(t)
  /\ \A x \in ResponderTasks :
       ctx[x].thread = t /\ copy[x] # None /\ copy[x].state = "Completed" => Concluded(t)
  /\ \A r \in Slots : store[r] # None /\ store[r].thread = t /\ store[r].state = "Completed" => Concluded(t)
  /\ \A r \in Slots : cache[r] # None /\ cache[r].thread = t /\ cache[r].state = "Completed" => Concluded(t)

Types ==
  /\ store \in [Rows -> ConnectionRecord \cup {None}]
  /\ cache \in [Rows -> ConnectionRecord \cup {None}]
  /\ todo \in [Tasks -> RequesterPrograms \cup ResponderPrograms \cup {<<>>}]
  /\ phase \in [Tasks -> {"load", "store", "cache"}]
  /\ ctx \in [Tasks -> Context]
  /\ copy \in [Tasks -> ConnectionRecord \cup {None}]
  /\ base \in [Tasks -> ConnectionRecord \cup {None}]
  /\ sent \subseteq Message
  /\ \A m \in sent : m.type = "response" => m.did # None
  /\ stale \subseteq Rows /\ overlapped \subseteq Threads
  /\ minted \in Nat

\* The types of what no other part of the invariant speaks of.
Rest ==
  /\ handled \subseteq Message
  /\ waiter \in [Threads -> {"idle", "armed", "waiting"}]
  /\ woken \in [Threads -> BOOLEAN] /\ broken \in BOOLEAN
  /\ replays \in Nat /\ touches \in Nat /\ faults \in Nat

ExchangeInv ==
  /\ Types
  /\ \A x \in Tasks : TaskOK(x)
  /\ RowsOK
  /\ \A t \in Threads : t \notin overlapped => ClaimOK(t)
  /\ \A t \in Threads : Orderly(t) => DidOK(t) /\ DoneOK(t)
-----------------------------------------------------------------------------
(* The programs.                                                           *)

\* Lists of a few elements.
LEMMA List1 ==
  ASSUME NEW a
  PROVE  Len(<<a>>) = 1 /\ Head(<<a>>) = a
OBVIOUS

LEMMA List2 ==
  ASSUME NEW a, NEW b
  PROVE  Len(<<a, b>>) = 2 /\ Head(<<a, b>>) = a /\ Tail(<<a, b>>) = <<b>>
OBVIOUS

LEMMA List3 ==
  ASSUME NEW a, NEW b, NEW c
  PROVE  Len(<<a, b, c>>) = 3 /\ Head(<<a, b, c>>) = a /\ Tail(<<a, b, c>>) = <<b, c>>
OBVIOUS

LEMMA List4 ==
  ASSUME NEW a, NEW b, NEW c, NEW d
  PROVE  Len(<<a, b, c, d>>) = 4 /\ Head(<<a, b, c, d>>) = a /\ Tail(<<a, b, c, d>>) = <<b, c, d>>
OBVIOUS

LEMMA List5 ==
  ASSUME NEW a, NEW b, NEW c, NEW d, NEW e
  PROVE  Len(<<a, b, c, d, e>>) = 5 /\ Head(<<a, b, c, d, e>>) = a /\ Tail(<<a, b, c, d, e>>) = <<b, c, d, e>>
OBVIOUS

\* The operations of a responder's program, and which follows which.
LEMMA ResponderFacts ==
  ASSUME NEW p \in ResponderPrograms
  PROVE  /\ p # <<>> /\ p \in Seq(Operations) /\ Len(p) \in Nat
         /\ Head(p) \in {"create", "respond", "adopt", "rewrite", "send", "finish", "touch"}
         /\ Len(p) = 1 <=> Head(p) \in {"send", "finish", "touch"}
         /\ Len(p) # 1 => Len(p) > 1 /\ Tail(p) \in ResponderPrograms
         /\ Head(p) = "create" => Head(Tail(p)) = "respond"
         /\ Head(p) = "respond" => Head(Tail(p)) = "adopt"
         /\ Head(p) = "adopt" => Head(Tail(p)) \in {"rewrite", "send"}
         /\ Head(p) = "rewrite" => Head(Tail(p)) = "send"
<1>1. CASE p = <<"create", "respond", "adopt", "send">>
  <2>1. p # <<>> /\ p \in Seq(Operations) /\ Len(p) = 4 /\ Head(p) = "create" BY <1>1 DEF Operations
  <2>0. Tail(<<"create", "respond", "adopt", "send">>) = <<"respond", "adopt", "send">> OBVIOUS
  <2>2. Tail(p) = <<"respond", "adopt", "send">> BY <2>0, <1>1, Zenon
  <2>3. PICK q : q = <<"respond", "adopt", "send">> OBVIOUS
  <2>4. q = Tail(p) BY <2>2, <2>3
  <2>5. q \in ResponderPrograms BY <2>3, Zenon DEF ResponderPrograms
  <2>7. Head(<<"respond", "adopt", "send">>) = "respond" /\ Len(<<"respond", "adopt", "send">>) = 3 OBVIOUS
  <2>6. Head(q) = "respond" /\ Len(q) = 3 BY <2>3, <2>7, Zenon
  <2>8. Len(p) \in Nat /\ Len(p) # 1 /\ Len(p) > 1 BY <2>1
  <2>9. Tail(p) \in ResponderPrograms BY <2>4, <2>5, Zenon
  <2>10. Head(Tail(p)) = Head(q) /\ Len(Tail(p)) = Len(q) BY <2>4, Zenon
  <2> QED BY <2>1, <2>6, <2>8, <2>9, <2>10, Zenon
<1>2. CASE p = <<"create", "respond", "adopt", "rewrite", "send">>
  <2>1. p # <<>> /\ p \in Seq(Operations) /\ Len(p) = 5 /\ Head(p) = "create" BY <1>2 DEF Operations
  <2>0. Tail(<<"create", "respond", "adopt", "rewrite", "send">>) = <<"respond", "adopt", "rewrite", "send">> OBVIOUS
  <2>2. Tail(p) = <<"respond", "adopt", "rewrite", "send">> BY <2>0, <1>2, Zenon
  <2>3. PICK q : q = <<"respond", "adopt", "rewrite", "send">> OBVIOUS
  <2>4. q = Tail(p) BY <2>2, <2>3
  <2>5. q \in ResponderPrograms BY <2>3, Zenon DEF ResponderPrograms
  <2>7. Head(<<"respond", "adopt", "rewrite", "send">>) = "respond" /\ Len(<<"respond", "adopt", "rewrite", "send">>) = 4 OBVIOUS
  <2>6. Head(q) = "respond" /\ Len(q) = 4 BY <2>3, <2>7, Zenon
  <2>8. Len(p) \in Nat /\ Len(p) # 1 /\ Len(p) > 1 BY <2>1
  <2>9. Tail(p) \in ResponderPrograms BY <2>4, <2>5, Zenon
  <2>10. Head(Tail(p)) = Head(q) /\ Len(Tail(p)) = Len(q) BY <2>4, Zenon
  <2> QED BY <2>1, <2>6, <2>8, <2>9, <2>10, Zenon
<1>3. CASE p = <<"respond", "adopt", "send">>
  <2>1. p # <<>> /\ p \in Seq(Operations) /\ Len(p) = 3 /\ Head(p) = "respond" BY <1>3 DEF Operations
  <2>2. PICK q : q = Tail(p) /\ q = <<"adopt", "send">> BY <1>3, List3
  <2>3. q \in ResponderPrograms BY <2>2, Zenon DEF ResponderPrograms
  <2>4. Head(q) = "adopt" /\ Len(q) = 2 BY <2>2, List2, Zenon
  <2> QED BY <2>1, <2>2, <2>3, <2>4
<1>4. CASE p = <<"respond", "adopt", "rewrite", "send">>
  <2>1. p # <<>> /\ p \in Seq(Operations) /\ Len(p) = 4 /\ Head(p) = "respond" BY <1>4 DEF Operations
  <2>0. Tail(<<"respond", "adopt", "rewrite", "send">>) = <<"adopt", "rewrite", "send">> OBVIOUS
  <2>2. Tail(p) = <<"adopt", "rewrite", "send">> BY <2>0, <1>4, Zenon
  <2>3. PICK q : q = <<"adopt", "rewrite", "send">> OBVIOUS
  <2>4. q = Tail(p) BY <2>2, <2>3
  <2>5. q \in ResponderPrograms BY <2>3, Zenon DEF ResponderPrograms
  <2>7. Head(<<"adopt", "rewrite", "send">>) = "adopt" /\ Len(<<"adopt", "rewrite", "send">>) = 3 OBVIOUS
  <2>6. Head(q) = "adopt" /\ Len(q) = 3 BY <2>3, <2>7, Zenon
  <2>8. Len(p) \in Nat /\ Len(p) # 1 /\ Len(p) > 1 BY <2>1
  <2>9. Tail(p) \in ResponderPrograms BY <2>4, <2>5, Zenon
  <2>10. Head(Tail(p)) = Head(q) /\ Len(Tail(p)) = Len(q) BY <2>4, Zenon
  <2> QED BY <2>1, <2>6, <2>8, <2>9, <2>10, Zenon
<1>5. CASE p = <<"adopt", "send">>
  <2>1. p # <<>> /\ p \in Seq(Operations) /\ Len(p) = 2 /\ Head(p) = "adopt" BY <1>5 DEF Operations
  <2>2. PICK q : q = Tail(p) /\ q = <<"send">> BY <1>5, List2
  <2>3. q \in ResponderPrograms BY <2>2, Zenon DEF ResponderPrograms
  <2>4. Head(q) = "send" /\ Len(q) = 1 BY <2>2, List1, Zenon
  <2> QED BY <2>1, <2>2, <2>3, <2>4
<1>6. CASE p = <<"adopt", "rewrite", "send">>
  <2>1. p # <<>> /\ p \in Seq(Operations) /\ Len(p) = 3 /\ Head(p) = "adopt" BY <1>6 DEF Operations
  <2>2. PICK q : q = Tail(p) /\ q = <<"rewrite", "send">> BY <1>6, List3
  <2>3. q \in ResponderPrograms BY <2>2, Zenon DEF ResponderPrograms
  <2>4. Head(q) = "rewrite" /\ Len(q) = 2 BY <2>2, List2, Zenon
  <2> QED BY <2>1, <2>2, <2>3, <2>4
<1>7. CASE p = <<"rewrite", "send">>
  <2>1. p # <<>> /\ p \in Seq(Operations) /\ Len(p) = 2 /\ Head(p) = "rewrite" BY <1>7 DEF Operations
  <2>2. PICK q : q = Tail(p) /\ q = <<"send">> BY <1>7, List2
  <2>3. q \in ResponderPrograms BY <2>2, Zenon DEF ResponderPrograms
  <2>4. Head(q) = "send" /\ Len(q) = 1 BY <2>2, List1, Zenon
  <2> QED BY <2>1, <2>2, <2>3, <2>4
<1>8. CASE p = <<"send">>
  <2>1. p # <<>> /\ p \in Seq(Operations) /\ Len(p) = 1 /\ Head(p) = "send" BY <1>8 DEF Operations
  <2> QED BY <2>1
<1>9. CASE p = <<"finish">>
  <2>1. p # <<>> /\ p \in Seq(Operations) /\ Len(p) = 1 /\ Head(p) = "finish" BY <1>9 DEF Operations
  <2> QED BY <2>1
<1>10. CASE p = <<"touch">>
  <2>1. p # <<>> /\ p \in Seq(Operations) /\ Len(p) = 1 /\ Head(p) = "touch" BY <1>10 DEF Operations
  <2> QED BY <2>1
<1> QED BY <1>1, <1>2, <1>3, <1>4, <1>5, <1>6, <1>7, <1>8, <1>9, <1>10 DEF ResponderPrograms

\* The same for a requester's.
LEMMA RequesterFacts ==
  ASSUME NEW p \in RequesterPrograms
  PROVE  /\ p # <<>> /\ p \in Seq(Operations) /\ Len(p) \in Nat
         /\ Head(p) \in {"create", "send", "touch", "receive", "rewrite", "complete"}
         /\ Head(p) = "touch" => Len(p) = 1
         /\ Len(p) = 1 => Head(p) \in {"send", "touch"}
         /\ Len(p) # 1 => Len(p) > 1 /\ Tail(p) \in RequesterPrograms
         /\ Head(p) = "create" => Head(Tail(p)) = "send" /\ Len(Tail(p)) > 1
         /\ Head(p) = "send" /\ Len(p) > 1 => Head(Tail(p)) = "touch"
         /\ Head(p) = "receive" => Head(Tail(p)) \in {"rewrite", "complete"}
         /\ Head(p) = "rewrite" => Head(Tail(p)) = "complete"
         /\ Head(p) = "complete" => Head(Tail(p)) = "send" /\ Len(Tail(p)) = 1
<1>1. CASE p = <<"create", "send", "touch">>
  <2>1. p # <<>> /\ p \in Seq(Operations) /\ Len(p) = 3 /\ Head(p) = "create" BY <1>1 DEF Operations
  <2>2. PICK q : q = Tail(p) /\ q = <<"send", "touch">> BY <1>1, List3
  <2>3. q \in RequesterPrograms BY <2>2, Zenon DEF RequesterPrograms
  <2>4. Head(q) = "send" /\ Len(q) = 2 BY <2>2, List2, Zenon
  <2> QED BY <2>1, <2>2, <2>3, <2>4
<1>2. CASE p = <<"send", "touch">>
  <2>1. p # <<>> /\ p \in Seq(Operations) /\ Len(p) = 2 /\ Head(p) = "send" BY <1>2 DEF Operations
  <2>2. PICK q : q = Tail(p) /\ q = <<"touch">> BY <1>2, List2
  <2>3. q \in RequesterPrograms BY <2>2, Zenon DEF RequesterPrograms
  <2>4. Head(q) = "touch" /\ Len(q) = 1 BY <2>2, List1, Zenon
  <2> QED BY <2>1, <2>2, <2>3, <2>4
<1>3. CASE p = <<"touch">>
  <2>1. p # <<>> /\ p \in Seq(Operations) /\ Len(p) = 1 /\ Head(p) = "touch" BY <1>3 DEF Operations
  <2> QED BY <2>1
<1>4. CASE p = <<"receive", "complete", "send">>
  <2>1. p # <<>> /\ p \in Seq(Operations) /\ Len(p) = 3 /\ Head(p) = "receive" BY <1>4 DEF Operations
  <2>2. PICK q : q = Tail(p) /\ q = <<"complete", "send">> BY <1>4, List3
  <2>3. q \in RequesterPrograms BY <2>2, Zenon DEF RequesterPrograms
  <2>4. Head(q) = "complete" /\ Len(q) = 2 BY <2>2, List2, Zenon
  <2> QED BY <2>1, <2>2, <2>3, <2>4
<1>5. CASE p = <<"receive", "rewrite", "complete", "send">>
  <2>1. p # <<>> /\ p \in Seq(Operations) /\ Len(p) = 4 /\ Head(p) = "receive" BY <1>5 DEF Operations
  <2>0. Tail(<<"receive", "rewrite", "complete", "send">>) = <<"rewrite", "complete", "send">> OBVIOUS
  <2>2. Tail(p) = <<"rewrite", "complete", "send">> BY <2>0, <1>5, Zenon
  <2>3. PICK q : q = <<"rewrite", "complete", "send">> OBVIOUS
  <2>4. q = Tail(p) BY <2>2, <2>3
  <2>5. q \in RequesterPrograms BY <2>3, Zenon DEF RequesterPrograms
  <2>7. Head(<<"rewrite", "complete", "send">>) = "rewrite" /\ Len(<<"rewrite", "complete", "send">>) = 3 OBVIOUS
  <2>6. Head(q) = "rewrite" /\ Len(q) = 3 BY <2>3, <2>7, Zenon
  <2>8. Len(p) \in Nat /\ Len(p) # 1 /\ Len(p) > 1 BY <2>1
  <2>9. Tail(p) \in RequesterPrograms BY <2>4, <2>5, Zenon
  <2>10. Head(Tail(p)) = Head(q) /\ Len(Tail(p)) = Len(q) BY <2>4, Zenon
  <2> QED BY <2>1, <2>6, <2>8, <2>9, <2>10, Zenon
<1>6. CASE p = <<"rewrite", "complete", "send">>
  <2>1. p # <<>> /\ p \in Seq(Operations) /\ Len(p) = 3 /\ Head(p) = "rewrite" BY <1>6 DEF Operations
  <2>2. PICK q : q = Tail(p) /\ q = <<"complete", "send">> BY <1>6, List3
  <2>3. q \in RequesterPrograms BY <2>2, Zenon DEF RequesterPrograms
  <2>4. Head(q) = "complete" /\ Len(q) = 2 BY <2>2, List2, Zenon
  <2> QED BY <2>1, <2>2, <2>3, <2>4
<1>7. CASE p = <<"complete", "send">>
  <2>1. p # <<>> /\ p \in Seq(Operations) /\ Len(p) = 2 /\ Head(p) = "complete" BY <1>7 DEF Operations
  <2>2. PICK q : q = Tail(p) /\ q = <<"send">> BY <1>7, List2
  <2>3. q \in RequesterPrograms BY <2>2, Zenon DEF RequesterPrograms
  <2>4. Head(q) = "send" /\ Len(q) = 1 BY <2>2, List1, Zenon
  <2> QED BY <2>1, <2>2, <2>3, <2>4
<1>8. CASE p = <<"send">>
  <2>1. p # <<>> /\ p \in Seq(Operations) /\ Len(p) = 1 /\ Head(p) = "send" BY <1>8 DEF Operations
  <2> QED BY <2>1
<1> QED BY <1>1, <1>2, <1>3, <1>4, <1>5, <1>6, <1>7, <1>8 DEF RequesterPrograms
-----------------------------------------------------------------------------
(* What a step does to one task.                                           *)

Same(y) ==
  /\ todo'[y] = todo[y] /\ phase'[y] = phase[y] /\ ctx'[y] = ctx[y]
  /\ copy'[y] = copy[y] /\ base'[y] = base[y]

Frame(x) == \A y \in Tasks : y # x => Same(y)

\* Nothing changes but the tasks.
Still == UNCHANGED <<store, cache, sent, stale>>

Returned(x) ==
  /\ Frame(x)
  /\ todo'[x] = <<>> /\ phase'[x] = "load" /\ ctx'[x] = NoContext
  /\ copy'[x] = None /\ base'[x] = None

Begun(x, p, t, r, d) ==
  /\ Idle(x) /\ Frame(x) /\ Still
  /\ todo'[x] = p /\ phase'[x] = "load" /\ ctx'[x] = [thread |-> t, row |-> r, did |-> d]
  /\ copy'[x] = None /\ base'[x] = None

\* Task x goes on with copy c of its record, made from b.
Written(x, c, b) ==
  /\ Frame(x) /\ Still
  /\ todo'[x] = todo[x] /\ phase'[x] = "store"
  /\ ctx'[x].thread = ctx[x].thread /\ ctx'[x].row = ctx[x].row
  /\ copy'[x] = c /\ base'[x] = b

\* It goes on with its next operation, or ends.
Advanced(x) ==
  /\ Frame(x)
  /\ \/ ~ Busy(x) /\ Returned(x)
     \/ /\ Busy(x)
        /\ todo'[x] = Tail(todo[x]) /\ phase'[x] = "load" /\ ctx'[x] = ctx[x]
        /\ copy'[x] = copy[x] /\ base'[x] = base[x]

\* What a task is started for.
Accepted(x) ==
  /\ x \in RequesterTasks /\ UNCHANGED overlapped
  /\ \E t \in Threads : Begun(x, <<"create", "send", "touch">>, t, t, None)

Touched(x) ==
  /\ UNCHANGED overlapped
  /\ \E r \in Rows : /\ cache[r] # None
                     /\ x \in RequesterTasks => r \in Threads
                     /\ x \in ResponderTasks => r \in Slots
                     /\ Begun(x, <<"touch">>, cache[r].thread, r, None)

\* The threads of overlapping requests are marked.
Marked(x, t) ==
  /\ overlapped \subseteq overlapped' /\ overlapped' \subseteq overlapped \cup {t}
  /\ t \notin overlapped' => \A y \in ResponderTasks : ctx[y].thread = t => ~ Busy(y)

Answering(x) ==
  /\ x \in ResponderTasks
  /\ \E t \in Threads, r \in Slots, p \in ResponderPrograms :
       /\ Marked(x, t) /\ Begun(x, p, t, r, None)
       /\ \/ /\ Found(t) = {} /\ Head(p) = "create"
             /\ store[r] = None /\ \A y \in Tasks : ctx[y].row # r
          \/ r \in Found(t) /\ Head(p) = "respond" /\ cache[r].state = "RequestReceived"

Concluding(x) ==
  /\ x \in RequesterTasks /\ UNCHANGED overlapped
  /\ \E m \in sent, p \in RequesterPrograms :
       /\ m.type = "response" /\ Head(p) = "receive" /\ Begun(x, p, m.thread, m.thread, m.did)

Finishing(x) ==
  /\ x \in ResponderTasks /\ UNCHANGED overlapped
  /\ \E m \in sent : /\ m.type = "complete"
                     /\ \E r \in Found(m.thread) : Begun(x, <<"finish">>, m.thread, r, None)

\* The task a call becomes is idle.
LEMMA SpareFacts ==
  ASSUME NEW own \in SUBSET Tasks, Spare(own) # None
  PROVE  Spare(own) \in own /\ Idle(Spare(own))
<1> DEFINE P(x) == IF x = None THEN \A y \in own : ~ Idle(y) ELSE Idle(x)
<1>1. None \notin own BY ExchangeAssumption
<1>2. \E x \in own \cup {None} : P(x) BY <1>1, Zenon
<1>3. Spare(own) \in own \cup {None} /\ P(Spare(own)) BY <1>2, Zenon DEF Spare
<1> QED BY <1>3

\* The row of a new record is free.
LEMMA NewRowFacts ==
  ASSUME NewRow # None
  PROVE  NewRow \in Slots /\ store[NewRow] = None /\ \A y \in Tasks : ctx[y].row # NewRow
<1> DEFINE free(q) == store[q] = None /\ \A y \in Tasks : ctx[y].row # q
           P(r) == IF r = None THEN \A q \in Slots : ~ free(q) ELSE free(r)
<1>1. None \notin Slots BY ExchangeAssumption DEF Rows
<1>2. \E r \in Slots \cup {None} : P(r) BY <1>1, Zenon
<1>3. NewRow = CHOOSE r \in Slots \cup {None} : P(r) BY Zenon DEF NewRow
<1>4. NewRow \in Slots \cup {None} /\ P(NewRow) BY <1>2, <1>3, Zenon
<1> QED BY <1>4

\* Start, on one task.
LEMMA StartDoes ==
  ASSUME Types, NEW x \in Tasks, NEW p, NEW t, NEW r, NEW d, Start(x, p, t, r, d)
  PROVE  /\ Frame(x)
         /\ todo'[x] = p /\ ctx'[x] = [thread |-> t, row |-> r, did |-> d]
         /\ phase'[x] = phase[x] /\ copy'[x] = copy[x] /\ base'[x] = base[x]
BY DEF Types, Start, Frame, Same

\* Return, on one task.
LEMMA ReturnDoes ==
  ASSUME Types, NEW x \in Tasks, Return(x)
  PROVE  Returned(x)
BY DEF Types, Return, Returned, Frame, Same

\* AcceptInvitation starts a requester's task.
LEMMA AcceptDoes ==
  ASSUME Types, \A y \in Tasks : TaskOK(y), NEW x \in Tasks, AcceptInvitation(x)
  PROVE  Accepted(x)
<1>1. x # None /\ RequesterTasks \in SUBSET Tasks BY ExchangeAssumption DEF Tasks
<1>2. x \in RequesterTasks /\ Idle(x) BY <1>1, SpareFacts DEF AcceptInvitation
<1>3. phase[x] = "load" /\ copy[x] = None /\ base[x] = None BY <1>2 DEF TaskOK, PlaceOK
<1>4. PICK t \in Threads : Start(x, <<"create", "send", "touch">>, t, t, None) BY DEF AcceptInvitation
<1>5. Still /\ UNCHANGED overlapped BY DEF AcceptInvitation, netVars, historyVars, Still
<1>6. Begun(x, <<"create", "send", "touch">>, t, t, None) BY <1>2, <1>3, <1>4, <1>5, StartDoes DEF Begun
<1> QED BY <1>2, <1>5, <1>6 DEF Accepted

\* TouchMetadata starts a task on a record of the cache.
LEMMA TouchDoes ==
  ASSUME Types, \A y \in Tasks : TaskOK(y), NEW x \in Tasks, TouchMetadata(x)
  PROVE  Touched(x)
<1>1. x # None /\ RequesterTasks \in SUBSET Tasks /\ ResponderTasks \in SUBSET Tasks
  BY ExchangeAssumption DEF Tasks
<1>2. Idle(x)
  <2>1. CASE x = Spare(RequesterTasks) BY <1>1, <2>1, SpareFacts
  <2>2. CASE x = Spare(ResponderTasks) BY <1>1, <2>2, SpareFacts
  <2> QED BY <2>1, <2>2 DEF TouchMetadata
<1>3. phase[x] = "load" /\ copy[x] = None /\ base[x] = None BY <1>2 DEF TaskOK, PlaceOK
<1>4. PICK r \in IF x \in RequesterTasks THEN Threads ELSE Slots :
        cache[r] # None /\ Start(x, <<"touch">>, cache[r].thread, r, None)
  BY DEF TouchMetadata
<1>5. Still /\ UNCHANGED overlapped BY DEF TouchMetadata, netVars, historyVars, Still
<1>6. Begun(x, <<"touch">>, cache[r].thread, r, None) BY <1>2, <1>3, <1>4, <1>5, StartDoes DEF Begun
<1>7. r \in Rows /\ (x \in RequesterTasks => r \in Threads) /\ (x \in ResponderTasks => r \in Slots)
  BY <1>4, ExchangeAssumption DEF Rows
<1> QED BY <1>4, <1>5, <1>6, <1>7 DEF Touched

\* <<a>> before a list.
LEMMA Prefixed ==
  ASSUME NEW T, NEW p \in Seq(T), NEW q \in Seq(T), NEW r \in Seq(T),
         Len(p) = 1, Len(r) = Len(q) + 1, r[1] = p[1], \A i \in 1 .. Len(q) : r[i + 1] = q[i]
  PROVE  p \o q = r
<1>1. p \o q \in Seq(T) /\ Len(p \o q) = Len(p) + Len(q) BY ConcatProperties
<1>2. \A i \in 1 .. Len(p) + Len(q) : (p \o q)[i] = IF i <= Len(p) THEN p[i] ELSE q[i - Len(p)]
  BY ConcatProperties
<1>3. \A i \in 1 .. Len(p \o q) : (p \o q)[i] = r[i]
  <2> TAKE i \in 1 .. Len(p \o q)
  <2>1. Len(q) \in Nat BY LenProperties
  <2>2. CASE i = 1 BY <2>1, <2>2, <1>1, <1>2
  <2>3. CASE i # 1
    <3>1. i - 1 \in 1 .. Len(q) BY <2>1, <2>3, <1>1
    <3>2. r[(i - 1) + 1] = q[i - 1] BY <3>1
    <3> QED BY <3>1, <3>2, <1>1, <1>2, <2>1
  <2> QED BY <2>2, <2>3
<1> QED BY <1>1, <1>3, SeqEqual

LEMMA Prefixed3 ==
  ASSUME NEW T, NEW a \in T, NEW b \in T, NEW c \in T, NEW d \in T
  PROVE  <<a>> \o <<b, c, d>> = <<a, b, c, d>>
<1>1. PICK p, q, r : p = <<a>> /\ q = <<b, c, d>> /\ r = <<a, b, c, d>> OBVIOUS
<1>2. p \in Seq(T) /\ q \in Seq(T) /\ r \in Seq(T) BY <1>1
<1>3. Len(p) = 1 /\ Len(q) = 3 /\ Len(r) = 4 BY <1>1
<1>4. /\ p[1] = a /\ q[1] = b /\ q[2] = c /\ q[3] = d
      /\ r[1] = a /\ r[2] = b /\ r[3] = c /\ r[4] = d
  BY <1>1
<1>5. \A i \in 1 .. Len(q) : r[i + 1] = q[i] BY <1>3, <1>4
<1>6. Len(r) = Len(q) + 1 /\ r[1] = p[1] BY <1>3, <1>4
<1>7. p \o q = r BY <1>2, <1>3, <1>5, <1>6, Prefixed
<1> QED BY <1>1, <1>7, Zenon

LEMMA Prefixed4 ==
  ASSUME NEW T, NEW a \in T, NEW b \in T, NEW c \in T, NEW d \in T, NEW e \in T
  PROVE  <<a>> \o <<b, c, d, e>> = <<a, b, c, d, e>>
<1>1. PICK p, q, r : p = <<a>> /\ q = <<b, c, d, e>> /\ r = <<a, b, c, d, e>> OBVIOUS
<1>2. p \in Seq(T) /\ q \in Seq(T) /\ r \in Seq(T) BY <1>1
<1>3. Len(p) = 1 /\ Len(q) = 4 /\ Len(r) = 5 BY <1>1
<1>4. /\ p[1] = a /\ q[1] = b /\ q[2] = c /\ q[3] = d /\ q[4] = e
      /\ r[1] = a /\ r[2] = b /\ r[3] = c /\ r[4] = d /\ r[5] = e
  BY <1>1
<1>5. \A i \in 1 .. Len(q) : r[i + 1] = q[i] BY <1>3, <1>4
<1>6. Len(r) = Len(q) + 1 /\ r[1] = p[1] BY <1>3, <1>4
<1>7. p \o q = r BY <1>2, <1>3, <1>5, <1>6, Prefixed
<1> QED BY <1>1, <1>7, Zenon

\* The programs that handlers start are among those listed.
LEMMA Programs ==
  /\ \A p \in Answer : /\ p \in ResponderPrograms /\ Head(p) = "respond"
                       /\ <<"create">> \o p \in ResponderPrograms
                       /\ Head(<<"create">> \o p) = "create"
  /\ <<"finish">> \in ResponderPrograms /\ <<"touch">> \in ResponderPrograms
  /\ <<"receive", "complete", "send">> \in RequesterPrograms
  /\ <<"receive", "rewrite", "complete", "send">> \in RequesterPrograms
  /\ <<"create", "send", "touch">> \in RequesterPrograms /\ <<"touch">> \in RequesterPrograms
<1>1. \A p \in Answer : p \in ResponderPrograms BY Zenon DEF Answer, ResponderPrograms
<1>2. Head(<<"respond", "adopt", "send">>) = "respond" OBVIOUS
<1>3. Head(<<"respond", "adopt", "rewrite", "send">>) = "respond" OBVIOUS
<1>4. \A p \in Answer : Head(p) = "respond" BY <1>2, <1>3, Zenon DEF Answer
<1>0. {"create", "respond", "adopt", "rewrite", "send"} \subseteq Operations BY DEF Operations
<1>5. <<"create">> \o <<"respond", "adopt", "send">> = <<"create", "respond", "adopt", "send">>
  BY <1>0, Prefixed3
<1>6. <<"create">> \o <<"respond", "adopt", "rewrite", "send">>
        = <<"create", "respond", "adopt", "rewrite", "send">>
  BY <1>0, Prefixed4
<1>7. \A p \in Answer : \/ <<"create">> \o p = <<"create", "respond", "adopt", "send">>
                        \/ <<"create">> \o p = <<"create", "respond", "adopt", "rewrite", "send">>
  BY <1>5, <1>6, Zenon DEF Answer
<1>8. \A p \in Answer : <<"create">> \o p \in ResponderPrograms BY <1>7, Zenon DEF ResponderPrograms
<1>9. Head(<<"create", "respond", "adopt", "send">>) = "create" OBVIOUS
<1>10. Head(<<"create", "respond", "adopt", "rewrite", "send">>) = "create" OBVIOUS
<1>11. \A p \in Answer : Head(<<"create">> \o p) = "create" BY <1>7, <1>9, <1>10, Zenon
<1>12. <<"finish">> \in ResponderPrograms /\ <<"touch">> \in ResponderPrograms
  BY Zenon DEF ResponderPrograms
<1>13. /\ <<"receive", "complete", "send">> \in RequesterPrograms
       /\ <<"receive", "rewrite", "complete", "send">> \in RequesterPrograms
       /\ <<"create", "send", "touch">> \in RequesterPrograms /\ <<"touch">> \in RequesterPrograms
  BY Zenon DEF RequesterPrograms
<1> QED BY <1>1, <1>4, <1>8, <1>11, <1>12, <1>13, Zenon

\* A message is handled by a new task, or dropped.
Dropped == Still /\ UNCHANGED taskVars /\ UNCHANGED overlapped

\* A message is dropped, or starts a task for its type.
LEMMA HandleDoes ==
  ASSUME Types, \A y \in Tasks : TaskOK(y), NEW x \in Tasks, NEW m \in sent, Handle(x, m)
  PROVE  Dropped \/ Answering(x) \/ Concluding(x) \/ Finishing(x)
<1>1. x # None /\ RequesterTasks \in SUBSET Tasks /\ ResponderTasks \in SUBSET Tasks
  BY ExchangeAssumption DEF Tasks
<1>2. Still BY DEF Handle, Still
<1>3. Idle(x) => phase[x] = "load" /\ copy[x] = None /\ base[x] = None BY DEF TaskOK, PlaceOK
<1>4. ASSUME NEW p, NEW t, NEW r, NEW d, Idle(x), Start(x, p, t, r, d)
      PROVE  Begun(x, p, t, r, d)
  BY <1>2, <1>3, <1>4, StartDoes DEF Begun
<1>5. m.thread \in Threads /\ m.did \in Dids /\ (m.type = "response" => m.did # None)
  BY DEF Types, Message
<1>6. ASSUME m.type # "request" PROVE UNCHANGED overlapped BY <1>6 DEF Handle
<1>7. CASE x = Spare(ResponderTasks) /\ m.type = "request" /\ HandleRequest(x, m.thread)
  <2>1. x \in ResponderTasks /\ Idle(x) BY <1>1, <1>7, SpareFacts
  <2>2. ASSUME NEW p \in ResponderPrograms, NEW r, NEW d, Start(x, p, m.thread, r, d)
        PROVE  Marked(x, m.thread)
    <3>2. todo'[x] = p BY <2>2, StartDoes
    <3>3. p # <<>> BY <2>2, ResponderFacts
    <3>1. todo'[x] # <<>> BY <3>2, <3>3
    <3> QED BY <3>1, <1>7 DEF Handle, Marked, Busy
  <2>3. CASE /\ Found(m.thread) = {}
             /\ \E p \in Answer : NewRow # None /\ Start(x, <<"create">> \o p, m.thread, NewRow, None)
    <3>1. PICK p \in Answer : NewRow # None /\ Start(x, <<"create">> \o p, m.thread, NewRow, None) BY <2>3
    <3>2. PICK q : q = <<"create">> \o p OBVIOUS
    <3>3. q \in ResponderPrograms /\ Head(q) = "create" BY <3>1, <3>2, Programs, Zenon
    <3>4. PICK r : r = NewRow OBVIOUS
    <3>5. Start(x, q, m.thread, r, None) BY <3>1, <3>2, <3>4, Zenon
    <3>6. Begun(x, q, m.thread, r, None) BY <3>5, <2>1, <1>4
    <3>7. Marked(x, m.thread) BY <3>3, <3>5, <2>2
    <3>8. r \in Slots /\ store[r] = None /\ \A y \in Tasks : ctx[y].row # r BY <3>1, <3>4, NewRowFacts, Zenon
    <3>9. Answering(x) BY <2>1, <2>3, <1>5, <3>3, <3>6, <3>7, <3>8, Zenon DEF Answering
    <3> QED BY <3>9
  <2>4. CASE \E r \in Found(m.thread), p \in Answer :
               cache[r].state = "RequestReceived" /\ Start(x, p, m.thread, r, None)
    <3>1. PICK r \in Found(m.thread), p \in Answer :
            cache[r].state = "RequestReceived" /\ Start(x, p, m.thread, r, None)
      BY <2>4
    <3>2. p \in ResponderPrograms /\ Head(p) = "respond" BY <3>1, Programs, Zenon
    <3>3. r \in Slots BY <3>1 DEF Found
    <3>4. Begun(x, p, m.thread, r, None) BY <3>1, <2>1, <1>4
    <3>5. Marked(x, m.thread) BY <3>1, <3>2, <2>2
    <3>6. Answering(x) BY <2>1, <1>5, <3>1, <3>2, <3>3, <3>4, <3>5, Zenon DEF Answering
    <3> QED BY <3>6
  <2>5. CASE \E r \in Found(m.thread) : cache[r].state # "RequestReceived" /\ UNCHANGED taskVars
    <3>1. UNCHANGED taskVars BY <2>5
    <3>2. todo'[x] = <<>> BY <3>1, <2>1 DEF taskVars, Idle
    <3>3. UNCHANGED overlapped BY <3>2 DEF Handle
    <3> QED BY <3>1, <3>3, <1>2 DEF Dropped
  <2> QED BY <1>7, <2>3, <2>4, <2>5 DEF HandleRequest
<1>8. CASE x = Spare(RequesterTasks) /\ m.type = "response" /\ HandleResponse(x, m.thread, m.did)
  <2>1. x \in RequesterTasks /\ Idle(x) BY <1>1, <1>8, SpareFacts
  <2>2. PICK p \in {<<"receive", "complete", "send">>, <<"receive", "rewrite", "complete", "send">>} :
          Start(x, p, m.thread, m.thread, m.did)
    BY <1>8 DEF HandleResponse
  <2>3. p \in RequesterPrograms BY <2>2, Programs, Zenon
  <2>4. Head(<<"receive", "complete", "send">>) = "receive" OBVIOUS
  <2>5. Head(<<"receive", "rewrite", "complete", "send">>) = "receive" OBVIOUS
  <2>6. Head(p) = "receive" BY <2>2, <2>4, <2>5, Zenon
  <2>7. Begun(x, p, m.thread, m.thread, m.did) BY <2>1, <2>2, <1>4
  <2>8. UNCHANGED overlapped BY <1>6, <1>8
  <2>9. Concluding(x) BY <2>1, <2>3, <2>6, <2>7, <2>8, <1>8, Zenon DEF Concluding
  <2> QED BY <2>9
<1>9. CASE x = Spare(ResponderTasks) /\ m.type = "complete" /\ HandleComplete(x, m.thread)
  <2>1. x \in ResponderTasks /\ Idle(x) BY <1>1, <1>9, SpareFacts
  <2>2. UNCHANGED overlapped BY <1>6, <1>9
  <2>3. CASE Found(m.thread) = {} /\ UNCHANGED taskVars BY <2>2, <2>3, <1>2 DEF Dropped
  <2>4. CASE \E r \in Found(m.thread) : Start(x, <<"finish">>, m.thread, r, None)
    <3>1. PICK r \in Found(m.thread) : Start(x, <<"finish">>, m.thread, r, None) BY <2>4
    <3>2. Begun(x, <<"finish">>, m.thread, r, None) BY <3>1, <2>1, <1>4
    <3>3. Finishing(x) BY <2>1, <2>2, <3>1, <3>2, <1>9, Zenon DEF Finishing
    <3> QED BY <3>3
  <2> QED BY <1>9, <2>3, <2>4 DEF HandleComplete
<1> QED BY <1>7, <1>8, <1>9 DEF Handle

\* A task that is not idle.
LEMMA TaskFacts ==
  ASSUME Types, NEW x \in Tasks, TaskOK(x), ~ Idle(x)
  PROVE  /\ x \in RequesterTasks \/ x \in ResponderTasks
         /\ ~ (x \in RequesterTasks /\ x \in ResponderTasks)
         /\ x \in RequesterTasks => todo[x] \in RequesterPrograms
         /\ x \in ResponderTasks => todo[x] \in ResponderPrograms
         /\ ctx[x].thread \in Threads /\ ctx[x].row \in Rows /\ ctx[x].did \in Dids
         /\ x \in RequesterTasks => ctx[x].row = ctx[x].thread /\ ctx[x].row \notin Slots
         /\ x \in ResponderTasks => ctx[x].row \in Slots /\ ctx[x].row \notin Threads
         /\ store[ctx[x].row] \in ConnectionRecord \cup {None}
         /\ cache[ctx[x].row] \in ConnectionRecord \cup {None}
         /\ copy[x] \in ConnectionRecord \cup {None}
         /\ base[x] \in ConnectionRecord \cup {None}
<1>1. x \in RequesterTasks \/ x \in ResponderTasks BY DEF Tasks
<1>2. ~ (x \in RequesterTasks /\ x \in ResponderTasks) BY ExchangeAssumption
<1>3. /\ x \in RequesterTasks => todo[x] \in RequesterPrograms
      /\ x \in ResponderTasks => todo[x] \in ResponderPrograms
  BY Zenon DEF TaskOK, PlaceOK, Idle
<1>4. ctx[x] \in Context BY DEF Types
<1>5. ctx[x].did \in Dids BY <1>4 DEF Context
<1>6. /\ ctx[x].thread \in Threads
      /\ x \in RequesterTasks => ctx[x].row = ctx[x].thread
      /\ x \in ResponderTasks => ctx[x].row \in Slots
  BY DEF TaskOK, PlaceOK
<1>7. /\ ctx[x].row \in Rows
      /\ x \in RequesterTasks => ctx[x].row \notin Slots
      /\ x \in ResponderTasks => ctx[x].row \notin Threads
  BY <1>1, <1>6, ExchangeAssumption DEF Rows
<1>8. /\ store[ctx[x].row] \in ConnectionRecord \cup {None}
      /\ cache[ctx[x].row] \in ConnectionRecord \cup {None}
      /\ copy[x] \in ConnectionRecord \cup {None} /\ base[x] \in ConnectionRecord \cup {None}
  BY <1>7 DEF Types
<1> QED BY <1>1, <1>2, <1>3, <1>5, <1>6, <1>7, <1>8

\* The program of a task, by its first operation.
LEMMA OpFacts ==
  ASSUME Types, NEW x \in Tasks, TaskOK(x), ~ Idle(x)
  PROVE  /\ Busy(x) <=> Len(todo[x]) # 1
         /\ x \in ResponderTasks =>
              /\ Op(x) \in {"create", "respond", "adopt", "rewrite", "send", "finish", "touch"}
              /\ Busy(x) <=> Op(x) \notin {"send", "finish", "touch"}
         /\ x \in RequesterTasks =>
              /\ Op(x) \in {"create", "send", "touch", "receive", "rewrite", "complete"}
              /\ Op(x) = "touch" => ~ Busy(x)
              /\ ~ Busy(x) => Op(x) \in {"send", "touch"}
<1>1. CASE x \in ResponderTasks
  <2>1. PICK p \in ResponderPrograms : p = todo[x] BY <1>1, TaskFacts
  <2>2. x \notin RequesterTasks BY <1>1, TaskFacts
  <2>3. /\ Head(p) \in {"create", "respond", "adopt", "rewrite", "send", "finish", "touch"}
        /\ Len(p) = 1 <=> Head(p) \in {"send", "finish", "touch"}
    BY ResponderFacts
  <2>5. Len(p) # 1 => Len(p) > 1 BY ResponderFacts, Zenon
  <2>6. Len(p) = 1 => ~ (Len(p) > 1) OBVIOUS
  <2>4. Len(p) > 1 <=> Len(p) # 1 BY <2>5, <2>6, Zenon
  <2> QED BY <1>1, <2>1, <2>2, <2>3, <2>4, Zenon DEF Op, Busy
<1>2. CASE x \in RequesterTasks
  <2>1. PICK p \in RequesterPrograms : p = todo[x] BY <1>2, TaskFacts
  <2>2. x \notin ResponderTasks BY <1>2, TaskFacts
  <2>3. /\ Head(p) \in {"create", "send", "touch", "receive", "rewrite", "complete"}
        /\ Head(p) = "touch" => Len(p) = 1
        /\ Len(p) = 1 => Head(p) \in {"send", "touch"}
    BY RequesterFacts
  <2>5. Len(p) # 1 => Len(p) > 1 BY RequesterFacts, Zenon
  <2>6. Len(p) = 1 => ~ (Len(p) > 1) OBVIOUS
  <2>4. Len(p) > 1 <=> Len(p) # 1 BY <2>5, <2>6, Zenon
  <2> QED BY <1>2, <2>1, <2>2, <2>3, <2>4, Zenon DEF Op, Busy
<1> QED BY <1>1, <1>2 DEF Tasks

\* The operation that comes next.
LEMMA NextOpFacts ==
  ASSUME Types, NEW x \in Tasks, TaskOK(x), Busy(x), ~ Idle(x), todo'[x] = Tail(todo[x])
  PROVE  /\ ~ Idle(x)'
         /\ x \in ResponderTasks =>
              /\ todo'[x] \in ResponderPrograms
              /\ Op(x) = "create" => Op(x)' = "respond"
              /\ Op(x) = "respond" => Op(x)' = "adopt"
              /\ Op(x) = "adopt" => Op(x)' \in {"rewrite", "send"}
              /\ Op(x) = "rewrite" => Op(x)' = "send"
              /\ Op(x)' = "send" => ~ Busy(x)'
         /\ x \in RequesterTasks =>
              /\ todo'[x] \in RequesterPrograms
              /\ Op(x) = "create" => Op(x)' = "send" /\ Busy(x)'
              /\ Op(x) = "send" => Op(x)' = "touch"
              /\ Op(x) = "receive" => Op(x)' \in {"rewrite", "complete"}
              /\ Op(x) = "rewrite" => Op(x)' = "complete"
              /\ Op(x) = "complete" => Op(x)' = "send" /\ ~ Busy(x)'
<1>1. CASE x \in ResponderTasks
  <2>1. PICK p \in ResponderPrograms : p = todo[x] BY <1>1, TaskFacts
  <2>2. PICK q \in ResponderPrograms : q = Tail(p) BY <2>1, <1>1, OpFacts, ResponderFacts
  <2>3. todo'[x] = q BY <2>1, <2>2
  <2>4. q # <<>> BY ResponderFacts
  <2>5. /\ Head(p) = "create" => Head(q) = "respond"
        /\ Head(p) = "respond" => Head(q) = "adopt"
        /\ Head(p) = "adopt" => Head(q) \in {"rewrite", "send"}
        /\ Head(p) = "rewrite" => Head(q) = "send"
    BY <2>2, ResponderFacts, Zenon
  <2>6. Head(q) = "send" => Len(q) = 1 BY ResponderFacts
  <2>7. Len(q) = 1 => ~ (Len(q) > 1) OBVIOUS
  <2> QED BY <1>1, <2>1, <2>3, <2>4, <2>5, <2>6, <2>7, TaskFacts, Zenon DEF Op, Idle, Busy
<1>2. CASE x \in RequesterTasks
  <2>1. PICK p \in RequesterPrograms : p = todo[x] BY <1>2, TaskFacts
  <2>2. PICK q \in RequesterPrograms : q = Tail(p) BY <2>1, <1>2, OpFacts, RequesterFacts
  <2>3. todo'[x] = q BY <2>1, <2>2
  <2>4. q # <<>> BY RequesterFacts
  <2>5. /\ Head(p) = "create" => Head(q) = "send" /\ Len(q) > 1
        /\ Head(p) = "send" => Head(q) = "touch"
        /\ Head(p) = "receive" => Head(q) \in {"rewrite", "complete"}
        /\ Head(p) = "rewrite" => Head(q) = "complete"
        /\ Head(p) = "complete" => Head(q) = "send" /\ Len(q) = 1
    BY <2>1, <2>2, RequesterFacts, Zenon DEF Busy
  <2>6. Len(q) = 1 => ~ (Len(q) > 1) OBVIOUS
  <2> QED BY <1>2, <2>1, <2>3, <2>4, <2>5, <2>6, TaskFacts, Zenon DEF Op, Idle, Busy
<1> QED BY <1>1, <1>2 DEF Tasks

\* Create makes a first copy.
LEMMA CreateDoes ==
  ASSUME Types, \A y \in Tasks : TaskOK(y), NEW x \in Tasks, Create(x)
  PROVE  /\ ~ Idle(x) /\ phase[x] = "load" /\ Op(x) = "create"
         /\ UNCHANGED <<overlapped, minted>> /\ ctx'[x] = ctx[x]
         /\ \E c \in ConnectionRecord :
              /\ c.thread = ctx[x].thread /\ c.did = None
              /\ c.state = (IF x \in RequesterTasks THEN "RequestSent" ELSE "RequestReceived")
              /\ Written(x, c, None)
<1> DEFINE c == Connection(ctx[x].thread, IF x \in RequesterTasks THEN "RequestSent" ELSE "RequestReceived", None)
<1>1. ~ Idle(x) /\ phase[x] = "load" /\ Op(x) = "create" BY DEF Create, Op
<1>2. UNCHANGED <<store, cache, sent, stale, ctx, overlapped, minted>> BY DEF Create, netVars, historyVars
<1>3. c \in ConnectionRecord /\ c.thread = ctx[x].thread /\ c.did = None
      /\ c.state = (IF x \in RequesterTasks THEN "RequestSent" ELSE "RequestReceived")
  BY <1>1, TaskFacts DEF Connection, ConnectionRecord, States, Dids
<1>4. Write(x, c, None) BY DEF Create
<1> HIDE DEF c
<1>5. Written(x, c, None) BY <1>2, <1>4 DEF Write, Written, Frame, Same, Still, Types
<1> QED BY <1>1, <1>2, <1>3, <1>5, Zenon

\* What find and the checks let through.
Loaded(x, rec, c) ==
  /\ rec # None /\ rec \in ConnectionRecord /\ c \in ConnectionRecord /\ c.thread = rec.thread
  /\ Op(x) # "receive" => c.did = rec.did
  /\ Op(x) = "touch" => c = rec
  /\ Op(x) = "respond" => rec.state = "RequestReceived" /\ c.state = "ResponseSent"
  /\ Op(x) = "receive" => rec.state = "RequestSent" /\ c.state = "ResponseReceived" /\ c.did = ctx[x].did
  /\ Op(x) = "complete" => rec.state = "ResponseReceived" /\ c.state = "Completed"
  /\ Op(x) = "finish" => rec.state = "ResponseSent" /\ c.state = "Completed"
  /\ Op(x) # "respond" => ctx'[x] = ctx[x]
  /\ Op(x) = "respond" => ctx'[x].did = minted + 1 /\ minted' = minted + 1
  /\ ctx'[x] \in Context
  /\ Written(x, c, rec)

\* Load makes a copy of the cached record, or ends the task.
LEMMA LoadDoes ==
  ASSUME Types, \A y \in Tasks : TaskOK(y), NEW x \in Tasks, Load(x)
  PROVE  /\ ~ Idle(x) /\ phase[x] = "load" /\ Op(x) \in Loading
         /\ UNCHANGED overlapped /\ minted' \in {minted, minted + 1}
         /\ \/ Returned(x) /\ Still
            \/ \E c : Loaded(x, cache[ctx[x].row], c)
<1>1. ~ Idle(x) /\ phase[x] = "load" /\ Op(x) \in Loading BY DEF Load, Op
<1>2. UNCHANGED <<store, cache, sent, stale, overlapped>> BY DEF Load, netVars, historyVars
<1>3. PICK rec : rec = cache[ctx[x].row] OBVIOUS
<1>4. rec \in ConnectionRecord \cup {None} /\ ctx[x].did \in Dids BY <1>1, <1>3, TaskFacts
<1>5. CASE (rec = None \/ (Op(x) # "touch" /\ rec.state # Step(Op(x))[1])) /\ Return(x) /\ UNCHANGED minted
  <2>1. Returned(x) /\ Still BY <1>2, <1>5, ReturnDoes DEF Still
  <2> QED BY <1>1, <1>2, <1>5, <2>1
<1>6. CASE /\ rec # None /\ Op(x) # "touch" /\ rec.state = Step(Op(x))[1]
           /\ Write(x, [rec EXCEPT !.state = Step(Op(x))[2],
                                   !.did = IF Op(x) = "receive" THEN ctx[x].did ELSE @], rec)
           /\ minted' = IF Op(x) = "respond" THEN minted + 1 ELSE minted
           /\ ctx' = [ctx EXCEPT ![x].did = IF Op(x) = "respond" THEN minted + 1 ELSE @]
  <2>1. PICK c : c = [rec EXCEPT !.state = Step(Op(x))[2],
                                 !.did = IF Op(x) = "receive" THEN ctx[x].did ELSE @]
    OBVIOUS
  <2>2. rec \in ConnectionRecord BY <1>4, <1>6
  <2>3. Op(x) \in {"respond", "receive", "complete", "finish"} BY <1>1, <1>6 DEF Loading
  <2>4. Step(Op(x))[2] \in States BY <2>3 DEF Step, States
  <2>5. c \in ConnectionRecord BY <2>1, <2>2, <2>4, <1>4 DEF ConnectionRecord
  <2>6. /\ c.thread = rec.thread /\ c.state = Step(Op(x))[2]
        /\ c.did = IF Op(x) = "receive" THEN ctx[x].did ELSE rec.did
    BY <2>1, <2>2 DEF ConnectionRecord
  <2>7. /\ Op(x) = "respond" => Step(Op(x)) = <<"RequestReceived", "ResponseSent">>
        /\ Op(x) = "receive" => Step(Op(x)) = <<"RequestSent", "ResponseReceived">>
        /\ Op(x) = "complete" => Step(Op(x)) = <<"ResponseReceived", "Completed">>
        /\ Op(x) = "finish" => Step(Op(x)) = <<"ResponseSent", "Completed">>
    BY <2>3 DEF Step
  <2>8. /\ Op(x) = "respond" => rec.state = "RequestReceived" /\ c.state = "ResponseSent"
        /\ Op(x) = "receive" => rec.state = "RequestSent" /\ c.state = "ResponseReceived" /\ c.did = ctx[x].did
        /\ Op(x) = "complete" => rec.state = "ResponseReceived" /\ c.state = "Completed"
        /\ Op(x) = "finish" => rec.state = "ResponseSent" /\ c.state = "Completed"
    BY <2>6, <2>7, <1>6
  <2>9. ctx[x] \in Context BY DEF Types
  <2>10. ctx' = [ctx EXCEPT ![x] = [ctx[x] EXCEPT !.did = IF Op(x) = "respond" THEN minted + 1 ELSE @]]
    BY <1>6
  <2>11. ctx'[x] = [ctx[x] EXCEPT !.did = IF Op(x) = "respond" THEN minted + 1 ELSE @]
         /\ \A y \in Tasks : y # x => ctx'[y] = ctx[y]
    BY <2>10 DEF Types
  <2>12. /\ ctx'[x].thread = ctx[x].thread /\ ctx'[x].row = ctx[x].row
         /\ Op(x) # "respond" => ctx'[x] = ctx[x]
         /\ Op(x) = "respond" => ctx'[x].did = minted + 1 /\ minted' = minted + 1
    BY <2>9, <2>11, <1>6 DEF Context
  <2>17. minted + 1 \in Dids BY DEF Types, Dids
  <2>16. ctx'[x] \in Context BY <2>9, <2>11, <2>17 DEF Context
  <2>13. Write(x, c, rec) BY <2>1, <1>6
  <2>14. Written(x, c, rec) BY <1>2, <2>11, <2>12, <2>13 DEF Write, Written, Frame, Same, Still, Types
  <2>15. Loaded(x, rec, c) BY <1>6, <2>2, <2>5, <2>6, <2>8, <2>12, <2>14, <2>16 DEF Loaded
  <2> QED BY <1>1, <1>2, <1>3, <1>6, <2>15
<1>7. CASE rec # None /\ Op(x) = "touch" /\ Write(x, rec, rec) /\ UNCHANGED <<ctx, minted>>
  <2>1. Written(x, rec, rec) BY <1>2, <1>7 DEF Write, Written, Frame, Same, Still, Types
  <2>2. Loaded(x, rec, rec) BY <2>1, <1>4, <1>7 DEF Loaded, Types
  <2> QED BY <1>1, <1>2, <1>3, <1>7, <2>2
<1> QED BY <1>3, <1>5, <1>6, <1>7 DEF Load, Op

\* Rewrite makes its copy from the last one.
LEMMA RewriteDoes ==
  ASSUME Types, \A y \in Tasks : TaskOK(y), NEW x \in Tasks, Rewrite(x)
  PROVE  /\ ~ Idle(x) /\ phase[x] = "load" /\ Op(x) \in {"adopt", "rewrite"}
         /\ UNCHANGED <<overlapped, minted>> /\ ctx'[x] = ctx[x]
         /\ \E c \in ConnectionRecord :
              /\ copy[x] # None /\ c.thread = copy[x].thread /\ c.state = copy[x].state
              /\ Op(x) = "adopt" => c.did = ctx[x].did
              /\ Op(x) = "rewrite" => c = copy[x]
              /\ Written(x, c, copy[x])
<1>1. ~ Idle(x) /\ phase[x] = "load" /\ Op(x) \in {"adopt", "rewrite"} BY DEF Rewrite, Op
<1>2. UNCHANGED <<store, cache, sent, stale, ctx, overlapped, minted>> BY DEF Rewrite, netVars, historyVars
<1>3. copy[x] \in ConnectionRecord /\ copy[x] # None /\ ctx[x].did \in Dids
  BY <1>1, TaskFacts, ExchangeAssumption DEF TaskOK, CopyOK
<1>4. PICK c : c = IF Op(x) = "adopt" THEN [copy[x] EXCEPT !.did = ctx[x].did] ELSE copy[x] OBVIOUS
<1>5. c \in ConnectionRecord BY <1>3, <1>4 DEF ConnectionRecord
<1>6. /\ c.thread = copy[x].thread /\ c.state = copy[x].state
      /\ Op(x) = "adopt" => c.did = ctx[x].did
      /\ Op(x) = "rewrite" => c = copy[x]
  BY <1>1, <1>3, <1>4 DEF ConnectionRecord
<1>7. Write(x, c, copy[x]) BY <1>4 DEF Rewrite, Op
<1>8. Written(x, c, copy[x]) BY <1>2, <1>7 DEF Write, Written, Frame, Same, Still, Types
<1> QED BY <1>1, <1>2, <1>3, <1>5, <1>6, <1>8

\* A copy goes to storage: the record it was made from is there, or the row
\* is stale.
LEMMA WriteStorageDoes ==
  ASSUME Types, \A y \in Tasks : TaskOK(y), NEW x \in Tasks, WriteStorage(x)
  PROVE  /\ ~ Idle(x) /\ phase[x] = "store" /\ copy[x] # None
         /\ ctx[x].row \in Rows /\ copy[x].thread = ctx[x].thread
         /\ store'[ctx[x].row] = copy[x]
         /\ \A r \in Rows : r # ctx[x].row => store'[r] = store[r]
         /\ UNCHANGED <<cache, sent, overlapped, minted>>
         /\ Frame(x) /\ phase'[x] = "cache"
         /\ todo'[x] = todo[x] /\ ctx'[x] = ctx[x] /\ copy'[x] = copy[x] /\ base'[x] = base[x]
         /\ stale' \subseteq Rows /\ stale \subseteq stale'
         /\ ctx[x].row \in stale' \/ store[ctx[x].row] = base[x]
<1>1. ~ Idle(x) /\ phase[x] = "store" /\ copy[x] # None
  BY DEF WriteStorage, TaskOK, PlaceOK, CopyOK
<1>2. ctx[x].row \in Rows BY <1>1, TaskFacts
<1>3. copy[x].thread = ctx[x].thread BY <1>1 DEF TaskOK, CopyOK
<1> QED BY <1>1, <1>2, <1>3 DEF WriteStorage, netVars, Types, Frame, Same

\* What WriteCache and Send do to the rest of the program.
LEMMA AdvancedDoes ==
  ASSUME Types, NEW x \in Tasks, TaskOK(x), ~ Idle(x),
         IF Len(todo[x]) = 1
           THEN Return(x)
           ELSE /\ todo' = [todo EXCEPT ![x] = Tail(@)]
                /\ phase' = [phase EXCEPT ![x] = "load"]
                /\ UNCHANGED <<ctx, copy, base>>
  PROVE  Advanced(x)
<1>1. Busy(x) <=> Len(todo[x]) # 1 BY OpFacts
<1>2. CASE Len(todo[x]) = 1
  <2>1. Returned(x) BY <1>2, ReturnDoes
  <2> QED BY <1>1, <1>2, <2>1 DEF Advanced, Returned
<1>3. CASE Len(todo[x]) # 1
  <2>1. Frame(x) BY <1>3 DEF Types, Frame, Same
  <2>2. todo'[x] = Tail(todo[x]) BY <1>3 DEF Types
  <2>3. phase'[x] = "load" /\ ctx'[x] = ctx[x] /\ copy'[x] = copy[x] /\ base'[x] = base[x]
    BY <1>3 DEF Types
  <2> QED BY <1>1, <1>3, <2>1, <2>2, <2>3 DEF Advanced
<1> QED BY <1>2, <1>3

\* A copy goes to the cache: storage has the same, or the row is stale.
LEMMA WriteCacheDoes ==
  ASSUME Types, \A y \in Tasks : TaskOK(y), NEW x \in Tasks, WriteCache(x)
  PROVE  /\ ~ Idle(x) /\ phase[x] = "cache" /\ copy[x] # None
         /\ ctx[x].row \in Rows /\ copy[x].thread = ctx[x].thread
         /\ cache'[ctx[x].row] = copy[x]
         /\ \A r \in Rows : r # ctx[x].row => cache'[r] = cache[r]
         /\ UNCHANGED <<store, sent, overlapped, minted>>
         /\ Advanced(x)
         /\ stale' \subseteq Rows /\ stale \subseteq stale'
         /\ ctx[x].row \in stale' \/ store[ctx[x].row] = copy[x]
<1>1. ~ Idle(x) /\ phase[x] = "cache" /\ copy[x] # None
  BY DEF WriteCache, TaskOK, PlaceOK, CopyOK
<1>2. ctx[x].row \in Rows BY <1>1, TaskFacts
<1>3. copy[x].thread = ctx[x].thread BY <1>1 DEF TaskOK, CopyOK
<1>4. Advanced(x) BY <1>1, AdvancedDoes DEF WriteCache
<1> QED BY <1>1, <1>2, <1>3, <1>4 DEF WriteCache, netVars, Types

\* Send puts one message on its way.
LEMMA SendDoes ==
  ASSUME Types, \A y \in Tasks : TaskOK(y), NEW x \in Tasks, Send(x)
  PROVE  /\ ~ Idle(x) /\ phase[x] = "load" /\ Op(x) = "send"
         /\ sent' = sent \cup {Outbound(x)} /\ Outbound(x) \in Message
         /\ UNCHANGED <<store, cache, stale, overlapped, minted>>
         /\ Advanced(x)
<1>1. ~ Idle(x) /\ phase[x] = "load" /\ Op(x) = "send" BY DEF Send, Op
<1>2. ctx[x].thread \in Threads /\ ctx[x].did \in Dids BY <1>1, TaskFacts
<1>3. Outbound(x) \in Message BY <1>2 DEF Outbound, Message, Request, Response, Complete, Dids
<1>4. CASE Len(todo[x]) = 1
  <2>1. Return(x) BY <1>4 DEF Send
  <2>2. Advanced(x) BY <2>1, <1>1, <1>4, AdvancedDoes
  <2> QED BY <1>1, <1>3, <2>2 DEF Send, netVars, historyVars
<1>5. CASE Len(todo[x]) # 1
  <2>1. todo' = [todo EXCEPT ![x] = Tail(@)] /\ UNCHANGED <<phase, ctx, copy, base>> BY <1>5 DEF Send
  <2>2. phase' = [phase EXCEPT ![x] = "load"] BY <2>1, <1>1 DEF Types
  <2>3. Advanced(x) BY <2>1, <2>2, <1>1, <1>5, AdvancedDoes
  <2> QED BY <1>1, <1>3, <2>3 DEF Send, netVars, historyVars
<1> QED BY <1>4, <1>5
-----------------------------------------------------------------------------
(* What every step keeps.                                                  *)

Domains ==
  /\ store = [r \in Rows |-> store[r]] /\ cache = [r \in Rows |-> cache[r]]
  /\ todo = [x \in Tasks |-> todo[x]] /\ phase = [x \in Tasks |-> phase[x]]
  /\ ctx = [x \in Tasks |-> ctx[x]]
  /\ copy = [x \in Tasks |-> copy[x]] /\ base = [x \in Tasks |-> base[x]]

\* What a step of task x has in common with every other.
Stepped(x) ==
  /\ Domains' /\ Frame(x)
  /\ overlapped \subseteq overlapped' /\ overlapped' \subseteq Threads
  /\ minted' \in {minted, minted + 1}

\* Types from the values at one task, every record and the messages.
LEMMA TypesStep ==
  ASSUME Types, NEW x \in Tasks, Stepped(x),
         todo'[x] \in RequesterPrograms \cup ResponderPrograms \cup {<<>>},
         phase'[x] \in {"load", "store", "cache"}, ctx'[x] \in Context,
         copy'[x] \in ConnectionRecord \cup {None}, base'[x] \in ConnectionRecord \cup {None},
         \A r \in Rows : store'[r] \in ConnectionRecord \cup {None},
         \A r \in Rows : cache'[r] \in ConnectionRecord \cup {None},
         sent' \subseteq Message, \A m \in sent' : m.type = "response" => m.did # None,
         stale' \subseteq Rows
  PROVE  Types'
<1> USE DEF Types, Stepped, Domains, Frame, Same
<1>1. store' \in [Rows -> ConnectionRecord \cup {None}] OBVIOUS
<1>2. cache' \in [Rows -> ConnectionRecord \cup {None}] OBVIOUS
<1>3. todo' \in [Tasks -> RequesterPrograms \cup ResponderPrograms \cup {<<>>}] OBVIOUS
<1>4. phase' \in [Tasks -> {"load", "store", "cache"}] OBVIOUS
<1>5. ctx' \in [Tasks -> Context] OBVIOUS
<1>6. copy' \in [Tasks -> ConnectionRecord \cup {None}] OBVIOUS
<1>7. base' \in [Tasks -> ConnectionRecord \cup {None}] OBVIOUS
<1>8. minted' \in Nat OBVIOUS
<1> QED BY <1>1, <1>2, <1>3, <1>4, <1>5, <1>6, <1>7, <1>8

\* A task that does not change stays as it was.
LEMMA SameTaskOK ==
  ASSUME NEW y, TaskOK(y), Same(y)
  PROVE  TaskOK(y)'
BY DEF Same, TaskOK, PlaceOK, CopyOK, MadeOK, AnswerOK, ConcludeOK, Op, Busy, Idle

\* A step of x disturbs no other task.
LEMMA OtherTasksOK ==
  ASSUME \A y \in Tasks : TaskOK(y), NEW x \in Tasks, Frame(x), TaskOK(x)'
  PROVE  \A y \in Tasks : TaskOK(y)'
<1> TAKE y \in Tasks
<1>1. CASE y = x BY <1>1
<1>2. CASE y # x BY <1>2, SameTaskOK DEF Frame
<1> QED BY <1>1, <1>2

\* A task that has ended.
LEMMA EndedTaskOK ==
  ASSUME NEW x \in Tasks, todo'[x] = <<>>, phase'[x] = "load", ctx'[x] = NoContext,
         copy'[x] = None, base'[x] = None
  PROVE  TaskOK(x)'
BY DEF TaskOK, PlaceOK, Idle, NoContext

\* A thread that was disturbed stays so.
LEMMA OrderlyBefore ==
  ASSUME NEW u \in Threads, Orderly(u)', overlapped \subseteq overlapped', stale \subseteq stale',
         Answered(u) \subseteq Answered(u)'
  PROVE  Orderly(u) /\ u \notin overlapped
BY DEF Orderly

\* What a step of task x must show of the places where a DID of u may be.
DidNews(x, u) ==
  /\ \A e \in Dids : Settled(u, e) => Settled(u, e)'
  /\ \A m \in sent' : m \in sent \/ ~ (m.type = "response" /\ m.thread = u) \/ Settled(u, m.did)'
  /\ x \in ResponderTasks /\ ctx'[x].thread = u /\ ~ Idle(x)' /\ Op(x)' = "send" => Settled(u, ctx[x].did)'
  /\ x \in RequesterTasks /\ ctx'[x].thread = u /\ ctx'[x].did # None => Settled(u, ctx[x].did)'
  /\ x \in RequesterTasks /\ ctx'[x].thread = u /\ copy'[x] # None /\ copy'[x].did # None =>
       Settled(u, copy[x].did)'
  /\ store'[u] = store[u] \/ (store'[u] # None /\ store'[u].did # None => Settled(u, store[u].did)')
  /\ cache'[u] = cache[u] \/ (cache'[u] # None /\ cache'[u].did # None => Settled(u, cache[u].did)')

\* DidOK is kept if every place that changes has a settled DID.
LEMMA DidStep ==
  ASSUME ExchangeInv, NEW x \in Tasks, Frame(x), NEW u \in Threads, Orderly(u), DidNews(x, u)
  PROVE  DidOK(u)'
<1>1. DidOK(u) BY DEF ExchangeInv
<1>2. \A e \in Dids : Settled(u, e) => Settled(u, e)' BY DEF DidNews
<1>3. RequesterTasks \subseteq Tasks /\ ResponderTasks \subseteq Tasks /\ u \in Rows BY DEF Tasks, Rows
<1>4. \A y \in Tasks : y # x => Same(y) BY DEF Frame
<1>5. ASSUME NEW m \in sent', m.type = "response", m.thread = u PROVE Settled(u, m.did)'
  <2>1. CASE m \in sent
    <3>1. Settled(u, m.did) BY <2>1, <1>1, <1>5 DEF DidOK
    <3>2. m.did \in Dids BY <2>1 DEF ExchangeInv, Types, Message
    <3> QED BY <3>1, <3>2, <1>2
  <2>2. CASE m \notin sent BY <2>2, <1>5 DEF DidNews
  <2> QED BY <2>1, <2>2
<1>6. ASSUME NEW y \in ResponderTasks, ctx'[y].thread = u, ~ Idle(y)', Op(y)' = "send"
      PROVE  Settled(u, ctx[y].did)'
  <2>1. CASE y = x BY <2>1, <1>6 DEF DidNews
  <2>2. CASE y # x
    <3>1. ctx'[y] = ctx[y] /\ ~ Idle(y) /\ Op(y) = "send" BY <2>2, <1>3, <1>4, <1>6 DEF Same, Idle, Op
    <3>2. PICK e : e = ctx[y].did OBVIOUS
    <3>3. e \in Dids BY <3>2, <1>3 DEF ExchangeInv, Types, Context
    <3>4. Settled(u, e)' BY <3>1, <3>2, <3>3, <1>1, <1>2, <1>6 DEF DidOK
    <3> QED BY <3>1, <3>2, <3>4
  <2> QED BY <2>1, <2>2
<1>7. ASSUME NEW y \in RequesterTasks, ctx'[y].thread = u, ctx'[y].did # None
      PROVE  Settled(u, ctx[y].did)'
  <2>1. CASE y = x BY <2>1, <1>7 DEF DidNews
  <2>2. CASE y # x
    <3>1. PICK e : e = ctx[y].did /\ ctx'[y] = ctx[y] BY <2>2, <1>3, <1>4 DEF Same
    <3>2. e \in Dids BY <3>1, <1>3 DEF ExchangeInv, Types, Context
    <3>3. Settled(u, e)' BY <3>1, <3>2, <1>1, <1>2, <1>7 DEF DidOK
    <3> QED BY <3>1, <3>3
  <2> QED BY <2>1, <2>2
<1>8. ASSUME NEW y \in RequesterTasks, ctx'[y].thread = u, copy'[y] # None, copy'[y].did # None
      PROVE  Settled(u, copy[y].did)'
  <2>1. CASE y = x BY <2>1, <1>8 DEF DidNews
  <2>2. CASE y # x
    <3>1. PICK e : e = copy[y].did /\ ctx'[y] = ctx[y] /\ copy'[y] = copy[y] BY <2>2, <1>3, <1>4 DEF Same
    <3>2. e \in Dids BY <3>1, <1>3, <1>8 DEF ExchangeInv, Types, ConnectionRecord
    <3>3. Settled(u, e)' BY <3>1, <3>2, <1>1, <1>2, <1>8 DEF DidOK
    <3> QED BY <3>1, <3>3
  <2> QED BY <2>1, <2>2
<1>9. ASSUME store'[u] # None, store'[u].did # None PROVE Settled(u, store[u].did)'
  <2>1. CASE store'[u] = store[u]
    <3>1. PICK e : e = store[u].did OBVIOUS
    <3>2. e \in Dids BY <3>1, <2>1, <1>3, <1>9 DEF ExchangeInv, Types, ConnectionRecord
    <3>3. Settled(u, e)' BY <3>1, <3>2, <2>1, <1>1, <1>2, <1>9 DEF DidOK
    <3> QED BY <3>1, <3>3, <2>1
  <2>2. CASE store'[u] # store[u] BY <2>2, <1>9 DEF DidNews
  <2> QED BY <2>1, <2>2
<1>10. ASSUME cache'[u] # None, cache'[u].did # None PROVE Settled(u, cache[u].did)'
  <2>1. CASE cache'[u] = cache[u]
    <3>1. PICK e : e = cache[u].did OBVIOUS
    <3>2. e \in Dids BY <3>1, <2>1, <1>3, <1>10 DEF ExchangeInv, Types, ConnectionRecord
    <3>3. Settled(u, e)' BY <3>1, <3>2, <2>1, <1>1, <1>2, <1>10 DEF DidOK
    <3> QED BY <3>1, <3>3, <2>1
  <2>2. CASE cache'[u] # cache[u] BY <2>2, <1>10 DEF DidNews
  <2> QED BY <2>1, <2>2
<1> QED BY <1>5, <1>6, <1>7, <1>8, <1>9, <1>10 DEF DidOK

\* The same for the places that take u for complete.
DoneNews(x, u) ==
  /\ Concluded(u) => Concluded(u)'
  /\ \A m \in sent' : m \in sent \/ ~ (m.type = "complete" /\ m.thread = u) \/ Concluded(u)'
  /\ x \in RequesterTasks /\ ctx'[x].thread = u /\ ~ Idle(x)' /\ Op(x)' = "send" /\ ctx'[x].did # None =>
       Concluded(u)'
  /\ x \in ResponderTasks /\ ctx'[x].thread = u /\ ~ Idle(x)' /\ Op(x)' = "finish" => Concluded(u)'
  /\ x \in ResponderTasks /\ ctx'[x].thread = u /\ copy'[x] # None /\ copy'[x].state = "Completed" =>
       Concluded(u)'
  /\ \A r \in Slots : \/ store'[r] = store[r]
                      \/ ~ (store'[r] # None /\ store'[r].thread = u /\ store'[r].state = "Completed")
                      \/ Concluded(u)'
  /\ \A r \in Slots : \/ cache'[r] = cache[r]
                      \/ ~ (cache'[r] # None /\ cache'[r].thread = u /\ cache'[r].state = "Completed")
                      \/ Concluded(u)'

\* DoneOK is kept if every place that changes is right.
LEMMA DoneStep ==
  ASSUME ExchangeInv, NEW x \in Tasks, Frame(x), NEW u \in Threads, Orderly(u), DoneNews(x, u)
  PROVE  DoneOK(u)'
<1>1. DoneOK(u) BY DEF ExchangeInv
<1>2. Concluded(u) => Concluded(u)' BY DEF DoneNews
<1>3. RequesterTasks \subseteq Tasks /\ ResponderTasks \subseteq Tasks BY DEF Tasks
<1>4. \A y \in Tasks : y # x => Same(y) BY DEF Frame
<1>5. \A m \in sent' : m.type = "complete" /\ m.thread = u => Concluded(u)'
  BY <1>1, <1>2 DEF DoneOK, DoneNews
<1>6. ASSUME NEW y \in RequesterTasks, ctx'[y].thread = u, ~ Idle(y)', Op(y)' = "send", ctx'[y].did # None
      PROVE  Concluded(u)'
  <2>1. CASE y = x BY <2>1, <1>6 DEF DoneNews
  <2>2. CASE y # x BY <2>2, <1>1, <1>2, <1>3, <1>4, <1>6 DEF DoneOK, Same, Idle, Op
  <2> QED BY <2>1, <2>2
<1>7. ASSUME NEW y \in ResponderTasks, ctx'[y].thread = u, ~ Idle(y)', Op(y)' = "finish"
      PROVE  Concluded(u)'
  <2>1. CASE y = x BY <2>1, <1>7 DEF DoneNews
  <2>2. CASE y # x BY <2>2, <1>1, <1>2, <1>3, <1>4, <1>7 DEF DoneOK, Same, Idle, Op
  <2> QED BY <2>1, <2>2
<1>8. ASSUME NEW y \in ResponderTasks, ctx'[y].thread = u, copy'[y] # None, copy'[y].state = "Completed"
      PROVE  Concluded(u)'
  <2>1. CASE y = x BY <2>1, <1>8 DEF DoneNews
  <2>2. CASE y # x BY <2>2, <1>1, <1>2, <1>3, <1>4, <1>8 DEF DoneOK, Same
  <2> QED BY <2>1, <2>2
<1>9. \A r \in Slots : store'[r] # None /\ store'[r].thread = u /\ store'[r].state = "Completed" => Concluded(u)'
  BY <1>1, <1>2 DEF DoneOK, DoneNews
<1>10. \A r \in Slots : cache'[r] # None /\ cache'[r].thread = u /\ cache'[r].state = "Completed" => Concluded(u)'
  BY <1>1, <1>2 DEF DoneOK, DoneNews
<1> QED BY <1>5, <1>6, <1>7, <1>8, <1>9, <1>10 DEF DoneOK
-----------------------------------------------------------------------------
(* A task is started.                                                      *)

\* What must hold for task x to be started on record r of thread t.
Startable(x, p, t, r, d) ==
  /\ x \in Tasks /\ t \in Threads /\ r \in Rows /\ d \in Dids
  /\ x \in RequesterTasks =>
       /\ p \in RequesterPrograms /\ r = t
       /\ Head(p) \in {"create", "touch", "receive"}
       /\ d # None <=> Head(p) = "receive"
       /\ d # None /\ Orderly(t)' => Settled(t, d)
  /\ x \in ResponderTasks =>
       /\ p \in ResponderPrograms /\ r \in Slots /\ d = None
       /\ Head(p) \in {"create", "respond", "finish", "touch"}
       /\ store[r] # None => store[r].thread = t
       /\ Head(p) # "create" => cache[r] # None
       /\ \A y \in ResponderTasks : ~ Idle(y) /\ ctx[y].row = r => ctx[y].thread = t
       /\ Head(p) = "create" /\ t \notin overlapped' => Answered(t) = {}
       /\ Head(p) \in {"create", "respond"} /\ t \notin overlapped' =>
            /\ \A y \in ResponderTasks : ctx[y].thread = t => ~ Busy(y)
            /\ \A e \in Dids : ~ Settled(t, e)
       /\ Head(p) = "finish" /\ Orderly(t)' => Concluded(t)

\* A task that has just started.
LEMMA BegunTask ==
  ASSUME NEW x, NEW p, NEW t, NEW r, NEW d, Startable(x, p, t, r, d), Begun(x, p, t, r, d)
  PROVE  /\ TaskOK(x)' /\ ~ Idle(x)' /\ Op(x)' = Head(p)
         /\ ctx'[x].thread = t /\ ctx'[x].row = r /\ ctx'[x].did = d
         /\ todo'[x] \in RequesterPrograms \cup ResponderPrograms
         /\ x \in ResponderTasks => (Busy(x)' <=> Head(p) \in {"create", "respond"})
<1>1. x \in RequesterTasks \/ x \in ResponderTasks BY DEF Tasks, Startable
<1>2. ~ (x \in RequesterTasks /\ x \in ResponderTasks) BY ExchangeAssumption
<1>3. todo'[x] = p /\ phase'[x] = "load" /\ copy'[x] = None /\ base'[x] = None BY DEF Begun
<1>4. ctx'[x].thread = t /\ ctx'[x].row = r /\ ctx'[x].did = d BY DEF Begun
<1>5. ctx'[x] # NoContext
  <2>1. t # None BY ExchangeAssumption DEF Startable, Rows
  <2> QED BY <2>1, <1>4 DEF NoContext
<1>6. p \in RequesterPrograms \cup ResponderPrograms /\ p # <<>>
  <2>1. CASE x \in RequesterTasks BY <2>1, RequesterFacts DEF Startable
  <2>2. CASE x \in ResponderTasks BY <2>2, ResponderFacts DEF Startable
  <2> QED BY <1>1, <2>1, <2>2
<1>7. ~ Idle(x)' /\ Op(x)' = Head(p) BY <1>3, <1>6 DEF Idle, Op
<1>8. PlaceOK(x)' BY <1>1, <1>2, <1>3, <1>4, <1>5, <1>6, <1>7 DEF PlaceOK, Idle, Startable
<1>9. CopyOK(x)' /\ MadeOK(x)' BY <1>1, <1>2, <1>3, <1>7 DEF CopyOK, MadeOK, Startable
<1>10. x \in ResponderTasks => AnswerOK(x)' BY <1>3, <1>7 DEF AnswerOK, Startable
<1>11. x \in RequesterTasks => ConcludeOK(x)' BY <1>3, <1>4, <1>7 DEF ConcludeOK, Startable
<1>12. TaskOK(x)' BY <1>8, <1>9, <1>10, <1>11 DEF TaskOK
<1>13. x \in ResponderTasks => (Busy(x)' <=> Head(p) \in {"create", "respond"})
  <2> SUFFICES ASSUME x \in ResponderTasks PROVE Busy(x)' <=> Head(p) \in {"create", "respond"} OBVIOUS
  <2>1. p \in ResponderPrograms /\ Head(p) \in {"create", "respond", "finish", "touch"} BY DEF Startable
  <2>2. Len(p) = 1 <=> Head(p) \in {"send", "finish", "touch"} BY <2>1, ResponderFacts
  <2>3. Len(p) # 1 => Len(p) > 1 BY <2>1, ResponderFacts, Zenon
  <2>4. Len(p) = 1 => ~ (Len(p) > 1) OBVIOUS
  <2>5. Len(p) > 1 <=> Head(p) \in {"create", "respond"} BY <2>1, <2>2, <2>3, <2>4, Zenon
  <2> QED BY <2>5, <1>3 DEF Busy
<1> QED BY <1>3, <1>4, <1>6, <1>7, <1>12, <1>13

\* Starting a task keeps the invariant.
LEMMA BegunKeeps ==
  ASSUME ExchangeInv, NEW x, NEW p, NEW t \in Threads, NEW r, NEW d,
         Startable(x, p, t, r, d), Begun(x, p, t, r, d), Stepped(x)
  PROVE  ExchangeInv'
<1>1. /\ TaskOK(x)' /\ ~ Idle(x)' /\ Op(x)' = Head(p)
      /\ ctx'[x].thread = t /\ ctx'[x].row = r /\ ctx'[x].did = d
      /\ todo'[x] \in RequesterPrograms \cup ResponderPrograms
      /\ x \in ResponderTasks => (Busy(x)' <=> Head(p) \in {"create", "respond"})
  BY BegunTask
<1>2. /\ x \in Tasks /\ t \in Threads /\ r \in Rows /\ d \in Dids
      /\ ~ (x \in RequesterTasks /\ x \in ResponderTasks)
  BY ExchangeAssumption DEF Startable
<1>3. /\ Idle(x) /\ Frame(x) /\ UNCHANGED <<store, cache, sent, stale>>
      /\ phase'[x] = "load" /\ copy'[x] = None /\ base'[x] = None
      /\ ctx'[x] = [thread |-> t, row |-> r, did |-> d]
  BY DEF Begun, Still
<1>4. ctx[x] = NoContext /\ ~ Busy(x) BY <1>2, <1>3 DEF ExchangeInv, TaskOK, PlaceOK, Idle, Busy
<1>5. overlapped \subseteq overlapped' /\ overlapped' \subseteq Threads BY DEF Stepped
<1>6. \A y \in Tasks : y # x => Same(y) BY <1>3 DEF Frame
<1>7. RequesterTasks \subseteq Tasks /\ ResponderTasks \subseteq Tasks /\ Threads \subseteq Rows /\ Slots \subseteq Rows
  BY DEF Tasks, Rows
<1>8. Types'
  <2>1. ctx'[x] \in Context BY <1>2, <1>3 DEF Context
  <2> QED BY <2>1, <1>1, <1>2, <1>3, TypesStep DEF ExchangeInv, Types
<1>9. \A y \in Tasks : TaskOK(y)' BY <1>1, <1>2, <1>3, OtherTasksOK DEF ExchangeInv
<1>10. RowsOK'
  <2>1. /\ \A q \in Rows : cache'[q] # None => store'[q] # None /\ cache'[q].thread = store'[q].thread
        /\ \A u \in Threads : store'[u] # None => store'[u].thread = u
    BY <1>3 DEF ExchangeInv, RowsOK
  <2>2. \A y \in Tasks : phase'[y] = "cache" => store'[ctx'[y].row] # None
    BY <1>3, <1>6 DEF ExchangeInv, RowsOK, Same
  <2>3. ASSUME NEW y \in ResponderTasks, ~ Idle(y)'
        PROVE  /\ store'[ctx'[y].row] # None => store'[ctx'[y].row].thread = ctx'[y].thread
               /\ Op(y)' # "create" => cache'[ctx'[y].row] # None
    <3>1. CASE y = x BY <3>1, <1>1, <1>3 DEF Startable
    <3>2. CASE y # x BY <3>2, <2>3, <1>3, <1>6, <1>7 DEF ExchangeInv, RowsOK, Same, Idle, Op
    <3> QED BY <3>1, <3>2
  <2>4. ASSUME NEW y \in ResponderTasks, NEW z \in ResponderTasks, ~ Idle(y)', ~ Idle(z)',
               ctx'[y].row = ctx'[z].row
        PROVE  ctx'[y].thread = ctx'[z].thread
    <3>1. CASE y = x /\ z = x BY <3>1
    <3>2. CASE y = x /\ z # x BY <3>2, <2>4, <1>1, <1>6, <1>7 DEF Startable, Same, Idle
    <3>3. CASE y # x /\ z = x BY <3>3, <2>4, <1>1, <1>6, <1>7 DEF Startable, Same, Idle
    <3>4. CASE y # x /\ z # x BY <3>4, <2>4, <1>6, <1>7 DEF ExchangeInv, RowsOK, Same, Idle
    <3> QED BY <3>1, <3>2, <3>3, <3>4
  <2> QED BY <2>1, <2>2, <2>3, <2>4 DEF RowsOK
<1>11. \A u \in Threads : Answered(u)' = Answered(u) BY <1>3 DEF Answered
<1>12. ASSUME NEW u \in Threads, u \notin overlapped' PROVE ClaimOK(u)'
  <2>1. ClaimOK(u) BY <1>5, <1>12 DEF ExchangeInv
  <2>2. ASSUME NEW y \in ResponderTasks, NEW z \in ResponderTasks,
               ctx'[y].thread = u, ctx'[z].thread = u, Busy(y)', Busy(z)'
        PROVE  y = z
    <3>1. CASE y # x /\ z # x BY <3>1, <2>1, <2>2, <1>6, <1>7 DEF ClaimOK, Same, Busy
    <3>2. CASE y = x /\ z # x
      <4>1. Busy(z) /\ ctx[z].thread = t BY <3>2, <2>2, <1>1, <1>6, <1>7 DEF Same, Busy
      <4> QED BY <4>1, <3>2, <2>2, <1>1, <1>12 DEF Startable
    <3>3. CASE y # x /\ z = x
      <4>1. Busy(y) /\ ctx[y].thread = t BY <3>3, <2>2, <1>1, <1>6, <1>7 DEF Same, Busy
      <4> QED BY <4>1, <3>3, <2>2, <1>1, <1>12 DEF Startable
    <3> QED BY <3>1, <3>2, <3>3
  <2>3. \A q, s \in Answered(u)' : q = s BY <2>1, <1>11 DEF ClaimOK
  <2>4. ASSUME NEW y \in ResponderTasks, NEW q \in Answered(u)', ctx'[y].thread = u, ~ Idle(y)', Op(y)' = "create"
        PROVE  q = ctx'[y].row
    <3>1. CASE y = x BY <3>1, <2>4, <1>1, <1>11, <1>12 DEF Startable
    <3>2. CASE y # x BY <3>2, <2>1, <2>4, <1>6, <1>7, <1>11 DEF ClaimOK, Same, Idle, Op
    <3> QED BY <3>1, <3>2
  <2>5. ASSUME NEW q \in Answered(u)', cache'[q] = None
        PROVE  \E y \in ResponderTasks :
                 ctx'[y].thread = u /\ ctx'[y].row = q /\ ~ Idle(y)' /\ Op(y)' = "create" /\ phase'[y] = "cache"
    <3>1. PICK y \in ResponderTasks :
            ctx[y].thread = u /\ ctx[y].row = q /\ ~ Idle(y) /\ Op(y) = "create" /\ phase[y] = "cache"
      BY <2>1, <2>5, <1>3, <1>11 DEF ClaimOK
    <3>2. y # x BY <3>1, <1>3
    <3> QED BY <3>1, <3>2, <1>6, <1>7 DEF Same, Idle, Op
  <2> QED BY <2>2, <2>3, <2>4, <2>5 DEF ClaimOK
<1>13. ASSUME NEW u \in Threads, u \notin overlapped', NEW e \in Dids, Settled(u, e) PROVE Settled(u, e)'
  <2>1. ASSUME NEW y \in ResponderTasks, ctx'[y].thread = u PROVE ~ Busy(y)'
    <3>1. CASE y = x
      <4>1. u = t BY <2>1, <3>1, <1>1
      <4> QED BY <4>1, <3>1, <1>1, <1>13 DEF Startable
    <3>2. CASE y # x BY <3>2, <2>1, <1>6, <1>7, <1>13 DEF Settled, Same, Busy
    <3> QED BY <3>1, <3>2
  <2> QED BY <2>1, <1>3, <1>13 DEF Settled, Bears
<1>14. \A u \in Threads : Concluded(u) => Concluded(u)' BY <1>3 DEF Concluded
<1>17. ASSUME NEW u \in Threads, Orderly(u)' PROVE Orderly(u) /\ u \notin overlapped'
  BY <1>3, <1>5, <1>11, <1>17, OrderlyBefore DEF Orderly
<1>15. ASSUME NEW u \in Threads, Orderly(u)' PROVE DidOK(u)'
  <2>0. Orderly(u) /\ u \notin overlapped' BY <1>15, <1>17
  <2>1. x \in ResponderTasks => Op(x)' # "send" BY <1>1 DEF Startable
  <2>2. ASSUME x \in RequesterTasks, ctx'[x].thread = u, ctx'[x].did # None PROVE Settled(u, ctx[x].did)'
    <3>1. Settled(t, d)' BY <2>0, <2>2, <1>1, <1>2, <1>13, <1>15 DEF Startable
    <3> QED BY <3>1, <2>2, <1>1
  <2>3. DidNews(x, u) BY <2>0, <2>1, <2>2, <1>3, <1>13 DEF DidNews
  <2> QED BY <2>0, <2>3, <1>2, <1>3, DidStep
<1>16. ASSUME NEW u \in Threads, Orderly(u)' PROVE DoneOK(u)'
  <2>0. Orderly(u) BY <1>16, <1>17
  <2>1. x \in RequesterTasks => Op(x)' # "send" BY <1>1 DEF Startable
  <2>2. x \in ResponderTasks /\ ctx'[x].thread = u /\ Op(x)' = "finish" => Concluded(u)'
    BY <1>1, <1>14, <1>16 DEF Startable
  <2>3. DoneNews(x, u) BY <2>1, <2>2, <1>3, <1>14 DEF DoneNews
  <2> QED BY <2>0, <2>3, <1>2, <1>3, DoneStep
<1> QED BY <1>8, <1>9, <1>10, <1>12, <1>15, <1>16 DEF ExchangeInv

\* Records of a thread in the cache are those in storage.
LEMMA FoundFacts ==
  ASSUME ExchangeInv, NEW t \in Threads, NEW r \in Found(t)
  PROVE  /\ r \in Slots /\ r \in Rows /\ cache[r] # None /\ cache[r].thread = t
         /\ store[r] # None /\ store[r].thread = t /\ r \in Answered(t)
         /\ \A y \in ResponderTasks : ~ Idle(y) /\ ctx[y].row = r => ctx[y].thread = t
<1>1. r \in Slots /\ r \in Rows /\ cache[r] # None /\ cache[r].thread = t BY DEF Found, Rows
<1>2. store[r] # None /\ store[r].thread = t BY <1>1 DEF ExchangeInv, RowsOK
<1>3. r \in Answered(t) BY <1>1, <1>2 DEF Answered
<1>4. ASSUME NEW y \in ResponderTasks, ~ Idle(y), ctx[y].row = r PROVE ctx[y].thread = t
  BY <1>2, <1>4 DEF ExchangeInv, RowsOK
<1> QED BY <1>1, <1>2, <1>3, <1>4

\* accept_invitation: the thread is the record.
LEMMA AcceptedStartable ==
  ASSUME ExchangeInv, NEW x \in Tasks, Accepted(x)
  PROVE  \E t \in Threads : /\ Startable(x, <<"create", "send", "touch">>, t, t, None)
                            /\ Begun(x, <<"create", "send", "touch">>, t, t, None)
<1>1. PICK t \in Threads : Begun(x, <<"create", "send", "touch">>, t, t, None) BY DEF Accepted
<1>2. PICK p : p = <<"create", "send", "touch">> OBVIOUS
<1>3. Head(p) = "create" BY <1>2
<1>4. p \in RequesterPrograms BY <1>2, Programs, Zenon
<1>5. x \in RequesterTasks /\ x \notin ResponderTasks BY ExchangeAssumption DEF Accepted
<1>6. Startable(x, p, t, t, None) BY <1>1, <1>3, <1>4, <1>5 DEF Startable, Rows, Dids
<1> QED BY <1>1, <1>2, <1>6, Zenon

\* A metadata call: the record is in the cache.
LEMMA TouchedStartable ==
  ASSUME ExchangeInv, NEW x \in Tasks, Touched(x)
  PROVE  \E t \in Threads, r \in Rows : /\ Startable(x, <<"touch">>, t, r, None)
                                        /\ Begun(x, <<"touch">>, t, r, None)
<1>1. PICK r \in Rows : /\ cache[r] # None
                        /\ x \in RequesterTasks => r \in Threads
                        /\ x \in ResponderTasks => r \in Slots
                        /\ Begun(x, <<"touch">>, cache[r].thread, r, None)
  BY DEF Touched
<1>2. PICK p : p = <<"touch">> OBVIOUS
<1>3. Head(p) = "touch" BY <1>2
<1>4. p \in RequesterPrograms /\ p \in ResponderPrograms BY <1>2, Programs, Zenon
<1>5. PICK t : t = cache[r].thread OBVIOUS
<1>6. t \in Threads BY <1>1, <1>5 DEF ExchangeInv, Types, ConnectionRecord
<1>7. CASE x \in RequesterTasks
  <2>1. x \notin ResponderTasks BY <1>7, ExchangeAssumption
  <2>2. t = r BY <1>1, <1>5, <1>7 DEF ExchangeInv, RowsOK
  <2>3. Startable(x, p, t, r, None) BY <1>1, <1>3, <1>4, <1>6, <2>1, <2>2 DEF Startable, Dids
  <2> QED BY <1>1, <1>2, <1>5, <1>6, <2>3, Zenon
<1>8. CASE x \in ResponderTasks
  <2>1. x \notin RequesterTasks BY <1>8, ExchangeAssumption
  <2>2. r \in Found(t) BY <1>1, <1>5, <1>8 DEF Found
  <2>3. Startable(x, p, t, r, None) BY <1>1, <1>3, <1>4, <1>6, <1>8, <2>1, <2>2, FoundFacts DEF Startable, Dids
  <2> QED BY <1>1, <1>2, <1>5, <1>6, <2>3, Zenon
<1> QED BY <1>7, <1>8 DEF Tasks

\* A thread that is settled has its record in the cache.
LEMMA SettledFound ==
  ASSUME ExchangeInv, NEW t \in Threads, t \notin overlapped, NEW e, Settled(t, e)
  PROVE  /\ Found(t) # {}
         /\ \A r \in Found(t) : cache[r].state # "RequestReceived"
<1>1. PICK q \in Slots : Bears(store[q], t, e) /\ Bears(cache[q], t, e) BY DEF Settled
<1>2. q \in Found(t) BY <1>1 DEF Found, Bears
<1>3. ASSUME NEW r \in Found(t) PROVE r = q BY <1>2, <1>3, FoundFacts DEF ExchangeInv, ClaimOK
<1> QED BY <1>1, <1>2, <1>3 DEF Bears

\* A request: nobody else answers it, and no DID of its thread is settled.
LEMMA AnsweringStartable ==
  ASSUME ExchangeInv, NEW x \in Tasks, Answering(x), Stepped(x)
  PROVE  \E t \in Threads, r \in Rows : \E p : Startable(x, p, t, r, None) /\ Begun(x, p, t, r, None)
<1>1. PICK t \in Threads, r \in Slots, p \in ResponderPrograms :
        /\ Marked(x, t) /\ Begun(x, p, t, r, None)
        /\ \/ /\ Found(t) = {} /\ Head(p) = "create"
              /\ store[r] = None /\ \A y \in Tasks : ctx[y].row # r
           \/ r \in Found(t) /\ Head(p) = "respond" /\ cache[r].state = "RequestReceived"
  BY DEF Answering
<1>2. x \in ResponderTasks /\ x \notin RequesterTasks BY ExchangeAssumption DEF Answering
<1>3. r \in Rows /\ None \in Dids BY DEF Rows, Dids
<1>4. t \notin overlapped' => \A y \in ResponderTasks : ctx[y].thread = t => ~ Busy(y) BY <1>1 DEF Marked
<1>8. overlapped \subseteq overlapped' BY DEF Stepped
<1>5. t \notin overlapped' => \A e \in Dids : ~ Settled(t, e) BY <1>1, <1>8, SettledFound
<1>6. CASE /\ Found(t) = {} /\ Head(p) = "create"
           /\ store[r] = None /\ \A y \in Tasks : ctx[y].row # r
  <2>1. ASSUME t \notin overlapped', NEW q \in Answered(t) PROVE FALSE
    <3>1. cache[q] = None
      <4>1. q \in Slots /\ q \in Rows /\ store[q].thread = t BY <2>1 DEF Answered, Rows
      <4> QED BY <4>1, <1>6 DEF Found, ExchangeInv, RowsOK
    <3>2. PICK y \in ResponderTasks :
            ctx[y].thread = t /\ ctx[y].row = q /\ ~ Idle(y) /\ Op(y) = "create" /\ phase[y] = "cache"
      BY <3>1, <2>1, <1>8 DEF ExchangeInv, ClaimOK
    <3>3. y \in Tasks BY DEF Tasks
    <3>4. Busy(y) BY <3>2, <3>3, OpFacts DEF ExchangeInv
    <3> QED BY <3>2, <3>4, <2>1, <1>4
  <2>2. Startable(x, p, t, r, None) BY <1>1, <1>2, <1>3, <1>4, <1>5, <1>6, <2>1 DEF Startable, Tasks
  <2> QED BY <2>2, <1>1, <1>3
<1>7. CASE r \in Found(t) /\ Head(p) = "respond" /\ cache[r].state = "RequestReceived"
  <2>1. Startable(x, p, t, r, None) BY <1>1, <1>2, <1>3, <1>4, <1>5, <1>7, FoundFacts DEF Startable
  <2> QED BY <2>1, <1>1, <1>3
<1> QED BY <1>1, <1>6, <1>7

\* A response: its DID is settled.
LEMMA ConcludingStartable ==
  ASSUME ExchangeInv, NEW x \in Tasks, Concluding(x), Stepped(x)
  PROVE  \E t \in Threads : \E p, d : Startable(x, p, t, t, d) /\ Begun(x, p, t, t, d)
<1>1. PICK m \in sent, p \in RequesterPrograms :
        m.type = "response" /\ Head(p) = "receive" /\ Begun(x, p, m.thread, m.thread, m.did)
  BY DEF Concluding
<1>2. PICK t \in Threads, d \in Dids : t = m.thread /\ d = m.did BY DEF ExchangeInv, Types, Message
<1>3. d # None BY <1>1, <1>2 DEF ExchangeInv, Types
<1>4. ASSUME Orderly(t)' PROVE Settled(t, d)
  <2>1. UNCHANGED <<store, stale>> BY <1>1 DEF Begun, Still
  <2>2. Orderly(t) BY <2>1, <1>4, OrderlyBefore DEF Stepped, Answered
  <2> QED BY <2>2, <1>1, <1>2 DEF ExchangeInv, DidOK
<1>5. x \in RequesterTasks /\ x \notin ResponderTasks BY ExchangeAssumption DEF Concluding
<1>6. Startable(x, p, t, t, d) BY <1>1, <1>3, <1>4, <1>5 DEF Startable, Rows
<1> QED BY <1>1, <1>2, <1>6

\* A complete: the requester's record is Completed.
LEMMA FinishingStartable ==
  ASSUME ExchangeInv, NEW x \in Tasks, Finishing(x), Stepped(x)
  PROVE  \E t \in Threads, r \in Rows : /\ Startable(x, <<"finish">>, t, r, None)
                                        /\ Begun(x, <<"finish">>, t, r, None)
<1>1. PICK m \in sent : m.type = "complete" /\ \E r \in Found(m.thread) : Begun(x, <<"finish">>, m.thread, r, None)
  BY DEF Finishing
<1>2. PICK t \in Threads : t = m.thread BY DEF ExchangeInv, Types, Message
<1>3. PICK r \in Found(t) : Begun(x, <<"finish">>, t, r, None) BY <1>1, <1>2
<1>4. PICK p : p = <<"finish">> OBVIOUS
<1>5. Head(p) = "finish" BY <1>4
<1>6. p \in ResponderPrograms BY <1>4, Programs, Zenon
<1>7. ASSUME Orderly(t)' PROVE Concluded(t)
  <2>1. UNCHANGED <<store, stale>> BY <1>3 DEF Begun, Still
  <2>2. Orderly(t) BY <2>1, <1>7, OrderlyBefore DEF Stepped, Answered
  <2> QED BY <2>2, <1>1, <1>2 DEF ExchangeInv, DoneOK
<1>8. x \in ResponderTasks /\ x \notin RequesterTasks BY ExchangeAssumption DEF Finishing
<1>9. Startable(x, p, t, r, None) BY <1>5, <1>6, <1>7, <1>8, FoundFacts DEF Startable, Dids
<1>10. r \in Rows BY FoundFacts
<1> QED BY <1>3, <1>4, <1>9, <1>10, Zenon

\* Whatever a task is started for, the invariant is kept.
LEMMA StartsKeep ==
  ASSUME ExchangeInv, NEW x \in Tasks, Stepped(x),
         Accepted(x) \/ Touched(x) \/ Answering(x) \/ Concluding(x) \/ Finishing(x)
  PROVE  ExchangeInv'
<1>1. \E t \in Threads : \E p, r, d : Startable(x, p, t, r, d) /\ Begun(x, p, t, r, d)
  BY AcceptedStartable, TouchedStartable, AnsweringStartable, ConcludingStartable, FinishingStartable
<1> QED BY <1>1, BegunKeeps
-----------------------------------------------------------------------------
(* A task ends early, or works on its copy.                                *)

\* A task that gives up keeps it.
LEMMA EndedKeeps ==
  ASSUME ExchangeInv, NEW x \in Tasks, Stepped(x), Returned(x), Still, phase[x] # "cache"
  PROVE  ExchangeInv'
<1>1. /\ todo'[x] = <<>> /\ phase'[x] = "load" /\ ctx'[x] = NoContext
      /\ copy'[x] = None /\ base'[x] = None /\ UNCHANGED <<store, cache, sent, stale>>
  BY DEF Returned, Still
<1>2. Idle(x)' /\ ~ Busy(x)' BY <1>1 DEF Idle, Busy
<1>3. \A y \in Tasks : y # x => Same(y) BY DEF Stepped, Frame
<1>4. RequesterTasks \subseteq Tasks /\ ResponderTasks \subseteq Tasks BY DEF Tasks
<1>5. overlapped \subseteq overlapped' BY DEF Stepped
<1>6. \A t \in Threads : t # None BY ExchangeAssumption DEF Rows
<1>7. Types'
  <2>1. ctx'[x] \in Context BY <1>1 DEF Context, NoContext, Dids
  <2> QED BY <2>1, <1>1, TypesStep DEF ExchangeInv, Types
<1>8. \A y \in Tasks : TaskOK(y)' BY <1>1, EndedTaskOK, OtherTasksOK DEF ExchangeInv, Stepped
<1>9. RowsOK'
  <2>1. /\ \A q \in Rows : cache'[q] # None => store'[q] # None /\ cache'[q].thread = store'[q].thread
        /\ \A u \in Threads : store'[u] # None => store'[u].thread = u
    BY <1>1 DEF ExchangeInv, RowsOK
  <2>2. \A y \in Tasks : phase'[y] = "cache" => store'[ctx'[y].row] # None
    BY <1>1, <1>3 DEF ExchangeInv, RowsOK, Same
  <2>3. ASSUME NEW y \in ResponderTasks, ~ Idle(y)'
        PROVE  y # x /\ Same(y) /\ ~ Idle(y)
    BY <2>3, <1>2, <1>3, <1>4 DEF Same, Idle
  <2>4. ASSUME NEW y \in ResponderTasks, ~ Idle(y)'
        PROVE  /\ store'[ctx'[y].row] # None => store'[ctx'[y].row].thread = ctx'[y].thread
               /\ Op(y)' # "create" => cache'[ctx'[y].row] # None
    BY <2>4, <2>3, <1>1 DEF ExchangeInv, RowsOK, Same, Op
  <2>5. ASSUME NEW y \in ResponderTasks, NEW z \in ResponderTasks, ~ Idle(y)', ~ Idle(z)',
               ctx'[y].row = ctx'[z].row
        PROVE  ctx'[y].thread = ctx'[z].thread
    BY <2>5, <2>3 DEF ExchangeInv, RowsOK, Same
  <2> QED BY <2>1, <2>2, <2>4, <2>5 DEF RowsOK
<1>10. \A u \in Threads : Answered(u)' = Answered(u) BY <1>1 DEF Answered
<1>11. ASSUME NEW u \in Threads, NEW y \in Tasks, ctx'[y].thread = u PROVE y # x /\ Same(y)
  BY <1>11, <1>1, <1>3, <1>6 DEF NoContext
<1>12. ASSUME NEW u \in Threads, u \notin overlapped' PROVE ClaimOK(u)'
  <2>1. ClaimOK(u) BY <1>5, <1>12 DEF ExchangeInv
  <2>2. ASSUME NEW y \in ResponderTasks, NEW z \in ResponderTasks,
               ctx'[y].thread = u, ctx'[z].thread = u, Busy(y)', Busy(z)'
        PROVE  y = z
    BY <2>1, <2>2, <1>4, <1>11 DEF ClaimOK, Same, Busy
  <2>3. \A q, s \in Answered(u)' : q = s BY <2>1, <1>10 DEF ClaimOK
  <2>4. ASSUME NEW y \in ResponderTasks, NEW q \in Answered(u)', ctx'[y].thread = u, ~ Idle(y)', Op(y)' = "create"
        PROVE  q = ctx'[y].row
    BY <2>1, <2>4, <1>4, <1>10, <1>11 DEF ClaimOK, Same, Idle, Op
  <2>5. ASSUME NEW q \in Answered(u)', cache'[q] = None
        PROVE  \E y \in ResponderTasks :
                 ctx'[y].thread = u /\ ctx'[y].row = q /\ ~ Idle(y)' /\ Op(y)' = "create" /\ phase'[y] = "cache"
    <3>1. PICK y \in ResponderTasks :
            ctx[y].thread = u /\ ctx[y].row = q /\ ~ Idle(y) /\ Op(y) = "create" /\ phase[y] = "cache"
      BY <2>1, <2>5, <1>1, <1>10 DEF ClaimOK
    <3> QED BY <3>1, <1>3, <1>4 DEF Same, Idle, Op
  <2> QED BY <2>2, <2>3, <2>4, <2>5 DEF ClaimOK
<1>13. ASSUME NEW u \in Threads, NEW e \in Dids, Settled(u, e) PROVE Settled(u, e)'
  <2>1. ASSUME NEW y \in ResponderTasks, ctx'[y].thread = u PROVE ~ Busy(y)'
    BY <2>1, <1>4, <1>11, <1>13 DEF Settled, Same, Busy
  <2> QED BY <2>1, <1>1, <1>13 DEF Settled, Bears
<1>14. ASSUME NEW u \in Threads, Orderly(u)' PROVE DidOK(u)' /\ DoneOK(u)'
  <2>0. Orderly(u) BY <1>1, <1>5, <1>10, <1>14, OrderlyBefore
  <2>1. ctx'[x].thread # u BY <1>1, <1>6 DEF NoContext
  <2>2. DidNews(x, u) BY <2>1, <1>1, <1>13 DEF DidNews
  <2>3. DoneNews(x, u) BY <2>1, <1>1 DEF DoneNews, Concluded
  <2> QED BY <2>0, <2>2, <2>3, DidStep, DoneStep DEF Stepped
<1> QED BY <1>7, <1>8, <1>9, <1>12, <1>14 DEF ExchangeInv

\* A new copy keeps it, if its DID is settled and its completion right.
LEMMA WrittenKeeps ==
  ASSUME ExchangeInv, NEW x \in Tasks, Stepped(x), NEW c \in ConnectionRecord, NEW b \in ConnectionRecord \cup {None},
         Written(x, c, b), ~ Idle(x), phase[x] = "load", TaskOK(x)', ctx'[x] \in Context,
         Op(x) # "respond" => ctx'[x].did = ctx[x].did,
         x \in RequesterTasks /\ c.did # None /\ Orderly(ctx[x].thread) => Settled(ctx[x].thread, c.did),
         x \in ResponderTasks /\ c.state = "Completed" /\ Orderly(ctx[x].thread) => Concluded(ctx[x].thread)
  PROVE  ExchangeInv'
<1>1. /\ todo'[x] = todo[x] /\ phase'[x] = "store"
      /\ ctx'[x].thread = ctx[x].thread /\ ctx'[x].row = ctx[x].row
      /\ copy'[x] = c /\ base'[x] = b /\ UNCHANGED <<store, cache, sent, stale>>
  BY DEF Written, Still
<1>2. \A y \in Tasks : y # x => Same(y) BY DEF Stepped, Frame
<1>3. ASSUME NEW y \in Tasks
      PROVE  /\ todo'[y] = todo[y] /\ ctx'[y].thread = ctx[y].thread /\ ctx'[y].row = ctx[y].row
             /\ (Idle(y)' <=> Idle(y)) /\ Op(y)' = Op(y) /\ (Busy(y)' <=> Busy(y))
  <2>1. todo'[y] = todo[y] /\ ctx'[y].thread = ctx[y].thread /\ ctx'[y].row = ctx[y].row
    BY <1>1, <1>2 DEF Same
  <2> QED BY <2>1 DEF Idle, Op, Busy
<1>4. RequesterTasks \subseteq Tasks /\ ResponderTasks \subseteq Tasks BY DEF Tasks
<1>5. Types' BY <1>1, TypesStep DEF ExchangeInv, Types
<1>6. \A y \in Tasks : TaskOK(y)' BY OtherTasksOK DEF ExchangeInv, Stepped
<1>7. RowsOK'
  <2>1. /\ \A q \in Rows : cache'[q] # None => store'[q] # None /\ cache'[q].thread = store'[q].thread
        /\ \A u \in Threads : store'[u] # None => store'[u].thread = u
    BY <1>1 DEF ExchangeInv, RowsOK
  <2>2. \A y \in Tasks : phase'[y] = "cache" => store'[ctx'[y].row] # None
    BY <1>1, <1>2 DEF ExchangeInv, RowsOK, Same
  <2>3. ASSUME NEW y \in ResponderTasks, ~ Idle(y)'
        PROVE  /\ store'[ctx'[y].row] # None => store'[ctx'[y].row].thread = ctx'[y].thread
               /\ Op(y)' # "create" => cache'[ctx'[y].row] # None
    BY <2>3, <1>1, <1>3, <1>4 DEF ExchangeInv, RowsOK
  <2>4. ASSUME NEW y \in ResponderTasks, NEW z \in ResponderTasks, ~ Idle(y)', ~ Idle(z)',
               ctx'[y].row = ctx'[z].row
        PROVE  ctx'[y].thread = ctx'[z].thread
    BY <2>4, <1>3, <1>4 DEF ExchangeInv, RowsOK
  <2> QED BY <2>1, <2>2, <2>3, <2>4 DEF RowsOK
<1>8. \A u \in Threads : Answered(u)' = Answered(u) BY <1>1 DEF Answered
<1>13. overlapped \subseteq overlapped' BY DEF Stepped
<1>9. ASSUME NEW u \in Threads, u \notin overlapped' PROVE ClaimOK(u)'
  <2>1. ClaimOK(u) BY <1>9, <1>13 DEF ExchangeInv
  <2>2. ASSUME NEW y \in ResponderTasks, NEW z \in ResponderTasks,
               ctx'[y].thread = u, ctx'[z].thread = u, Busy(y)', Busy(z)'
        PROVE  y = z
    BY <2>1, <2>2, <1>3, <1>4 DEF ClaimOK
  <2>3. \A q, s \in Answered(u)' : q = s BY <2>1, <1>8 DEF ClaimOK
  <2>4. ASSUME NEW y \in ResponderTasks, NEW q \in Answered(u)', ctx'[y].thread = u, ~ Idle(y)', Op(y)' = "create"
        PROVE  q = ctx'[y].row
    BY <2>1, <2>4, <1>3, <1>4, <1>8 DEF ClaimOK
  <2>5. ASSUME NEW q \in Answered(u)', cache'[q] = None
        PROVE  \E y \in ResponderTasks :
                 ctx'[y].thread = u /\ ctx'[y].row = q /\ ~ Idle(y)' /\ Op(y)' = "create" /\ phase'[y] = "cache"
    <3>1. PICK y \in ResponderTasks :
            ctx[y].thread = u /\ ctx[y].row = q /\ ~ Idle(y) /\ Op(y) = "create" /\ phase[y] = "cache"
      BY <2>1, <2>5, <1>1, <1>8 DEF ClaimOK
    <3>2. Same(y) BY <3>1, <1>2, <1>4
    <3> QED BY <3>1, <3>2 DEF Same, Idle, Op
  <2> QED BY <2>2, <2>3, <2>4, <2>5 DEF ClaimOK
<1>10. ASSUME NEW u \in Threads, NEW e \in Dids, Settled(u, e) PROVE Settled(u, e)'
  <2>1. ASSUME NEW y \in ResponderTasks, ctx'[y].thread = u PROVE ~ Busy(y)'
    BY <2>1, <1>3, <1>4, <1>10 DEF Settled
  <2> QED BY <2>1, <1>1, <1>10 DEF Settled, Bears
<1>14. ASSUME NEW u \in Threads, Orderly(u)' PROVE Orderly(u)
  BY <1>1, <1>8, <1>13, <1>14, OrderlyBefore
<1>11. ASSUME NEW u \in Threads, Orderly(u)' PROVE DidOK(u)'
  <2>0. Orderly(u) BY <1>11, <1>14
  <2>1. DidOK(u) /\ ctx[x].did \in Dids BY <2>0 DEF ExchangeInv, Types, Context
  <2>2. ASSUME x \in ResponderTasks, ctx'[x].thread = u, ~ Idle(x)', Op(x)' = "send" PROVE Settled(u, ctx[x].did)'
    <3>1. PICK e : e = ctx[x].did OBVIOUS
    <3>2. e = ctx'[x].did /\ Op(x) = "send" /\ ~ Idle(x) /\ ctx[x].thread = u BY <3>1, <2>2, <1>3
    <3>3. Settled(u, e)' BY <3>1, <3>2, <2>1, <2>2, <1>10 DEF DidOK
    <3> QED BY <3>2, <3>3
  <2>3. ASSUME x \in RequesterTasks, ctx'[x].thread = u, ctx'[x].did # None PROVE Settled(u, ctx[x].did)'
    <3>1. PICK e : e = ctx[x].did OBVIOUS
    <3>2. e = ctx'[x].did
      <4>1. Op(x) # "respond" BY <2>3, OpFacts DEF ExchangeInv
      <4> QED BY <4>1, <3>1
    <3>3. Settled(u, e)' BY <3>1, <3>2, <2>1, <2>3, <1>1, <1>10 DEF DidOK
    <3> QED BY <3>2, <3>3
  <2>4. ASSUME x \in RequesterTasks, ctx'[x].thread = u, copy'[x].did # None PROVE Settled(u, copy[x].did)'
    <3>1. c.did \in Dids BY DEF ConnectionRecord
    <3>2. Settled(u, c.did)' BY <3>1, <2>0, <2>4, <1>1, <1>10
    <3> QED BY <3>2, <1>1
  <2>5. DidNews(x, u) BY <2>2, <2>3, <2>4, <1>1, <1>10 DEF DidNews
  <2> QED BY <2>0, <2>5, DidStep DEF Stepped
<1>12. ASSUME NEW u \in Threads, Orderly(u)' PROVE DoneOK(u)'
  <2>0. Orderly(u) BY <1>12, <1>14
  <2>1. DoneOK(u) /\ (Concluded(u) => Concluded(u)') BY <2>0, <1>1 DEF ExchangeInv, Concluded
  <2>2. ASSUME x \in RequesterTasks, ctx'[x].thread = u, Op(x)' = "send", ctx'[x].did # None PROVE Concluded(u)'
    <3>1. Op(x) = "send" /\ ctx[x].thread = u BY <2>2, <1>1, <1>3
    <3>2. ctx[x].did # None BY <3>1, <2>2
    <3> QED BY <3>1, <3>2, <2>1, <2>2 DEF DoneOK
  <2>3. ASSUME x \in ResponderTasks, ctx'[x].thread = u, Op(x)' = "finish" PROVE Concluded(u)'
    BY <2>1, <2>3, <1>1, <1>3 DEF DoneOK
  <2>4. ASSUME x \in ResponderTasks, ctx'[x].thread = u, copy'[x].state = "Completed" PROVE Concluded(u)'
    BY <2>0, <2>1, <2>4, <1>1
  <2>5. DoneNews(x, u) BY <2>1, <2>2, <2>3, <2>4, <1>1 DEF DoneNews
  <2> QED BY <2>0, <2>5, DoneStep DEF Stepped
<1> QED BY <1>5, <1>6, <1>7, <1>9, <1>11, <1>12 DEF ExchangeInv

\* What every new copy has in common.
LEMMA WrittenPlace ==
  ASSUME ExchangeInv, NEW x \in Tasks, NEW c \in ConnectionRecord, NEW b, Written(x, c, b), ~ Idle(x),
         Op(x) # "send", c.thread = ctx[x].thread
  PROVE  /\ PlaceOK(x)' /\ CopyOK(x)' /\ ~ Idle(x)' /\ Op(x)' = Op(x)
         /\ phase'[x] = "store" /\ copy'[x] = c /\ base'[x] = b
         /\ ctx'[x].thread = ctx[x].thread /\ ctx'[x].row = ctx[x].row
<1>1. /\ todo'[x] = todo[x] /\ phase'[x] = "store" /\ copy'[x] = c /\ base'[x] = b
      /\ ctx'[x].thread = ctx[x].thread /\ ctx'[x].row = ctx[x].row
  BY DEF Written
<1>2. ~ Idle(x)' /\ Op(x)' = Op(x) BY <1>1 DEF Idle, Op
<1>3. PlaceOK(x) /\ ctx[x].thread \in Threads BY DEF ExchangeInv, TaskOK, PlaceOK
<1>4. ctx'[x] # NoContext
  <2>1. ctx[x].thread # None BY <1>3, ExchangeAssumption DEF Rows
  <2> QED BY <2>1, <1>1 DEF NoContext
<1>5. PlaceOK(x)' BY <1>1, <1>2, <1>3, <1>4 DEF PlaceOK, Idle
<1>6. c # None BY ExchangeAssumption
<1>7. CopyOK(x)' BY <1>1, <1>2, <1>6 DEF CopyOK
<1> QED BY <1>1, <1>2, <1>5, <1>7

\* A first copy has no DID and is not Completed.
LEMMA CreateKeeps ==
  ASSUME ExchangeInv, NEW x \in Tasks, Stepped(x), Create(x)
  PROVE  ExchangeInv'
<1>1. /\ ~ Idle(x) /\ phase[x] = "load" /\ Op(x) = "create" /\ ctx'[x] = ctx[x]
      /\ \E c \in ConnectionRecord :
           /\ c.thread = ctx[x].thread /\ c.did = None
           /\ c.state = (IF x \in RequesterTasks THEN "RequestSent" ELSE "RequestReceived")
           /\ Written(x, c, None)
  BY CreateDoes DEF ExchangeInv
<1>2. PICK c \in ConnectionRecord :
        /\ c.thread = ctx[x].thread /\ c.did = None
        /\ c.state = (IF x \in RequesterTasks THEN "RequestSent" ELSE "RequestReceived")
        /\ Written(x, c, None)
  BY <1>1
<1>3. /\ PlaceOK(x)' /\ CopyOK(x)' /\ ~ Idle(x)' /\ Op(x)' = Op(x)
      /\ phase'[x] = "store" /\ copy'[x] = c /\ base'[x] = None
  BY <1>1, <1>2, WrittenPlace
<1>4. c.state # "Completed" BY <1>2
<1>5. MadeOK(x)' BY <1>1, <1>2, <1>3, <1>4 DEF MadeOK
<1>6. AnswerOK(x)' BY <1>1, <1>3 DEF AnswerOK
<1>7. x \in RequesterTasks => ConcludeOK(x)' BY <1>1, <1>3 DEF ConcludeOK, ExchangeInv, TaskOK
<1>8. TaskOK(x)' BY <1>3, <1>5, <1>6, <1>7 DEF TaskOK
<1>9. ctx'[x] \in Context BY <1>1 DEF ExchangeInv, Types
<1> QED BY <1>1, <1>2, <1>4, <1>8, <1>9, WrittenKeeps

\* A loaded copy has what the cache or the message has.
LEMMA LoadKeeps ==
  ASSUME ExchangeInv, NEW x \in Tasks, Stepped(x), Load(x)
  PROVE  ExchangeInv'
<1>1. /\ ~ Idle(x) /\ phase[x] = "load" /\ Op(x) \in Loading
      /\ \/ Returned(x) /\ Still
         \/ \E c : Loaded(x, cache[ctx[x].row], c)
  BY LoadDoes DEF ExchangeInv
<1>2. CASE Returned(x) /\ Still BY <1>1, <1>2, EndedKeeps
<1>3. CASE \E c : Loaded(x, cache[ctx[x].row], c)
  <2>1. PICK c, rec : rec = cache[ctx[x].row] /\ Loaded(x, rec, c) BY <1>3
  <2>2. /\ rec # None /\ rec \in ConnectionRecord /\ c \in ConnectionRecord /\ c.thread = rec.thread
        /\ Written(x, c, rec) /\ ctx'[x] \in Context
    BY <2>1 DEF Loaded
  <2>3. /\ x \in RequesterTasks \/ x \in ResponderTasks
        /\ ~ (x \in RequesterTasks /\ x \in ResponderTasks)
        /\ ctx[x].thread \in Threads /\ ctx[x].row \in Rows
        /\ x \in RequesterTasks => ctx[x].row = ctx[x].thread
        /\ x \in ResponderTasks => ctx[x].row \in Slots
    BY <1>1, TaskFacts DEF ExchangeInv
  <2>4. rec.thread = ctx[x].thread
    <3>1. store[ctx[x].row] # None /\ rec.thread = store[ctx[x].row].thread
      BY <2>1, <2>2, <2>3 DEF ExchangeInv, RowsOK
    <3>2. CASE x \in RequesterTasks BY <3>1, <3>2, <2>3 DEF ExchangeInv, RowsOK
    <3>3. CASE x \in ResponderTasks BY <3>1, <3>3, <1>1 DEF ExchangeInv, RowsOK
    <3> QED BY <2>3, <3>2, <3>3
  <2>5. Op(x) \in {"respond", "receive", "complete", "finish", "touch"} BY <1>1 DEF Loading
  <2>6. /\ PlaceOK(x)' /\ CopyOK(x)' /\ ~ Idle(x)' /\ Op(x)' = Op(x)
        /\ phase'[x] = "store" /\ copy'[x] = c /\ base'[x] = rec
        /\ ctx'[x].thread = ctx[x].thread
    BY <1>1, <2>2, <2>4, <2>5, WrittenPlace
  <2>7. MadeOK(x)' BY <2>1, <2>2, <2>5, <2>6 DEF MadeOK, Loaded
  <2>8. AnswerOK(x)'
    <3>1. Op(x) = "respond" => ctx'[x].did # None
      <4>1. minted + 1 # None BY ExchangeAssumption DEF ExchangeInv, Types
      <4> QED BY <4>1, <2>1 DEF Loaded
    <3> QED BY <3>1, <2>1, <2>5, <2>6 DEF AnswerOK, Loaded
  <2>9. x \in RequesterTasks => ConcludeOK(x)'
    <3> SUFFICES ASSUME x \in RequesterTasks PROVE ConcludeOK(x)' OBVIOUS
    <3>1. ConcludeOK(x) /\ Op(x) \in {"receive", "complete", "touch"}
      BY <1>1, <2>5, OpFacts DEF ExchangeInv, TaskOK
    <3>2. ctx'[x] = ctx[x] BY <3>1, <2>1 DEF Loaded
    <3> QED BY <3>1, <3>2, <2>1, <2>6 DEF ConcludeOK, Loaded
  <2>10. TaskOK(x)' BY <2>6, <2>7, <2>8, <2>9 DEF TaskOK
  <2>11. Op(x) # "respond" => ctx'[x].did = ctx[x].did BY <2>1 DEF Loaded
  <2>12. ASSUME x \in RequesterTasks, c.did # None, Orderly(ctx[x].thread) PROVE Settled(ctx[x].thread, c.did)
    <3>1. DidOK(ctx[x].thread) BY <2>3, <2>12 DEF ExchangeInv
    <3>2. CASE Op(x) = "receive"
      <4>1. c.did = ctx[x].did BY <3>2, <2>1 DEF Loaded
      <4> QED BY <4>1, <3>1, <2>12 DEF DidOK
    <3>3. CASE Op(x) # "receive"
      <4>1. c.did = cache[ctx[x].thread].did /\ cache[ctx[x].thread] # None
        BY <3>3, <2>1, <2>3, <2>12 DEF Loaded
      <4> QED BY <4>1, <3>1, <2>12 DEF DidOK
    <3> QED BY <3>2, <3>3
  <2>13. ASSUME x \in ResponderTasks, c.state = "Completed", Orderly(ctx[x].thread) PROVE Concluded(ctx[x].thread)
    <3>1. DoneOK(ctx[x].thread) BY <2>3, <2>13 DEF ExchangeInv
    <3>2. Op(x) \in {"respond", "finish", "touch"} BY <1>1, <2>5, <2>13, OpFacts DEF ExchangeInv
    <3>3. Op(x) # "respond" BY <2>1, <2>13 DEF Loaded
    <3>4. CASE Op(x) = "finish" BY <3>1, <3>4, <1>1, <2>13 DEF DoneOK
    <3>5. CASE Op(x) = "touch"
      <4>1. c = rec BY <3>5, <2>1 DEF Loaded
      <4> QED BY <4>1, <3>1, <2>1, <2>2, <2>3, <2>4, <2>13 DEF DoneOK
    <3> QED BY <3>2, <3>3, <3>4, <3>5
  <2> QED BY <1>1, <2>2, <2>10, <2>11, <2>12, <2>13, WrittenKeeps
<1> QED BY <1>1, <1>2, <1>3

\* A copy of a copy.
LEMMA RewriteKeeps ==
  ASSUME ExchangeInv, NEW x \in Tasks, Stepped(x), Rewrite(x)
  PROVE  ExchangeInv'
<1>1. /\ ~ Idle(x) /\ phase[x] = "load" /\ Op(x) \in {"adopt", "rewrite"} /\ ctx'[x] = ctx[x]
      /\ \E c \in ConnectionRecord :
           /\ copy[x] # None /\ c.thread = copy[x].thread /\ c.state = copy[x].state
           /\ Op(x) = "adopt" => c.did = ctx[x].did
           /\ Op(x) = "rewrite" => c = copy[x]
           /\ Written(x, c, copy[x])
  BY RewriteDoes DEF ExchangeInv
<1>2. PICK c \in ConnectionRecord :
        /\ copy[x] # None /\ c.thread = copy[x].thread /\ c.state = copy[x].state
        /\ Op(x) = "adopt" => c.did = ctx[x].did
        /\ Op(x) = "rewrite" => c = copy[x]
        /\ Written(x, c, copy[x])
  BY <1>1
<1>3. TaskOK(x) /\ copy[x].thread = ctx[x].thread /\ copy[x] \in ConnectionRecord \cup {None}
  BY <1>1, <1>2 DEF ExchangeInv, TaskOK, CopyOK, Types
<1>4. /\ PlaceOK(x)' /\ CopyOK(x)' /\ ~ Idle(x)' /\ Op(x)' = Op(x)
      /\ phase'[x] = "store" /\ copy'[x] = c /\ base'[x] = copy[x]
  BY <1>1, <1>2, <1>3, WrittenPlace
<1>5. MadeOK(x)' BY <1>1, <1>2, <1>4 DEF MadeOK
<1>6. x \in ResponderTasks => AnswerOK(x)' BY <1>1, <1>2, <1>3, <1>4 DEF AnswerOK, TaskOK
<1>7. x \in RequesterTasks => ConcludeOK(x)'
  <2> SUFFICES ASSUME x \in RequesterTasks PROVE ConcludeOK(x)' OBVIOUS
  <2>1. ConcludeOK(x) /\ Op(x) = "rewrite" BY <1>1, <1>3, OpFacts DEF ExchangeInv, TaskOK
  <2> QED BY <2>1, <1>1, <1>2, <1>4 DEF ConcludeOK
<1>8. TaskOK(x)' BY <1>4, <1>5, <1>6, <1>7 DEF TaskOK
<1>9. ctx'[x] \in Context /\ ctx[x].thread \in Threads BY <1>1, TaskFacts DEF ExchangeInv, Types
<1>10. ASSUME x \in RequesterTasks, c.did # None, Orderly(ctx[x].thread) PROVE Settled(ctx[x].thread, c.did)
  <2>1. Op(x) = "rewrite" BY <1>1, <1>3, <1>10, OpFacts DEF ExchangeInv
  <2> QED BY <2>1, <1>2, <1>9, <1>10 DEF ExchangeInv, DidOK
<1>11. ASSUME x \in ResponderTasks, c.state = "Completed", Orderly(ctx[x].thread) PROVE Concluded(ctx[x].thread)
  BY <1>2, <1>9, <1>11 DEF ExchangeInv, DoneOK
<1> QED BY <1>1, <1>2, <1>3, <1>8, <1>9, <1>10, <1>11, WrittenKeeps
-----------------------------------------------------------------------------
(* A copy goes to storage.                                                 *)

\* A task's record is its thread's, where there is one.
LEMMA RowFacts ==
  ASSUME ExchangeInv, NEW x \in Tasks, ~ Idle(x)
  PROVE  /\ store[ctx[x].row] # None => store[ctx[x].row].thread = ctx[x].thread
         /\ ctx[x].row \in Slots => x \in ResponderTasks
         /\ \A u \in Threads : ctx[x].row = u => x \in RequesterTasks /\ ctx[x].thread = u
<1>1. /\ x \in RequesterTasks \/ x \in ResponderTasks
      /\ ctx[x].thread \in Threads /\ ctx[x].row \in Rows
      /\ x \in RequesterTasks => ctx[x].row = ctx[x].thread /\ ctx[x].row \notin Slots
      /\ x \in ResponderTasks => ctx[x].row \in Slots /\ ctx[x].row \notin Threads
  BY TaskFacts DEF ExchangeInv
<1>2. CASE x \in RequesterTasks BY <1>1, <1>2 DEF ExchangeInv, RowsOK
<1>3. CASE x \in ResponderTasks BY <1>1, <1>3 DEF ExchangeInv, RowsOK
<1> QED BY <1>1, <1>2, <1>3

\* Storage is written with compare-and-swap, or the thread is disturbed: what is
\* settled stays, and a new record of a thread is its first.
LEMMA WriteStorageKeeps ==
  ASSUME ExchangeInv, NEW x \in Tasks, Stepped(x), WriteStorage(x)
  PROVE  ExchangeInv'
<1>1. PICK r, t : r = ctx[x].row /\ t = ctx[x].thread OBVIOUS
<1>2. /\ ~ Idle(x) /\ phase[x] = "store" /\ copy[x] # None
      /\ r \in Rows /\ copy[x].thread = t
      /\ store'[r] = copy[x] /\ \A q \in Rows : q # r => store'[q] = store[q]
      /\ UNCHANGED <<cache, sent, overlapped>>
      /\ phase'[x] = "cache"
      /\ todo'[x] = todo[x] /\ ctx'[x] = ctx[x] /\ copy'[x] = copy[x] /\ base'[x] = base[x]
      /\ stale' \subseteq Rows
      /\ r \in stale' \/ store[r] = base[x]
  BY <1>1, WriteStorageDoes DEF ExchangeInv
<1>3. /\ store[r] # None => store[r].thread = t
      /\ r \in Slots => x \in ResponderTasks
      /\ \A u \in Threads : r = u => x \in RequesterTasks /\ t = u
  BY <1>1, <1>2, RowFacts
<1>4. \A y \in Tasks : y # x => Same(y) BY DEF Stepped, Frame
<1>5. ASSUME NEW y \in Tasks
      PROVE  /\ todo'[y] = todo[y] /\ ctx'[y] = ctx[y] /\ copy'[y] = copy[y]
             /\ (Idle(y)' <=> Idle(y)) /\ Op(y)' = Op(y) /\ (Busy(y)' <=> Busy(y))
  <2>1. todo'[y] = todo[y] /\ ctx'[y] = ctx[y] /\ copy'[y] = copy[y]
    BY <1>2, <1>4 DEF Same
  <2> QED BY <2>1 DEF Idle, Op, Busy
<1>6. /\ RequesterTasks \subseteq Tasks /\ ResponderTasks \subseteq Tasks
      /\ Threads \subseteq Rows /\ Slots \subseteq Rows
  BY DEF Tasks, Rows
<1>7. Types' BY <1>2, TypesStep DEF ExchangeInv, Types
<1>8. TaskOK(x) /\ Op(x) # "send" BY <1>2 DEF ExchangeInv, TaskOK, CopyOK
<1>9. \A y \in Tasks : TaskOK(y)'
  <2>1. TaskOK(x)' BY <1>2, <1>8 DEF TaskOK, PlaceOK, CopyOK, MadeOK, AnswerOK, ConcludeOK, Op, Busy, Idle
  <2> QED BY <2>1, OtherTasksOK DEF ExchangeInv, Stepped
<1>10. RowsOK'
  <2>1. ASSUME NEW q \in Rows, cache'[q] # None PROVE store'[q] # None /\ cache'[q].thread = store'[q].thread
    <3>1. cache[q] # None /\ store[q] # None /\ cache[q].thread = store[q].thread /\ cache'[q] = cache[q]
      BY <2>1, <1>2 DEF ExchangeInv, RowsOK
    <3> QED BY <3>1, <1>2, <1>3
  <2>2. ASSUME NEW u \in Threads, store'[u] # None PROVE store'[u].thread = u
    BY <2>2, <1>2, <1>3, <1>6 DEF ExchangeInv, RowsOK
  <2>3. ASSUME NEW y \in ResponderTasks, ~ Idle(y)'
        PROVE  /\ store'[ctx'[y].row] # None => store'[ctx'[y].row].thread = ctx'[y].thread
               /\ Op(y)' # "create" => cache'[ctx'[y].row] # None
    <3>1. ctx'[y] = ctx[y] /\ ~ Idle(y) /\ Op(y)' = Op(y) /\ y \in Tasks BY <2>3, <1>5, <1>6
    <3>2. ctx[y].row \in Slots BY <3>1, TaskFacts DEF ExchangeInv
    <3>3. Op(y) # "create" => cache[ctx[y].row] # None BY <3>1 DEF ExchangeInv, RowsOK
    <3>4. CASE ctx[y].row = r
      <4>1. x \in ResponderTasks BY <3>2, <3>4, <1>3
      <4>2. ctx[y].thread = t BY <4>1, <3>1, <3>4, <1>1, <1>2 DEF ExchangeInv, RowsOK
      <4> QED BY <4>2, <3>1, <3>3, <3>4, <1>2
    <3>5. CASE ctx[y].row # r BY <3>1, <3>2, <3>3, <3>5, <1>2, <1>6 DEF ExchangeInv, RowsOK
    <3> QED BY <3>4, <3>5
  <2>4. ASSUME NEW y \in ResponderTasks, NEW z \in ResponderTasks, ~ Idle(y)', ~ Idle(z)',
               ctx'[y].row = ctx'[z].row
        PROVE  ctx'[y].thread = ctx'[z].thread
    BY <2>4, <1>5, <1>6 DEF ExchangeInv, RowsOK
  <2>5. ASSUME NEW y \in Tasks, phase'[y] = "cache" PROVE store'[ctx'[y].row] # None
    <3>1. CASE y = x BY <3>1, <1>1, <1>2
    <3>2. CASE y # x
      <4>1. phase[y] = "cache" /\ ctx'[y] = ctx[y] BY <3>2, <2>5, <1>4 DEF Same
      <4>2. ~ Idle(y) BY <4>1 DEF ExchangeInv, TaskOK, PlaceOK
      <4>3. ctx[y].row \in Rows BY <4>2, TaskFacts DEF ExchangeInv
      <4>4. store[ctx[y].row] # None BY <4>1 DEF ExchangeInv, RowsOK
      <4> QED BY <4>1, <4>3, <4>4, <1>2
    <3> QED BY <3>1, <3>2
  <2> QED BY <2>1, <2>2, <2>3, <2>4, <2>5 DEF RowsOK
<1>11. store[r] = None /\ x \in ResponderTasks => Op(x) = "create" /\ Busy(x)
  <2>1. x \in ResponderTasks /\ Op(x) # "create" => store[r] # None BY <1>1, <1>2 DEF ExchangeInv, RowsOK
  <2>2. x \in ResponderTasks /\ Op(x) = "create" => Busy(x) BY <1>2, OpFacts DEF ExchangeInv
  <2> QED BY <2>1, <2>2
<1>12. ASSUME NEW u \in Threads, NEW q \in Answered(u)'
       PROVE  q \in Answered(u) \/ (q = r /\ u = t /\ store[r] = None /\ x \in ResponderTasks)
  <2>1. q \in Slots /\ q \in Rows /\ store'[q] # None /\ store'[q].thread = u BY <1>6, <1>12 DEF Answered
  <2>2. CASE q = r BY <2>1, <2>2, <1>2, <1>3 DEF Answered
  <2>3. CASE q # r BY <2>1, <2>3, <1>2 DEF Answered
  <2> QED BY <2>2, <2>3
<1>13. ASSUME NEW u \in Threads, u \notin overlapped' PROVE ClaimOK(u)'
  <2>1. ClaimOK(u) BY <1>2, <1>13 DEF ExchangeInv
  <2>2. ASSUME NEW y \in ResponderTasks, NEW z \in ResponderTasks,
               ctx'[y].thread = u, ctx'[z].thread = u, Busy(y)', Busy(z)'
        PROVE  y = z
    BY <2>1, <2>2, <1>5, <1>6 DEF ClaimOK
  <2>3. ASSUME NEW q \in Answered(u)', NEW s \in Answered(u)' PROVE q = s
    <3>1. CASE store[r] = None /\ u = t /\ x \in ResponderTasks
      <4>1. \A z \in Answered(u) : z = r BY <3>1, <2>1, <1>1, <1>2, <1>11 DEF ClaimOK
      <4> QED BY <4>1, <2>3, <1>12
    <3>2. CASE ~ (store[r] = None /\ u = t /\ x \in ResponderTasks) BY <3>2, <2>1, <2>3, <1>12 DEF ClaimOK
    <3> QED BY <3>1, <3>2
  <2>4. ASSUME NEW y \in ResponderTasks, NEW q \in Answered(u)', ctx'[y].thread = u, ~ Idle(y)', Op(y)' = "create"
        PROVE  q = ctx'[y].row
    <3>1. y \in Tasks /\ ctx'[y] = ctx[y] /\ ctx[y].thread = u /\ ~ Idle(y) /\ Op(y) = "create" BY <2>4, <1>5, <1>6
    <3>2. CASE q \in Answered(u) BY <3>1, <3>2, <2>1, <2>4 DEF ClaimOK
    <3>3. CASE q = r /\ u = t /\ store[r] = None /\ x \in ResponderTasks
      <4>1. Busy(y) BY <3>1, <2>4, OpFacts DEF ExchangeInv
      <4>2. y = x BY <4>1, <3>1, <3>3, <2>1, <2>4, <1>1, <1>11 DEF ClaimOK
      <4> QED BY <4>2, <3>1, <3>3, <1>1
    <3> QED BY <3>2, <3>3, <1>12
  <2>5. ASSUME NEW q \in Answered(u)', cache'[q] = None
        PROVE  \E y \in ResponderTasks :
                 ctx'[y].thread = u /\ ctx'[y].row = q /\ ~ Idle(y)' /\ Op(y)' = "create" /\ phase'[y] = "cache"
    <3>1. CASE q \in Answered(u)
      <4>1. PICK y \in ResponderTasks :
              ctx[y].thread = u /\ ctx[y].row = q /\ ~ Idle(y) /\ Op(y) = "create" /\ phase[y] = "cache"
        BY <3>1, <2>1, <2>5, <1>2 DEF ClaimOK
      <4>2. y # x /\ y \in Tasks BY <4>1, <1>2, <1>6
      <4>3. Same(y) BY <4>2, <1>4
      <4> QED BY <4>1, <4>3 DEF Same, Idle, Op
    <3>2. CASE q = r /\ u = t /\ store[r] = None /\ x \in ResponderTasks
      BY <3>2, <1>1, <1>2, <1>5, <1>11
    <3> QED BY <3>1, <3>2, <1>12
  <2> QED BY <2>2, <2>3, <2>4, <2>5 DEF ClaimOK
<1>18. ASSUME NEW u \in Threads, Orderly(u)' PROVE Orderly(u)
  <2>1. Answered(u) \subseteq Answered(u)' BY <1>2, <1>3, <1>6 DEF Answered
  <2>2. stale \subseteq stale' BY DEF WriteStorage
  <2> QED BY <2>1, <2>2, <1>2, <1>18, OrderlyBefore
<1>14. ASSUME NEW u \in Threads, Orderly(u)', NEW e \in Dids, Settled(u, e) PROVE Settled(u, e)'
  <2>1. ASSUME NEW y \in ResponderTasks, ctx'[y].thread = u PROVE ~ Busy(y)'
    BY <2>1, <1>5, <1>6, <1>14 DEF Settled
  <2>2. PICK q \in Slots : Bears(store[q], u, e) /\ Bears(cache[q], u, e) BY <1>14 DEF Settled
  <2>3. CASE q # r BY <2>1, <2>2, <2>3, <1>2, <1>6 DEF Settled, Bears
  <2>4. CASE q = r
    <3>1. x \in ResponderTasks /\ t = u BY <2>2, <2>4, <1>3 DEF Bears
    <3>2. ~ Busy(x) BY <3>1, <1>1, <1>14 DEF Settled
    <3>3. Op(x) \in {"finish", "touch"} BY <3>1, <3>2, <1>2, <1>8, OpFacts DEF ExchangeInv
    <3>4. r \notin stale'
      <4>1. r \in Answered(u)' BY <3>1, <2>4, <1>2 DEF Answered
      <4> QED BY <4>1, <1>14 DEF Orderly
    <3>5. base[x] = store[r] BY <3>4, <1>2
    <3>6. /\ copy[x].did = base[x].did
          /\ Op(x) = "touch" => copy[x].state = base[x].state
          /\ Op(x) = "finish" => copy[x].state = "Completed"
      BY <3>3, <1>2, <1>8 DEF TaskOK, MadeOK
    <3>7. Bears(copy[x], u, e) BY <3>1, <3>3, <3>5, <3>6, <2>2, <2>4, <1>2 DEF Bears
    <3>8. Bears(store'[q], u, e) /\ Bears(cache'[q], u, e) BY <3>7, <2>2, <2>4, <1>2
    <3> QED BY <3>8, <2>1, <2>2 DEF Settled, Bears
  <2> QED BY <2>3, <2>4
<1>15. ASSUME NEW u \in Threads, Orderly(u)', Concluded(u) PROVE Concluded(u)'
  <2>1. CASE u # r BY <2>1, <1>2, <1>6, <1>15 DEF Concluded
  <2>2. CASE u = r
    <3>1. x \in RequesterTasks BY <2>2, <1>3
    <3>2. base[x] = store[u] BY <2>2, <1>2, <1>15 DEF Orderly
    <3>3. base[x] # None /\ base[x].state = "Completed" BY <3>2, <1>15 DEF Concluded
    <3>4. Op(x) \in {"rewrite", "touch"} BY <3>1, <3>3, <1>2, <1>8, OpFacts DEF ExchangeInv, TaskOK, MadeOK
    <3>5. copy[x].state = "Completed" BY <3>3, <3>4, <1>2, <1>8 DEF TaskOK, MadeOK
    <3> QED BY <3>5, <2>2, <1>2 DEF Concluded
  <2> QED BY <2>1, <2>2
<1>16. ASSUME NEW u \in Threads, Orderly(u)' PROVE DidOK(u)'
  <2>0. Orderly(u) BY <1>16, <1>18
  <2>1. DidOK(u) /\ ctx[x].did \in Dids BY <2>0 DEF ExchangeInv, Types, Context
  <2>2. ASSUME x \in ResponderTasks, ctx'[x].thread = u, ~ Idle(x)', Op(x)' = "send" PROVE Settled(u, ctx[x].did)'
    BY <2>2, <1>5, <1>8
  <2>3. ASSUME x \in RequesterTasks, ctx'[x].thread = u, ctx'[x].did # None PROVE Settled(u, ctx[x].did)'
    <3>1. PICK e : e = ctx[x].did OBVIOUS
    <3>2. Settled(u, e)' BY <3>1, <2>1, <2>3, <1>2, <1>14, <1>16 DEF DidOK
    <3> QED BY <3>1, <3>2, <1>2
  <2>4. ASSUME x \in RequesterTasks, ctx[x].thread = u, copy[x].did # None
        PROVE  \E e : e = copy[x].did /\ Settled(u, e)'
    <3>1. PICK e : e = copy[x].did OBVIOUS
    <3>2. e \in Dids BY <3>1, <1>2 DEF ExchangeInv, Types, ConnectionRecord
    <3>3. Settled(u, e)' BY <3>1, <3>2, <2>1, <2>4, <1>2, <1>14, <1>16 DEF DidOK
    <3> QED BY <3>1, <3>3
  <2>5. ASSUME x \in RequesterTasks, ctx'[x].thread = u, copy'[x].did # None PROVE Settled(u, copy[x].did)'
    BY <2>4, <2>5, <1>2
  <2>6. ASSUME store'[u] # store[u], store'[u].did # None PROVE Settled(u, store[u].did)'
    <3>1. u = r BY <2>6, <1>2, <1>6
    <3>2. x \in RequesterTasks /\ ctx[x].thread = u /\ store'[u] = copy[x] BY <3>1, <1>1, <1>2, <1>3
    <3> QED BY <3>2, <2>4, <2>6
  <2>7. DidNews(x, u) BY <2>2, <2>3, <2>5, <2>6, <1>2, <1>14, <1>16 DEF DidNews
  <2> QED BY <2>0, <2>7, DidStep DEF Stepped
<1>17. ASSUME NEW u \in Threads, Orderly(u)' PROVE DoneOK(u)'
  <2>0. Orderly(u) BY <1>17, <1>18
  <2>1. DoneOK(u) /\ (Concluded(u) => Concluded(u)') BY <2>0, <1>15, <1>17 DEF ExchangeInv
  <2>2. Op(x)' # "send" BY <1>5, <1>8
  <2>3. ASSUME x \in ResponderTasks, ctx'[x].thread = u, Op(x)' = "finish" PROVE Concluded(u)'
    BY <2>1, <2>3, <1>2, <1>5 DEF DoneOK
  <2>4. ASSUME x \in ResponderTasks, ctx'[x].thread = u, copy'[x].state = "Completed" PROVE Concluded(u)'
    BY <2>1, <2>4, <1>2 DEF DoneOK
  <2>5. ASSUME NEW q \in Slots, store'[q] # store[q], store'[q].thread = u, store'[q].state = "Completed"
        PROVE  Concluded(u)'
    <3>1. q = r BY <2>5, <1>2, <1>6
    <3>2. x \in ResponderTasks /\ t = u /\ copy[x].state = "Completed" BY <3>1, <2>5, <1>2, <1>3
    <3> QED BY <3>2, <2>1, <1>1, <1>2 DEF DoneOK
  <2>6. DoneNews(x, u) BY <2>1, <2>2, <2>3, <2>4, <2>5, <1>2 DEF DoneNews
  <2> QED BY <2>0, <2>6, DoneStep DEF Stepped
<1> QED BY <1>7, <1>9, <1>10, <1>13, <1>16, <1>17 DEF ExchangeInv
-----------------------------------------------------------------------------
(* A task goes on: its copy goes to the cache, or its message leaves.      *)

\* No task gets more to do, and what it goes on with is what it had.
LEMMA AdvancedFacts ==
  ASSUME ExchangeInv, NEW x \in Tasks, ~ Idle(x), Advanced(x), NEW y \in Tasks
  PROVE  /\ ~ Idle(y)' => /\ ~ Idle(y) /\ ctx'[y] = ctx[y] /\ copy'[y] = copy[y]
                          /\ y # x => Op(y)' = Op(y)
                          /\ y = x => Busy(x) /\ todo'[x] = Tail(todo[x]) /\ phase'[x] = "load"
         /\ Busy(y)' => Busy(y) /\ ctx'[y] = ctx[y]
         /\ Idle(y)' => ctx'[y].thread = None /\ ctx'[y].did = None /\ copy'[y] = None
         /\ y # x => Same(y)
<1>1. CASE y # x
  <2>1. Same(y) BY <1>1 DEF Advanced, Frame
  <2>2. Idle(y) => ctx[y] = NoContext /\ copy[y] = None BY DEF ExchangeInv, TaskOK, PlaceOK
  <2> QED BY <1>1, <2>1, <2>2 DEF Same, Idle, Busy, Op, NoContext
<1>2. CASE y = x /\ ~ Busy(x)
  <2>1. Returned(x) BY <1>2 DEF Advanced
  <2> QED BY <1>2, <2>1 DEF Returned, Idle, Busy, NoContext
<1>3. CASE y = x /\ Busy(x)
  <2>1. todo'[x] = Tail(todo[x]) /\ phase'[x] = "load" /\ ctx'[x] = ctx[x] /\ copy'[x] = copy[x]
    BY <1>3 DEF Advanced
  <2>2. ~ Idle(x)' BY <2>1, <1>3, NextOpFacts DEF ExchangeInv
  <2> QED BY <1>3, <2>1, <2>2
<1> QED BY <1>1, <1>2, <1>3

\* The next operation finds what the last one left.
LEMMA AdvancedTask ==
  ASSUME ExchangeInv, NEW x \in Tasks, ~ Idle(x), Advanced(x),
         phase[x] = "cache" \/ (phase[x] = "load" /\ Op(x) = "send")
  PROVE  /\ TaskOK(x)' /\ todo'[x] \in RequesterPrograms \cup ResponderPrograms \cup {<<>>}
         /\ phase'[x] = "load" /\ ctx'[x] \in Context
         /\ copy'[x] \in ConnectionRecord \cup {None} /\ base'[x] \in ConnectionRecord \cup {None}
<1>1. CASE ~ Busy(x)
  <2>1. Returned(x) BY <1>1 DEF Advanced
  <2>2. ctx'[x] \in Context BY <2>1 DEF Returned, Context, NoContext, Dids
  <2> QED BY <2>1, <2>2, EndedTaskOK DEF Returned
<1>2. CASE Busy(x)
  <2>1. /\ todo'[x] = Tail(todo[x]) /\ phase'[x] = "load" /\ ctx'[x] = ctx[x]
        /\ copy'[x] = copy[x] /\ base'[x] = base[x]
    BY <1>2 DEF Advanced
  <2>2. TaskOK(x) /\ PlaceOK(x) /\ CopyOK(x) /\ ~ (x \in RequesterTasks /\ x \in ResponderTasks)
    BY TaskFacts DEF ExchangeInv, TaskOK
  <2>3. /\ ctx'[x] \in Context
        /\ copy'[x] \in ConnectionRecord \cup {None} /\ base'[x] \in ConnectionRecord \cup {None}
    BY <2>1 DEF ExchangeInv, Types
  <2>4. phase[x] = "cache" => Op(x) # "send" /\ copy[x] # None BY <2>2 DEF CopyOK
  <2>5. CASE x \in ResponderTasks
    <3>1. AnswerOK(x) /\ Op(x) \in {"create", "respond", "adopt", "rewrite"} /\ phase[x] = "cache"
      BY <1>2, <2>2, <2>5, OpFacts DEF ExchangeInv, TaskOK
    <3>2. /\ ~ Idle(x)' /\ todo'[x] \in ResponderPrograms
          /\ Op(x) = "create" => Op(x)' = "respond"
          /\ Op(x) = "respond" => Op(x)' = "adopt"
          /\ Op(x) = "adopt" => Op(x)' \in {"rewrite", "send"}
          /\ Op(x) = "rewrite" => Op(x)' = "send"
      BY <1>2, <2>1, <2>2, <2>5, NextOpFacts DEF ExchangeInv
    <3>3. PlaceOK(x)' BY <3>2, <2>1, <2>2, <2>5 DEF PlaceOK, Idle
    <3>4. CopyOK(x)' /\ MadeOK(x)' BY <3>1, <2>1, <2>2, <2>4 DEF CopyOK, MadeOK
    <3>5. AnswerOK(x)' BY <3>1, <3>2, <2>1 DEF AnswerOK
    <3> QED BY <3>2, <3>3, <3>4, <3>5, <2>1, <2>2, <2>3, <2>5 DEF TaskOK
  <2>6. CASE x \in RequesterTasks
    <3>1. ConcludeOK(x) /\ Op(x) \in {"create", "send", "receive", "rewrite", "complete"}
      BY <1>2, <2>2, <2>6, OpFacts DEF ExchangeInv, TaskOK
    <3>2. /\ ~ Idle(x)' /\ todo'[x] \in RequesterPrograms
          /\ Op(x) = "create" => Op(x)' = "send" /\ Busy(x)'
          /\ Op(x) = "send" => Op(x)' = "touch"
          /\ Op(x) = "receive" => Op(x)' \in {"rewrite", "complete"}
          /\ Op(x) = "rewrite" => Op(x)' = "complete"
          /\ Op(x) = "complete" => Op(x)' = "send" /\ ~ Busy(x)'
      BY <1>2, <2>1, <2>2, <2>6, NextOpFacts DEF ExchangeInv
    <3>3. PlaceOK(x)' BY <3>2, <2>1, <2>2, <2>6 DEF PlaceOK, Idle
    <3>4. CopyOK(x)' /\ MadeOK(x)' BY <3>1, <3>2, <2>1, <2>2, <2>4 DEF CopyOK, MadeOK
    <3>5. ConcludeOK(x)' BY <3>1, <3>2, <2>1, <1>2 DEF ConcludeOK
    <3> QED BY <3>2, <3>3, <3>4, <3>5, <2>1, <2>2, <2>3, <2>6 DEF TaskOK
  <2> QED BY <2>5, <2>6 DEF Tasks
<1> QED BY <1>1, <1>2

\* An operation that comes next is not the first of a program.
LEMMA AdvancedOp ==
  ASSUME ExchangeInv, NEW x \in Tasks, ~ Idle(x), Advanced(x), ~ Idle(x)'
  PROVE  /\ x \in ResponderTasks => Op(x)' \notin {"create", "finish"}
         /\ x \in ResponderTasks /\ Op(x)' = "send" => Op(x) \in {"adopt", "rewrite"} /\ ~ Busy(x)'
         /\ x \in RequesterTasks /\ Op(x)' = "send" => Op(x) \in {"create", "complete"}
<1>1. Busy(x) /\ todo'[x] = Tail(todo[x]) BY AdvancedFacts
<1>2. CASE x \in ResponderTasks
  <2>1. Op(x) \in {"create", "respond", "adopt", "rewrite"} BY <1>1, <1>2, OpFacts DEF ExchangeInv
  <2>2. x \notin RequesterTasks BY <1>2, TaskFacts DEF ExchangeInv
  <2> QED BY <1>1, <1>2, <2>1, <2>2, NextOpFacts DEF ExchangeInv
<1>3. CASE x \in RequesterTasks
  <2>1. Op(x) \in {"create", "send", "receive", "rewrite", "complete"} BY <1>1, <1>3, OpFacts DEF ExchangeInv
  <2>2. x \notin ResponderTasks BY <1>3, TaskFacts DEF ExchangeInv
  <2> QED BY <1>1, <1>3, <2>1, <2>2, NextOpFacts DEF ExchangeInv
<1> QED BY <1>2, <1>3 DEF Tasks

\* The cache gets what storage has, or the thread is disturbed: when the answer
\* is cached its DID is settled, when the completion is it is concluded.
LEMMA WriteCacheKeeps ==
  ASSUME ExchangeInv, NEW x \in Tasks, Stepped(x), WriteCache(x)
  PROVE  ExchangeInv'
<1>1. PICK r, t : r = ctx[x].row /\ t = ctx[x].thread OBVIOUS
<1>2. /\ ~ Idle(x) /\ phase[x] = "cache" /\ copy[x] # None
      /\ r \in Rows /\ copy[x].thread = t
      /\ cache'[r] = copy[x] /\ \A q \in Rows : q # r => cache'[q] = cache[q]
      /\ UNCHANGED <<store, sent, overlapped>>
      /\ Advanced(x)
      /\ stale' \subseteq Rows
      /\ r \in stale' \/ store[r] = copy[x]
  BY <1>1, WriteCacheDoes DEF ExchangeInv
<1>3. /\ store[r] # None /\ store[r].thread = t
      /\ r \in Slots => x \in ResponderTasks
      /\ \A u \in Threads : r = u => x \in RequesterTasks /\ t = u
  BY <1>1, <1>2, RowFacts DEF ExchangeInv, RowsOK
<1>4. \A y \in Tasks :
        /\ ~ Idle(y)' => /\ ~ Idle(y) /\ ctx'[y] = ctx[y] /\ copy'[y] = copy[y]
                         /\ y # x => Op(y)' = Op(y)
        /\ Busy(y)' => Busy(y) /\ ctx'[y] = ctx[y]
        /\ Idle(y)' => ctx'[y].thread = None /\ ctx'[y].did = None /\ copy'[y] = None
        /\ y # x => Same(y)
  BY <1>2, AdvancedFacts
<1>5. /\ RequesterTasks \subseteq Tasks /\ ResponderTasks \subseteq Tasks
      /\ Threads \subseteq Rows /\ Slots \subseteq Rows
  BY DEF Tasks, Rows
<1>6. /\ TaskOK(x)' /\ todo'[x] \in RequesterPrograms \cup ResponderPrograms \cup {<<>>}
      /\ phase'[x] = "load" /\ ctx'[x] \in Context
      /\ copy'[x] \in ConnectionRecord \cup {None} /\ base'[x] \in ConnectionRecord \cup {None}
  BY <1>2, AdvancedTask
<1>7. Types' BY <1>2, <1>6, TypesStep DEF ExchangeInv, Types
<1>8. \A y \in Tasks : TaskOK(y)' BY <1>6, OtherTasksOK DEF ExchangeInv, Stepped
<1>9. /\ ~ Idle(x)' /\ x \in ResponderTasks => Op(x)' \notin {"create", "finish"}
      /\ ~ Idle(x)' /\ x \in ResponderTasks /\ Op(x)' = "send" => Op(x) \in {"adopt", "rewrite"} /\ ~ Busy(x)'
      /\ ~ Idle(x)' /\ x \in RequesterTasks /\ Op(x)' = "send" => Op(x) \in {"create", "complete"}
  BY <1>2, AdvancedOp
<1>10. RowsOK'
  <2>1. ASSUME NEW q \in Rows, cache'[q] # None PROVE store'[q] # None /\ cache'[q].thread = store'[q].thread
    <3>1. CASE q = r BY <3>1, <1>2, <1>3
    <3>2. CASE q # r BY <3>2, <2>1, <1>2 DEF ExchangeInv, RowsOK
    <3> QED BY <3>1, <3>2
  <2>2. \A u \in Threads : store'[u] # None => store'[u].thread = u BY <1>2 DEF ExchangeInv, RowsOK
  <2>3. ASSUME NEW y \in ResponderTasks, ~ Idle(y)'
        PROVE  /\ store'[ctx'[y].row] # None => store'[ctx'[y].row].thread = ctx'[y].thread
               /\ Op(y)' # "create" => cache'[ctx'[y].row] # None
    <3>1. ctx'[y] = ctx[y] /\ ~ Idle(y) /\ y \in Tasks /\ (y # x => Op(y)' = Op(y)) BY <2>3, <1>4, <1>5
    <3>2. store'[ctx'[y].row] # None => store'[ctx'[y].row].thread = ctx'[y].thread
      BY <3>1, <1>2 DEF ExchangeInv, RowsOK
    <3>3. ctx[y].row \in Rows BY <3>1, TaskFacts DEF ExchangeInv
    <3>4. CASE ctx[y].row = r BY <3>1, <3>2, <3>4, <1>2
    <3>5. CASE ctx[y].row # r
      <4>1. y # x BY <3>5, <1>1
      <4> QED BY <4>1, <3>1, <3>2, <3>3, <3>5, <1>2 DEF ExchangeInv, RowsOK
    <3> QED BY <3>4, <3>5
  <2>4. ASSUME NEW y \in ResponderTasks, NEW z \in ResponderTasks, ~ Idle(y)', ~ Idle(z)',
               ctx'[y].row = ctx'[z].row
        PROVE  ctx'[y].thread = ctx'[z].thread
    <3>1. ctx'[y] = ctx[y] /\ ~ Idle(y) /\ ctx'[z] = ctx[z] /\ ~ Idle(z) BY <2>4, <1>4, <1>5
    <3> QED BY <3>1, <2>4 DEF ExchangeInv, RowsOK
  <2>5. ASSUME NEW y \in Tasks, phase'[y] = "cache" PROVE store'[ctx'[y].row] # None
    <3>1. y # x BY <2>5, <1>6
    <3>2. Same(y) BY <3>1, <1>4
    <3> QED BY <3>2, <2>5, <1>2 DEF Same, ExchangeInv, RowsOK
  <2> QED BY <2>1, <2>2, <2>3, <2>4, <2>5 DEF RowsOK
<1>11. \A u \in Threads : Answered(u)' = Answered(u) BY <1>2 DEF Answered
<1>12. ASSUME NEW u \in Threads, u \notin overlapped' PROVE ClaimOK(u)'
  <2>1. ClaimOK(u) BY <1>2, <1>12 DEF ExchangeInv
  <2>2. ASSUME NEW y \in ResponderTasks, NEW z \in ResponderTasks,
               ctx'[y].thread = u, ctx'[z].thread = u, Busy(y)', Busy(z)'
        PROVE  y = z
    <3>1. Busy(y) /\ ctx'[y] = ctx[y] /\ Busy(z) /\ ctx'[z] = ctx[z] BY <2>2, <1>4, <1>5
    <3> QED BY <3>1, <2>1, <2>2 DEF ClaimOK
  <2>3. \A q, s \in Answered(u)' : q = s BY <2>1, <1>11 DEF ClaimOK
  <2>4. ASSUME NEW y \in ResponderTasks, NEW q \in Answered(u)', ctx'[y].thread = u, ~ Idle(y)', Op(y)' = "create"
        PROVE  q = ctx'[y].row
    <3>1. y # x BY <2>4, <1>9
    <3>2. ctx'[y] = ctx[y] /\ ~ Idle(y) /\ Op(y) = "create" BY <3>1, <2>4, <1>4, <1>5
    <3> QED BY <3>2, <2>1, <2>4, <1>11 DEF ClaimOK
  <2>5. ASSUME NEW q \in Answered(u)', cache'[q] = None
        PROVE  \E y \in ResponderTasks :
                 ctx'[y].thread = u /\ ctx'[y].row = q /\ ~ Idle(y)' /\ Op(y)' = "create" /\ phase'[y] = "cache"
    <3>1. q # r /\ q \in Answered(u) /\ q \in Rows BY <2>5, <1>2, <1>5, <1>11 DEF Answered
    <3>2. PICK y \in ResponderTasks :
            ctx[y].thread = u /\ ctx[y].row = q /\ ~ Idle(y) /\ Op(y) = "create" /\ phase[y] = "cache"
      BY <3>1, <2>1, <2>5, <1>2 DEF ClaimOK
    <3>3. y # x BY <3>1, <3>2, <1>1
    <3>4. Same(y) BY <3>3, <1>4, <1>5
    <3> QED BY <3>2, <3>4 DEF Same, Idle, Op
  <2> QED BY <2>2, <2>3, <2>4, <2>5 DEF ClaimOK
<1>18. ASSUME NEW u \in Threads, Orderly(u)' PROVE Orderly(u) /\ u \notin overlapped
  <2>1. stale \subseteq stale' BY DEF WriteCache
  <2> QED BY <2>1, <1>2, <1>11, <1>18, OrderlyBefore
<1>13. ASSUME NEW u \in Threads, Orderly(u)', t = u PROVE store[r] = copy[x]
  <2>1. CASE r \in Slots
    <3>1. r \in Answered(u)' BY <2>1, <1>2, <1>3, <1>13 DEF Answered
    <3> QED BY <3>1, <1>2, <1>13 DEF Orderly
  <2>2. CASE r \in Threads
    <3>1. r = u BY <2>2, <1>3, <1>13
    <3> QED BY <3>1, <1>2, <1>13 DEF Orderly
  <2> QED BY <2>1, <2>2, <1>2 DEF Rows
<1>14. ASSUME NEW u \in Threads, Orderly(u)', NEW e \in Dids, Settled(u, e) PROVE Settled(u, e)'
  <2>1. ASSUME NEW y \in ResponderTasks, ctx'[y].thread = u PROVE ~ Busy(y)'
    BY <2>1, <1>4, <1>5, <1>14 DEF Settled
  <2>2. PICK q \in Slots : Bears(store[q], u, e) /\ Bears(cache[q], u, e) BY <1>14 DEF Settled
  <2>3. Bears(store'[q], u, e) BY <2>2, <1>2
  <2>4. Bears(cache'[q], u, e)
    <3>1. CASE q = r
      <4>1. t = u BY <3>1, <2>2, <1>3 DEF Bears
      <4> QED BY <4>1, <3>1, <2>2, <1>2, <1>13, <1>14
    <3>2. CASE q # r BY <3>2, <2>2, <1>2, <1>5
    <3> QED BY <3>1, <3>2
  <2> QED BY <2>1, <2>3, <2>4 DEF Settled, Bears
<1>15. \A u \in Threads : Concluded(u) => Concluded(u)' BY <1>2 DEF Concluded
<1>16. ASSUME NEW u \in Threads, Orderly(u)' PROVE DidOK(u)'
  <2>0. u # None BY ExchangeAssumption DEF Rows
  <2>8. Orderly(u) /\ u \notin overlapped BY <1>16, <1>18
  <2>1. DidOK(u) /\ ctx[x].did \in Dids BY <2>8 DEF ExchangeInv, Types, Context
  <2>2. ASSUME x \in ResponderTasks, ctx'[x].thread = u, ~ Idle(x)', Op(x)' = "send" PROVE Settled(u, ctx[x].did)'
    <3>1. ctx'[x] = ctx[x] /\ t = u /\ r \in Slots BY <2>2, <1>1, <1>2, <1>4, TaskFacts DEF ExchangeInv
    <3>2. Op(x) \in {"adopt", "rewrite"} /\ ~ Busy(x)' BY <2>2, <1>9
    <3>3. Busy(x) BY <3>2, <2>2, <1>2, OpFacts DEF ExchangeInv
    <3>4. ASSUME NEW y \in ResponderTasks, ctx'[y].thread = u PROVE ~ Busy(y)'
      <4>1. CASE y = x BY <4>1, <3>2
      <4>2. CASE y # x BY <4>2, <3>1, <3>3, <3>4, <2>2, <2>8, <1>1, <1>4, <1>5 DEF ExchangeInv, ClaimOK
      <4> QED BY <4>1, <4>2
    <3>5. PICK e : e = ctx[x].did OBVIOUS
    <3>6. AnswerOK(x) BY <2>2, <1>2 DEF ExchangeInv, TaskOK
    <3>7. copy[x].state = "ResponseSent" /\ copy[x].did = e BY <3>2, <3>5, <3>6, <1>2 DEF AnswerOK
    <3>8. Bears(copy[x], u, e) BY <3>1, <3>7, <1>2 DEF Bears
    <3>9. store[r] = copy[x] BY <3>1, <1>13, <1>16
    <3>10. Bears(store'[r], u, e) /\ Bears(cache'[r], u, e) BY <3>8, <3>9, <1>2
    <3>11. Settled(u, e)' BY <3>1, <3>4, <3>10 DEF Settled, Bears
    <3> QED BY <3>1, <3>5, <3>11
  <2>3. ASSUME x \in RequesterTasks, ctx'[x].thread = u, ctx'[x].did # None PROVE Settled(u, ctx[x].did)'
    <3>1. ctx'[x] = ctx[x] BY <2>0, <2>3, <1>4
    <3>2. PICK e : e = ctx[x].did OBVIOUS
    <3>3. Settled(u, e)' BY <3>1, <3>2, <2>1, <2>3, <1>14, <1>16 DEF DidOK
    <3> QED BY <3>1, <3>2, <3>3
  <2>4. ASSUME x \in RequesterTasks, ctx[x].thread = u, copy[x].did # None
        PROVE  \E e : e = copy[x].did /\ Settled(u, e)'
    <3>1. PICK e : e = copy[x].did OBVIOUS
    <3>2. e \in Dids BY <3>1, <1>2 DEF ExchangeInv, Types, ConnectionRecord
    <3>3. Settled(u, e)' BY <3>1, <3>2, <2>1, <2>4, <1>2, <1>14, <1>16 DEF DidOK
    <3> QED BY <3>1, <3>3
  <2>5. ASSUME x \in RequesterTasks, ctx'[x].thread = u, copy'[x] # None, copy'[x].did # None
        PROVE  Settled(u, copy[x].did)'
    BY <2>0, <2>4, <2>5, <1>4
  <2>6. ASSUME cache'[u] # cache[u], cache'[u].did # None PROVE Settled(u, cache[u].did)'
    <3>1. u = r BY <2>6, <1>2, <1>5
    <3>2. x \in RequesterTasks /\ ctx[x].thread = u /\ cache'[u] = copy[x] BY <3>1, <1>1, <1>2, <1>3
    <3> QED BY <3>2, <2>4, <2>6
  <2>7. DidNews(x, u) BY <2>2, <2>3, <2>5, <2>6, <1>2, <1>14, <1>16 DEF DidNews
  <2> QED BY <2>7, <2>8, DidStep DEF Stepped
<1>17. ASSUME NEW u \in Threads, Orderly(u)' PROVE DoneOK(u)'
  <2>0. u # None BY ExchangeAssumption DEF Rows
  <2>7. Orderly(u) BY <1>17, <1>18
  <2>1. DoneOK(u) /\ (Concluded(u) => Concluded(u)') BY <2>7, <1>15 DEF ExchangeInv
  <2>2. ASSUME x \in RequesterTasks, ctx'[x].thread = u, ~ Idle(x)', Op(x)' = "send", ctx'[x].did # None
        PROVE  Concluded(u)'
    <3>1. ctx'[x] = ctx[x] /\ t = u /\ r = u BY <2>2, <1>1, <1>2, <1>4, TaskFacts DEF ExchangeInv
    <3>2. Op(x) \in {"create", "complete"} /\ ConcludeOK(x) BY <2>2, <1>2, <1>9 DEF ExchangeInv, TaskOK
    <3>3. copy[x].state = "Completed" BY <3>1, <3>2, <2>2, <1>2 DEF ConcludeOK
    <3>4. store[u] = copy[x] BY <3>1, <1>13, <1>17
    <3> QED BY <3>3, <3>4, <1>2 DEF Concluded
  <2>3. ~ Idle(x)' /\ x \in ResponderTasks => Op(x)' # "finish" BY <1>9
  <2>4. ASSUME x \in ResponderTasks, ctx'[x].thread = u, copy'[x] # None, copy'[x].state = "Completed"
        PROVE  Concluded(u)'
    BY <2>0, <2>1, <2>4, <1>4 DEF DoneOK
  <2>5. ASSUME NEW q \in Slots, cache'[q] # cache[q], cache'[q].thread = u, cache'[q].state = "Completed"
        PROVE  Concluded(u)'
    <3>1. q = r BY <2>5, <1>2, <1>5
    <3>2. x \in ResponderTasks /\ t = u /\ copy[x].state = "Completed" BY <3>1, <2>5, <1>2, <1>3
    <3> QED BY <3>2, <2>1, <1>1, <1>2 DEF DoneOK
  <2>6. DoneNews(x, u) BY <2>1, <2>2, <2>3, <2>4, <2>5, <1>2 DEF DoneNews
  <2> QED BY <2>6, <2>7, DoneStep DEF Stepped
<1> QED BY <1>7, <1>8, <1>10, <1>12, <1>16, <1>17 DEF ExchangeInv

\* A response has a settled DID, a complete follows the conclusion.
LEMMA SendKeeps ==
  ASSUME ExchangeInv, NEW x \in Tasks, Stepped(x), Send(x)
  PROVE  ExchangeInv'
<1>1. /\ ~ Idle(x) /\ phase[x] = "load" /\ Op(x) = "send"
      /\ sent' = sent \cup {Outbound(x)} /\ Outbound(x) \in Message
      /\ UNCHANGED <<store, cache, stale, overlapped>>
      /\ Advanced(x)
  BY SendDoes DEF ExchangeInv
<1>2. \A y \in Tasks :
        /\ ~ Idle(y)' => /\ ~ Idle(y) /\ ctx'[y] = ctx[y] /\ copy'[y] = copy[y]
                         /\ y # x => Op(y)' = Op(y)
        /\ Busy(y)' => Busy(y) /\ ctx'[y] = ctx[y]
        /\ Idle(y)' => ctx'[y].thread = None /\ ctx'[y].did = None /\ copy'[y] = None
        /\ y # x => Same(y)
  BY <1>1, AdvancedFacts
<1>3. RequesterTasks \subseteq Tasks /\ ResponderTasks \subseteq Tasks BY DEF Tasks
<1>4. /\ TaskOK(x)' /\ todo'[x] \in RequesterPrograms \cup ResponderPrograms \cup {<<>>}
      /\ phase'[x] = "load" /\ ctx'[x] \in Context
      /\ copy'[x] \in ConnectionRecord \cup {None} /\ base'[x] \in ConnectionRecord \cup {None}
  BY <1>1, AdvancedTask
<1>5. /\ x \in ResponderTasks => Idle(x)'
      /\ x \in RequesterTasks /\ ~ Idle(x)' => Op(x)' # "send"
  <2>1. x \in ResponderTasks => ~ Busy(x) BY <1>1, OpFacts DEF ExchangeInv
  <2>2. ~ Idle(x)' => Busy(x) BY <1>1, AdvancedFacts
  <2>3. x \in RequesterTasks /\ ~ Idle(x)' /\ Op(x)' = "send" => Op(x) \in {"create", "complete"}
    BY <1>1, AdvancedOp
  <2> QED BY <2>1, <2>2, <2>3, <1>1
<1>6. PICK m : m = Outbound(x) OBVIOUS
<1>7. /\ m \in Message /\ m.thread = ctx[x].thread
      /\ x \in ResponderTasks => m.type = "response" /\ m.did = ctx[x].did /\ m.did # None
      /\ x \in RequesterTasks => m.type # "response"
      /\ x \in RequesterTasks /\ m.type = "complete" => ctx[x].did # None
      /\ ctx[x].thread \in Threads
  <2>1. x \in ResponderTasks => ctx[x].did # None BY <1>1 DEF ExchangeInv, TaskOK, AnswerOK
  <2>2. ~ (x \in RequesterTasks /\ x \in ResponderTasks) /\ ctx[x].thread \in Threads
    BY <1>1, TaskFacts DEF ExchangeInv
  <2> QED BY <2>1, <2>2, <1>1, <1>6 DEF Outbound, Request, Response, Complete
<1>8. Types'
  <2>1. sent' \subseteq Message BY <1>1 DEF ExchangeInv, Types
  <2>2. \A n \in sent' : n.type = "response" => n.did # None BY <1>1, <1>6, <1>7 DEF ExchangeInv, Types, Tasks
  <2> QED BY <2>1, <2>2, <1>1, <1>4, TypesStep DEF ExchangeInv, Types
<1>9. \A y \in Tasks : TaskOK(y)' BY <1>4, OtherTasksOK DEF ExchangeInv, Stepped
<1>10. RowsOK'
  <2>1. /\ \A q \in Rows : cache'[q] # None => store'[q] # None /\ cache'[q].thread = store'[q].thread
        /\ \A u \in Threads : store'[u] # None => store'[u].thread = u
    BY <1>1 DEF ExchangeInv, RowsOK
  <2>2. ASSUME NEW y \in ResponderTasks, ~ Idle(y)'
        PROVE  ctx'[y] = ctx[y] /\ ~ Idle(y) /\ Op(y)' = Op(y)
    BY <2>2, <1>2, <1>3, <1>5
  <2>3. ASSUME NEW y \in ResponderTasks, ~ Idle(y)'
        PROVE  /\ store'[ctx'[y].row] # None => store'[ctx'[y].row].thread = ctx'[y].thread
               /\ Op(y)' # "create" => cache'[ctx'[y].row] # None
    BY <2>2, <2>3, <1>1 DEF ExchangeInv, RowsOK
  <2>4. ASSUME NEW y \in ResponderTasks, NEW z \in ResponderTasks, ~ Idle(y)', ~ Idle(z)',
               ctx'[y].row = ctx'[z].row
        PROVE  ctx'[y].thread = ctx'[z].thread
    BY <2>2, <2>4 DEF ExchangeInv, RowsOK
  <2>5. ASSUME NEW y \in Tasks, phase'[y] = "cache" PROVE store'[ctx'[y].row] # None
    <3>1. y # x BY <2>5, <1>4
    <3>2. Same(y) BY <3>1, <1>2
    <3> QED BY <3>2, <2>5, <1>1 DEF Same, ExchangeInv, RowsOK
  <2> QED BY <2>1, <2>3, <2>4, <2>5 DEF RowsOK
<1>11. \A u \in Threads : Answered(u)' = Answered(u) BY <1>1 DEF Answered
<1>12. ASSUME NEW u \in Threads, u \notin overlapped' PROVE ClaimOK(u)'
  <2>1. ClaimOK(u) BY <1>1, <1>12 DEF ExchangeInv
  <2>2. ASSUME NEW y \in ResponderTasks, NEW z \in ResponderTasks,
               ctx'[y].thread = u, ctx'[z].thread = u, Busy(y)', Busy(z)'
        PROVE  y = z
    <3>1. Busy(y) /\ ctx'[y] = ctx[y] /\ Busy(z) /\ ctx'[z] = ctx[z] BY <2>2, <1>2, <1>3
    <3> QED BY <3>1, <2>1, <2>2 DEF ClaimOK
  <2>3. \A q, s \in Answered(u)' : q = s BY <2>1, <1>11 DEF ClaimOK
  <2>4. ASSUME NEW y \in ResponderTasks, NEW q \in Answered(u)', ctx'[y].thread = u, ~ Idle(y)', Op(y)' = "create"
        PROVE  q = ctx'[y].row
    <3>1. ctx'[y] = ctx[y] /\ ~ Idle(y) /\ Op(y) = "create" BY <2>4, <1>2, <1>3, <1>5
    <3> QED BY <3>1, <2>1, <2>4, <1>11 DEF ClaimOK
  <2>5. ASSUME NEW q \in Answered(u)', cache'[q] = None
        PROVE  \E y \in ResponderTasks :
                 ctx'[y].thread = u /\ ctx'[y].row = q /\ ~ Idle(y)' /\ Op(y)' = "create" /\ phase'[y] = "cache"
    <3>1. PICK y \in ResponderTasks :
            ctx[y].thread = u /\ ctx[y].row = q /\ ~ Idle(y) /\ Op(y) = "create" /\ phase[y] = "cache"
      BY <2>1, <2>5, <1>1, <1>11 DEF ClaimOK
    <3>2. Same(y) BY <3>1, <1>1, <1>2, <1>3
    <3> QED BY <3>1, <3>2 DEF Same, Idle, Op
  <2> QED BY <2>2, <2>3, <2>4, <2>5 DEF ClaimOK
<1>13. ASSUME NEW u \in Threads, NEW e \in Dids, Settled(u, e) PROVE Settled(u, e)'
  <2>1. ASSUME NEW y \in ResponderTasks, ctx'[y].thread = u PROVE ~ Busy(y)'
    BY <2>1, <1>2, <1>3, <1>13 DEF Settled
  <2> QED BY <2>1, <1>1, <1>13 DEF Settled, Bears
<1>16. ASSUME NEW u \in Threads, Orderly(u)' PROVE Orderly(u)
  BY <1>1, <1>11, <1>16, OrderlyBefore
<1>14. ASSUME NEW u \in Threads, Orderly(u)' PROVE DidOK(u)'
  <2>0. u # None BY ExchangeAssumption DEF Rows
  <2>6. Orderly(u) BY <1>14, <1>16
  <2>1. DidOK(u) /\ ctx[x].did \in Dids BY <2>6 DEF ExchangeInv, Types, Context
  <2>2. ASSUME NEW n \in sent', n \notin sent, n.type = "response", n.thread = u PROVE Settled(u, n.did)'
    <3>1. n = m BY <2>2, <1>1, <1>6
    <3>2. x \in ResponderTasks /\ ctx[x].thread = u BY <3>1, <2>2, <1>7 DEF Tasks
    <3>3. Settled(u, ctx[x].did) BY <3>2, <2>1, <1>1 DEF DidOK
    <3>4. Settled(u, n.did) /\ n.did \in Dids BY <3>1, <3>2, <3>3, <2>1, <1>7
    <3> QED BY <3>4, <1>13
  <2>3. ASSUME x \in RequesterTasks, ctx'[x].thread = u, ctx'[x].did # None PROVE Settled(u, ctx[x].did)'
    <3>1. ctx'[x] = ctx[x] BY <2>0, <2>3, <1>2
    <3>2. PICK e : e = ctx[x].did OBVIOUS
    <3>3. Settled(u, e)' BY <3>1, <3>2, <2>1, <2>3, <1>13 DEF DidOK
    <3> QED BY <3>1, <3>2, <3>3
  <2>4. ASSUME x \in RequesterTasks, ctx'[x].thread = u, copy'[x] # None, copy'[x].did # None
        PROVE  Settled(u, copy[x].did)'
    <3>1. ctx'[x] = ctx[x] /\ copy'[x] = copy[x] BY <2>0, <2>4, <1>2
    <3>2. PICK e : e = copy[x].did OBVIOUS
    <3>3. e \in Dids BY <3>1, <3>2, <2>4 DEF ExchangeInv, Types, ConnectionRecord
    <3>4. Settled(u, e)' BY <3>1, <3>2, <3>3, <2>1, <2>4, <1>13 DEF DidOK
    <3> QED BY <3>1, <3>2, <3>4
  <2>5. DidNews(x, u) BY <2>2, <2>3, <2>4, <1>1, <1>5, <1>13 DEF DidNews
  <2> QED BY <2>5, <2>6, DidStep DEF Stepped
<1>15. ASSUME NEW u \in Threads, Orderly(u)' PROVE DoneOK(u)'
  <2>0. u # None BY ExchangeAssumption DEF Rows
  <2>5. Orderly(u) BY <1>15, <1>16
  <2>1. DoneOK(u) /\ (Concluded(u) => Concluded(u)') BY <2>5, <1>1 DEF ExchangeInv, Concluded
  <2>2. ASSUME NEW n \in sent', n \notin sent, n.type = "complete", n.thread = u PROVE Concluded(u)'
    <3>1. n = m BY <2>2, <1>1, <1>6
    <3>2. x \in RequesterTasks /\ ctx[x].thread = u /\ ctx[x].did # None BY <3>1, <2>2, <1>7 DEF Tasks
    <3> QED BY <3>2, <2>1, <1>1 DEF DoneOK
  <2>3. x \in ResponderTasks => ctx'[x].thread # u BY <2>0, <1>2, <1>5
  <2>4. DoneNews(x, u) BY <2>1, <2>2, <2>3, <1>1, <1>5 DEF DoneNews
  <2> QED BY <2>4, <2>5, DoneStep DEF Stepped
<1> QED BY <1>8, <1>9, <1>10, <1>12, <1>14, <1>15 DEF ExchangeInv
-----------------------------------------------------------------------------
(* Steps of no task.                                                       *)

\* Nothing changes here but that messages may be lost.
Quiet ==
  /\ UNCHANGED <<store, cache, taskVars, minted, overlapped, stale>>
  /\ sent' \subseteq sent

\* Dropping, losing and waiting keep the invariant.
LEMMA QuietKeeps ==
  ASSUME ExchangeInv, Quiet
  PROVE  ExchangeInv'
<1>1. /\ UNCHANGED <<store, cache, todo, phase, ctx, copy, base, minted, overlapped, stale>>
      /\ sent' \subseteq sent
  BY DEF Quiet, taskVars
<1>2. Types' BY <1>1 DEF ExchangeInv, Types
<1>3. ASSUME NEW x \in Tasks PROVE TaskOK(x)'
  <2>1. Same(x) BY <1>1 DEF Same
  <2> QED BY <2>1, SameTaskOK DEF ExchangeInv
<1>4. RowsOK' BY <1>1 DEF ExchangeInv, RowsOK, Idle, Op
<1>5. ASSUME NEW t \in Threads, t \notin overlapped' PROVE ClaimOK(t)' BY <1>1, <1>5 DEF ExchangeInv, ClaimOK, Answered, Idle, Op, Busy
<1>6. ASSUME NEW t \in Threads, NEW e PROVE Settled(t, e)' <=> Settled(t, e)
  BY <1>1 DEF Settled, Bears, Busy
<1>7. ASSUME NEW t \in Threads PROVE Concluded(t)' <=> Concluded(t) BY <1>1 DEF Concluded
<1>10. ASSUME NEW t \in Threads, Orderly(t)' PROVE Orderly(t) BY <1>1, <1>10 DEF Orderly, Answered
<1>8. ASSUME NEW t \in Threads, Orderly(t)' PROVE DidOK(t)'
  <2>1. DidOK(t) BY <1>8, <1>10 DEF ExchangeInv
  <2>2. \A m \in sent' : m.type = "response" /\ m.thread = t => Settled(t, m.did)'
    BY <2>1, <1>1, <1>6 DEF DidOK
  <2>3. ASSUME NEW e
        PROVE  /\ \A x \in ResponderTasks : (ctx[x].thread = t /\ ~ Idle(x) /\ Op(x) = "send" /\ e = ctx[x].did)'
                    => Settled(t, e)'
               /\ \A x \in RequesterTasks : (ctx[x].thread = t /\ ctx[x].did # None /\ e = ctx[x].did)' => Settled(t, e)'
               /\ \A x \in RequesterTasks :
                    (ctx[x].thread = t /\ copy[x] # None /\ copy[x].did # None /\ e = copy[x].did)' => Settled(t, e)'
               /\ (store[t] # None /\ store[t].did # None /\ e = store[t].did)' => Settled(t, e)'
               /\ (cache[t] # None /\ cache[t].did # None /\ e = cache[t].did)' => Settled(t, e)'
    BY <2>1, <1>1, <1>6 DEF DidOK, Idle, Op
  <2> QED BY <2>2, <2>3 DEF DidOK
<1>9. ASSUME NEW t \in Threads, Orderly(t)' PROVE DoneOK(t)'
  <2>1. DoneOK(t) BY <1>9, <1>10 DEF ExchangeInv
  <2> QED BY <2>1, <1>1, <1>7 DEF DoneOK, Idle, Op
<1> QED BY <1>2, <1>3, <1>4, <1>5, <1>8, <1>9 DEF ExchangeInv

\* One agent's tasks end, and its cache is what its storage has.
LEMMA RestartKeeps ==
  ASSUME ExchangeInv, NEW own, NEW rows, Restart(own, rows),
         \/ own = RequesterTasks /\ rows = Threads
         \/ own = ResponderTasks /\ rows = Slots,
         UNCHANGED <<store, sent, minted, overlapped, stale>>
  PROVE  ExchangeInv'
<1>1. RequesterTasks \subseteq Tasks /\ ResponderTasks \subseteq Tasks /\ Threads \subseteq Rows /\ Slots \subseteq Rows
  BY DEF Tasks, Rows
<1>2. /\ RequesterTasks \cap ResponderTasks = {} /\ Threads \cap Slots = {}
      /\ \A u \in Threads : u # None
  BY ExchangeAssumption DEF Rows
<1>3. \A q \in Rows : cache'[q] = IF q \in rows THEN store[q] ELSE cache[q] BY DEF Restart
<1>4. ASSUME NEW y \in Tasks, y \notin own PROVE Same(y) BY <1>4 DEF Restart, Same
<1>5. ASSUME NEW y \in Tasks, y \in own
      PROVE  todo'[y] = <<>> /\ phase'[y] = "load" /\ ctx'[y] = NoContext /\ copy'[y] = None /\ base'[y] = None
  BY <1>5 DEF Restart
<1>6. ASSUME NEW y \in Tasks, NEW u \in Threads, ctx'[y].thread = u PROVE y \notin own /\ Same(y)
  BY <1>2, <1>4, <1>5, <1>6 DEF NoContext
<1>7. ASSUME NEW y \in Tasks, ~ Idle(y)' PROVE y \notin own /\ Same(y)
  BY <1>4, <1>5, <1>7 DEF Idle
<1>8. Types'
  <2>1. NoContext \in Context BY DEF Context, NoContext, Dids
  <2>2. /\ cache' \in [Rows -> ConnectionRecord \cup {None}]
        /\ phase' \in [Tasks -> {"load", "store", "cache"}]
    BY DEF Restart, ExchangeInv, Types
  <2>3. todo' \in [Tasks -> RequesterPrograms \cup ResponderPrograms \cup {<<>>}]
    BY DEF Restart, ExchangeInv, Types
  <2>4. ctx' \in [Tasks -> Context] BY <2>1 DEF Restart, ExchangeInv, Types
  <2>5. /\ copy' \in [Tasks -> ConnectionRecord \cup {None}]
        /\ base' \in [Tasks -> ConnectionRecord \cup {None}]
    BY DEF Restart, ExchangeInv, Types
  <2> QED BY <2>2, <2>3, <2>4, <2>5 DEF ExchangeInv, Types
<1>9. ASSUME NEW y \in Tasks PROVE TaskOK(y)'
  <2>1. CASE y \in own BY <2>1, <1>5, EndedTaskOK
  <2>2. CASE y \notin own BY <2>2, <1>4, SameTaskOK DEF ExchangeInv
  <2> QED BY <2>1, <2>2
<1>10. RowsOK'
  <2>1. ASSUME NEW q \in Rows, cache'[q] # None PROVE store'[q] # None /\ cache'[q].thread = store'[q].thread
    BY <2>1, <1>3 DEF ExchangeInv, RowsOK
  <2>2. \A u \in Threads : store'[u] # None => store'[u].thread = u BY DEF ExchangeInv, RowsOK
  <2>3. ASSUME NEW y \in ResponderTasks, ~ Idle(y)'
        PROVE  /\ store'[ctx'[y].row] # None => store'[ctx'[y].row].thread = ctx'[y].thread
               /\ Op(y)' # "create" => cache'[ctx'[y].row] # None
    <3>1. y \in Tasks /\ y \notin own /\ Same(y) BY <2>3, <1>1, <1>7
    <3>2. ~ Idle(y) /\ ctx'[y] = ctx[y] /\ Op(y)' = Op(y) BY <3>1, <2>3 DEF Same, Idle, Op
    <3>3. rows = Threads BY <3>1, <2>3
    <3>4. ctx[y].row \in Slots BY <3>1, <3>2, <2>3, TaskFacts DEF ExchangeInv
    <3>5. cache'[ctx[y].row] = cache[ctx[y].row] BY <3>3, <3>4, <1>1, <1>2, <1>3
    <3> QED BY <3>2, <3>5 DEF ExchangeInv, RowsOK
  <2>4. ASSUME NEW y \in ResponderTasks, NEW z \in ResponderTasks, ~ Idle(y)', ~ Idle(z)',
               ctx'[y].row = ctx'[z].row
        PROVE  ctx'[y].thread = ctx'[z].thread
    <3>1. Same(y) /\ Same(z) BY <2>4, <1>1, <1>7
    <3> QED BY <3>1, <2>4 DEF Same, Idle, ExchangeInv, RowsOK
  <2>5. ASSUME NEW y \in Tasks, phase'[y] = "cache" PROVE store'[ctx'[y].row] # None
    <3>1. Same(y) BY <2>5, <1>4, <1>5
    <3> QED BY <3>1, <2>5 DEF Same, ExchangeInv, RowsOK
  <2> QED BY <2>1, <2>2, <2>3, <2>4, <2>5 DEF RowsOK
<1>11. \A u \in Threads : Answered(u)' = Answered(u) BY DEF Answered
<1>12. ASSUME NEW u \in Threads, u \notin overlapped' PROVE ClaimOK(u)'
  <2>1. ClaimOK(u) BY <1>12 DEF ExchangeInv
  <2>2. ASSUME NEW y \in ResponderTasks, NEW z \in ResponderTasks,
               ctx'[y].thread = u, ctx'[z].thread = u, Busy(y)', Busy(z)'
        PROVE  y = z
    <3>1. Same(y) /\ Same(z) BY <2>2, <1>1, <1>6
    <3> QED BY <3>1, <2>1, <2>2 DEF ClaimOK, Same, Busy
  <2>3. \A q, s \in Answered(u)' : q = s BY <2>1, <1>11 DEF ClaimOK
  <2>4. ASSUME NEW y \in ResponderTasks, NEW q \in Answered(u)', ctx'[y].thread = u, ~ Idle(y)', Op(y)' = "create"
        PROVE  q = ctx'[y].row
    <3>1. Same(y) BY <2>4, <1>1, <1>6
    <3> QED BY <3>1, <2>1, <2>4, <1>11 DEF ClaimOK, Same, Idle, Op
  <2>5. ASSUME NEW q \in Answered(u)', cache'[q] = None
        PROVE  \E y \in ResponderTasks :
                 ctx'[y].thread = u /\ ctx'[y].row = q /\ ~ Idle(y)' /\ Op(y)' = "create" /\ phase'[y] = "cache"
    <3>1. q \in Answered(u) /\ q \in Rows /\ q \in Slots /\ store[q] # None
      BY <2>5, <1>1, <1>11 DEF Answered
    <3>2. rows = Threads /\ own = RequesterTasks BY <3>1, <2>5, <1>3
    <3>3. cache[q] = None BY <3>1, <3>2, <2>5, <1>2, <1>3
    <3>4. PICK y \in ResponderTasks :
            ctx[y].thread = u /\ ctx[y].row = q /\ ~ Idle(y) /\ Op(y) = "create" /\ phase[y] = "cache"
      BY <3>1, <3>3, <2>1 DEF ClaimOK
    <3>5. Same(y) BY <3>2, <3>4, <1>1, <1>2, <1>4
    <3> QED BY <3>4, <3>5 DEF Same, Idle, Op
  <2> QED BY <2>2, <2>3, <2>4, <2>5 DEF ClaimOK
<1>13. ASSUME NEW u \in Threads, NEW e, Settled(u, e) PROVE Settled(u, e)'
  <2>1. ASSUME NEW y \in ResponderTasks, ctx'[y].thread = u PROVE ~ Busy(y)'
    <3>1. Same(y) BY <2>1, <1>1, <1>6
    <3> QED BY <3>1, <2>1, <1>13 DEF Settled, Same, Busy
  <2>2. PICK q \in Slots : Bears(store[q], u, e) /\ Bears(cache[q], u, e) BY <1>13 DEF Settled
  <2>3. Bears(store'[q], u, e) /\ Bears(cache'[q], u, e) BY <2>2, <1>1, <1>3
  <2> QED BY <2>1, <2>3 DEF Settled, Bears
<1>14. \A u \in Threads : Concluded(u) => Concluded(u)' BY DEF Concluded
<1>17. ASSUME NEW u \in Threads, Orderly(u)' PROVE Orderly(u) BY <1>11, <1>17, OrderlyBefore
<1>15. ASSUME NEW u \in Threads, Orderly(u)' PROVE DidOK(u)'
  <2>1. DidOK(u) /\ u \in Rows BY <1>1, <1>15, <1>17 DEF ExchangeInv
  <2>2. \A m \in sent' : m.type = "response" /\ m.thread = u => Settled(u, m.did)'
    BY <2>1, <1>13 DEF DidOK
  <2>3. ASSUME NEW e, NEW y \in ResponderTasks, (ctx[y].thread = u /\ ~ Idle(y) /\ Op(y) = "send" /\ e = ctx[y].did)'
        PROVE  Settled(u, e)'
    <3>1. Same(y) BY <2>3, <1>1, <1>6
    <3>2. Settled(u, e) BY <3>1, <2>1, <2>3 DEF DidOK, Same, Idle, Op
    <3> QED BY <3>2, <1>13
  <2>4. ASSUME NEW e, NEW y \in RequesterTasks, (ctx[y].thread = u /\ ctx[y].did # None /\ e = ctx[y].did)'
        PROVE  Settled(u, e)'
    <3>1. Same(y) BY <2>4, <1>1, <1>6
    <3>2. Settled(u, e) BY <3>1, <2>1, <2>4 DEF DidOK, Same
    <3> QED BY <3>2, <1>13
  <2>5. ASSUME NEW e, NEW y \in RequesterTasks,
               (ctx[y].thread = u /\ copy[y] # None /\ copy[y].did # None /\ e = copy[y].did)'
        PROVE  Settled(u, e)'
    <3>1. Same(y) BY <2>5, <1>1, <1>6
    <3>2. Settled(u, e) BY <3>1, <2>1, <2>5 DEF DidOK, Same
    <3> QED BY <3>2, <1>13
  <2>6. ASSUME NEW e, (store[u] # None /\ store[u].did # None /\ e = store[u].did)' PROVE Settled(u, e)'
    BY <2>1, <2>6, <1>13 DEF DidOK
  <2>7. ASSUME NEW e, (cache[u] # None /\ cache[u].did # None /\ e = cache[u].did)' PROVE Settled(u, e)'
    BY <2>1, <2>7, <1>3, <1>13 DEF DidOK
  <2> QED BY <2>2, <2>3, <2>4, <2>5, <2>6, <2>7 DEF DidOK
<1>16. ASSUME NEW u \in Threads, Orderly(u)' PROVE DoneOK(u)'
  <2>1. DoneOK(u) /\ (Concluded(u) => Concluded(u)') BY <1>14, <1>16, <1>17 DEF ExchangeInv
  <2>2. \A m \in sent' : m.type = "complete" /\ m.thread = u => Concluded(u)' BY <2>1 DEF DoneOK
  <2>3. ASSUME NEW y \in RequesterTasks, (ctx[y].thread = u /\ ~ Idle(y) /\ Op(y) = "send" /\ ctx[y].did # None)'
        PROVE  Concluded(u)'
    <3>1. Same(y) BY <2>3, <1>1, <1>6
    <3> QED BY <3>1, <2>1, <2>3 DEF DoneOK, Same, Idle, Op
  <2>4. ASSUME NEW y \in ResponderTasks, (ctx[y].thread = u /\ ~ Idle(y) /\ Op(y) = "finish")'
        PROVE  Concluded(u)'
    <3>1. Same(y) BY <2>4, <1>1, <1>6
    <3> QED BY <3>1, <2>1, <2>4 DEF DoneOK, Same, Idle, Op
  <2>5. ASSUME NEW y \in ResponderTasks, (ctx[y].thread = u /\ copy[y] # None /\ copy[y].state = "Completed")'
        PROVE  Concluded(u)'
    <3>1. Same(y) BY <2>5, <1>1, <1>6
    <3> QED BY <3>1, <2>1, <2>5 DEF DoneOK, Same
  <2>6. \A q \in Slots : (store[q] # None /\ store[q].thread = u /\ store[q].state = "Completed")' => Concluded(u)'
    BY <2>1 DEF DoneOK
  <2>7. \A q \in Slots : (cache[q] # None /\ cache[q].thread = u /\ cache[q].state = "Completed")' => Concluded(u)'
    BY <2>1, <1>1, <1>3 DEF DoneOK
  <2> QED BY <2>2, <2>3, <2>4, <2>5, <2>6, <2>7 DEF DoneOK
<1> QED BY <1>8, <1>9, <1>10, <1>12, <1>15, <1>16 DEF ExchangeInv
-----------------------------------------------------------------------------
(* The invariant.                                                          *)

\* The invariant holds at first.
LEMMA InitInv ==
  ASSUME Init
  PROVE  ExchangeInv
<1> USE DEF Init
<1>1. Types
  <2>1. NoContext \in Context BY DEF Context, NoContext, Dids
  <2>2. todo \in [Tasks -> RequesterPrograms \cup ResponderPrograms \cup {<<>>}] OBVIOUS
  <2>3. ctx \in [Tasks -> Context] BY <2>1
  <2> QED BY <2>2, <2>3 DEF Types
<1>2. ASSUME NEW x \in Tasks
      PROVE  /\ Idle(x) /\ ctx[x] = NoContext /\ ~ Busy(x)
             /\ phase[x] = "load" /\ copy[x] = None /\ base[x] = None
  BY DEF Idle, Busy
<1>3. \A x \in Tasks : TaskOK(x) BY <1>2 DEF TaskOK, PlaceOK, Idle
<1>4. RequesterTasks \subseteq Tasks /\ ResponderTasks \subseteq Tasks /\ Threads \subseteq Rows /\ Slots \subseteq Rows
  BY DEF Tasks, Rows
<1>5. RowsOK BY <1>2, <1>4 DEF RowsOK
<1>6. ASSUME NEW t \in Threads PROVE ClaimOK(t)
  <2>1. Answered(t) = {} BY <1>4 DEF Answered
  <2> QED BY <2>1, <1>2, <1>4 DEF ClaimOK
<1>7. ASSUME NEW t \in Threads PROVE DidOK(t) /\ DoneOK(t)
  <2>1. \A x \in Tasks : ctx[x].thread # t BY <1>2, ExchangeAssumption DEF NoContext, Rows
  <2> QED BY <2>1, <1>2, <1>4 DEF DidOK, DoneOK
<1> QED BY <1>1, <1>3, <1>5, <1>6, <1>7 DEF ExchangeInv

\* A changed function has its domain.
LEMMA ExceptDomain ==
  ASSUME NEW S, NEW T, NEW f \in [S -> T], NEW a, NEW v
  PROVE  [f EXCEPT ![a] = v] = [s \in S |-> [f EXCEPT ![a] = v][s]]
OBVIOUS

\* The variables are functions on records and tasks, and stay so.
LEMMA TypesDomains ==
  ASSUME Types
  PROVE  Domains
BY DEF Types, Domains

LEMMA ReturnDomains ==
  ASSUME Types, NEW x \in Tasks, Return(x), UNCHANGED <<store, cache>>
  PROVE  Domains'
BY TypesDomains DEF Types, Domains, Return

LEMMA StartDomains ==
  ASSUME Types, NEW x \in Tasks, NEW p, NEW t, NEW r, NEW d, Start(x, p, t, r, d), UNCHANGED <<store, cache>>
  PROVE  Domains'
BY TypesDomains DEF Types, Domains, Start

LEMMA WriteDomains ==
  ASSUME Types, NEW x \in Tasks, NEW c, NEW b, Write(x, c, b), UNCHANGED <<store, cache, ctx>>
  PROVE  Domains'
BY TypesDomains DEF Types, Domains, Write

\* The actions of Next, one by one.
LEMMA AcceptKeeps ==
  ASSUME ExchangeInv, NEW x \in Tasks, AcceptInvitation(x)
  PROVE  ExchangeInv'
<1>1. Accepted(x) BY AcceptDoes DEF ExchangeInv
<1>2. Frame(x) /\ UNCHANGED overlapped BY <1>1 DEF Accepted, Begun
<1>3. UNCHANGED <<store, cache, minted>> BY DEF AcceptInvitation
<1>4. Domains' BY <1>3, StartDomains DEF ExchangeInv, AcceptInvitation
<1>5. Stepped(x) BY <1>2, <1>3, <1>4 DEF Stepped, ExchangeInv, Types
<1> QED BY <1>1, <1>5, StartsKeep

LEMMA TouchKeeps ==
  ASSUME ExchangeInv, NEW x \in Tasks, TouchMetadata(x)
  PROVE  ExchangeInv'
<1>1. Touched(x) BY TouchDoes DEF ExchangeInv
<1>2. Frame(x) /\ UNCHANGED overlapped BY <1>1 DEF Touched, Begun
<1>3. UNCHANGED <<store, cache, minted>> BY DEF TouchMetadata
<1>4. Domains' BY <1>3, StartDomains DEF ExchangeInv, TouchMetadata
<1>5. Stepped(x) BY <1>2, <1>3, <1>4 DEF Stepped, ExchangeInv, Types
<1> QED BY <1>1, <1>5, StartsKeep

LEMMA HandleKeeps ==
  ASSUME ExchangeInv, NEW x \in Tasks, NEW m \in sent, Handle(x, m)
  PROVE  ExchangeInv'
<1>1. Dropped \/ Answering(x) \/ Concluding(x) \/ Finishing(x) BY HandleDoes DEF ExchangeInv
<1>2. UNCHANGED <<store, cache, minted>> BY DEF Handle
<1>3. CASE Dropped
  <2>1. Quiet BY <1>2, <1>3 DEF Dropped, Still, Quiet
  <2> QED BY <2>1, QuietKeeps
<1>4. CASE Answering(x) \/ Concluding(x) \/ Finishing(x)
  <2>1. Frame(x) BY <1>4 DEF Answering, Concluding, Finishing, Begun
  <2>2. overlapped \subseteq overlapped' /\ overlapped' \subseteq Threads
    BY <1>4 DEF Answering, Concluding, Finishing, Marked, ExchangeInv, Types
  <2>3. UNCHANGED taskVars \/ \E p, t, r, d : Start(x, p, t, r, d)
    BY DEF Handle, HandleRequest, HandleResponse, HandleComplete
  <2>4. Domains'
    <3>1. CASE UNCHANGED taskVars BY <3>1, <1>2, TypesDomains DEF taskVars, Domains, ExchangeInv
    <3>2. CASE \E p, t, r, d : Start(x, p, t, r, d) BY <3>2, <1>2, StartDomains DEF ExchangeInv
    <3> QED BY <2>3, <3>1, <3>2
  <2>5. Stepped(x) BY <2>1, <2>2, <2>4, <1>2 DEF Stepped
  <2> QED BY <2>5, <1>4, StartsKeep
<1> QED BY <1>1, <1>3, <1>4

LEMMA FailKeeps ==
  ASSUME ExchangeInv, NEW x \in Tasks, WriteFails(x) \/ SendFails(x)
  PROVE  ExchangeInv'
<1>1. /\ Return(x) /\ phase[x] # "cache"
      /\ UNCHANGED <<store, cache, sent, minted, overlapped, stale>>
  BY DEF WriteFails, SendFails, netVars
<1>2. Returned(x) /\ Still BY <1>1, ReturnDoes DEF ExchangeInv, Still
<1>3. Domains' BY <1>1, ReturnDomains DEF ExchangeInv
<1>4. Stepped(x) BY <1>1, <1>2, <1>3 DEF Stepped, Returned, ExchangeInv, Types
<1> QED BY <1>1, <1>2, <1>4, EndedKeeps

LEMMA TaskStepKeeps ==
  ASSUME ExchangeInv, NEW x \in Tasks, TaskStep(x)
  PROVE  ExchangeInv'
<1>1. CASE Create(x)
  <2>1. Frame(x) /\ UNCHANGED <<overlapped, minted>> BY <1>1, CreateDoes DEF ExchangeInv, Written
  <2>2. Domains' BY <1>1, WriteDomains DEF ExchangeInv, Create
  <2>3. Stepped(x) BY <2>1, <2>2 DEF Stepped, ExchangeInv, Types
  <2> QED BY <2>3, <1>1, CreateKeeps
<1>2. CASE Load(x)
  <2>1. UNCHANGED overlapped /\ minted' \in {minted, minted + 1} BY <1>2, LoadDoes DEF ExchangeInv
  <2>2. Frame(x) BY <1>2, LoadDoes DEF ExchangeInv, Loaded, Written, Returned
  <2>3. UNCHANGED <<store, cache>> BY <1>2 DEF Load
  <2>4. Return(x) \/ \E c, b : Write(x, c, b) BY <1>2 DEF Load
  <2>5. Domains'
    <3>1. CASE Return(x) BY <3>1, <2>3, ReturnDomains DEF ExchangeInv
    <3>2. CASE ~ Return(x)
      <4>1. PICK c, b : Write(x, c, b) BY <2>4, <3>2
      <4>2. UNCHANGED ctx \/ \E v : ctx' = [ctx EXCEPT ![x] = v] BY <1>2, <3>2 DEF Load
      <4>3. ctx' = [y \in Tasks |-> ctx'[y]]
        BY <4>2 DEF ExchangeInv, Types
      <4> QED BY <4>1, <4>3, <2>3, TypesDomains DEF ExchangeInv, Types, Domains, Write
    <3> QED BY <3>1, <3>2
  <2>6. Stepped(x) BY <2>1, <2>2, <2>5 DEF Stepped, ExchangeInv, Types
  <2> QED BY <2>6, <1>2, LoadKeeps
<1>3. CASE Rewrite(x)
  <2>1. Frame(x) /\ UNCHANGED <<overlapped, minted>> BY <1>3, RewriteDoes DEF ExchangeInv, Written
  <2>2. Domains' BY <1>3, WriteDomains DEF ExchangeInv, Rewrite
  <2>3. Stepped(x) BY <2>1, <2>2 DEF Stepped, ExchangeInv, Types
  <2> QED BY <2>3, <1>3, RewriteKeeps
<1>4. CASE WriteStorage(x)
  <2>1. Frame(x) /\ UNCHANGED <<overlapped, minted>> BY <1>4, WriteStorageDoes DEF ExchangeInv
  <2>2. Domains' BY <1>4, TypesDomains DEF ExchangeInv, Types, Domains, WriteStorage
  <2>3. Stepped(x) BY <2>1, <2>2 DEF Stepped, ExchangeInv, Types
  <2> QED BY <2>3, <1>4, WriteStorageKeeps
<1>5. CASE WriteCache(x)
  <2>1. Frame(x) /\ UNCHANGED <<overlapped, minted>> BY <1>5, WriteCacheDoes DEF ExchangeInv, Advanced
  <2>2. store' = [r \in Rows |-> store'[r]] /\ cache' = [r \in Rows |-> cache'[r]]
    BY <1>5 DEF WriteCache, ExchangeInv, Types
  <2>3. Domains'
    <3>1. CASE Len(todo[x]) = 1 BY <3>1, <2>2, <1>5 DEF WriteCache, Return, ExchangeInv, Types, Domains
    <3>2. CASE Len(todo[x]) # 1
      <4>1. PICK v : todo' = [todo EXCEPT ![x] = v] BY <3>2, <1>5 DEF WriteCache
      <4>2. todo' = [y \in Tasks |-> todo'[y]] BY <4>1, ExceptDomain DEF ExchangeInv, Types
      <4>3. phase' = [y \in Tasks |-> phase'[y]] BY <3>2, <1>5 DEF WriteCache, ExchangeInv, Types
      <4>4. UNCHANGED <<ctx, copy, base>> BY <3>2, <1>5 DEF WriteCache
      <4> QED BY <4>2, <4>3, <4>4, <2>2 DEF ExchangeInv, Types, Domains
    <3> QED BY <3>1, <3>2
  <2>4. Stepped(x) BY <2>1, <2>3 DEF Stepped, ExchangeInv, Types
  <2> QED BY <2>4, <1>5, WriteCacheKeeps
<1>6. CASE Send(x)
  <2>1. Frame(x) /\ UNCHANGED <<overlapped, minted>> BY <1>6, SendDoes DEF ExchangeInv, Advanced
  <2>2. UNCHANGED <<store, cache>> BY <1>6 DEF Send
  <2>3. Domains'
    <3>1. CASE Len(todo[x]) = 1 BY <3>1, <2>2, <1>6, ReturnDomains DEF Send, ExchangeInv
    <3>2. CASE Len(todo[x]) # 1
      <4>1. PICK v : todo' = [todo EXCEPT ![x] = v] BY <3>2, <1>6 DEF Send
      <4>2. todo' = [y \in Tasks |-> todo'[y]] BY <4>1, ExceptDomain DEF ExchangeInv, Types
      <4>3. UNCHANGED <<phase, ctx, copy, base>> BY <3>2, <1>6 DEF Send
      <4> QED BY <4>2, <4>3, <2>2 DEF ExchangeInv, Types, Domains
    <3> QED BY <3>1, <3>2
  <2>4. Stepped(x) BY <2>1, <2>3 DEF Stepped, ExchangeInv, Types
  <2> QED BY <2>4, <1>6, SendKeeps
<1> QED BY <1>1, <1>2, <1>3, <1>4, <1>5, <1>6 DEF TaskStep

LEMMA WaitIsQuiet ==
  ASSUME NEW t \in Threads, WaitStep(t) \/ WaitTimeout(t)
  PROVE  Quiet
BY DEF WaitStep, Arm, Look, WaitTimeout, Quiet, netVars, historyVars

LEMMA LoseIsQuiet ==
  ASSUME NEW m \in sent, Lose(m)
  PROVE  Quiet
BY DEF Lose, Quiet

LEMMA CrashKeeps ==
  ASSUME ExchangeInv, Crash
  PROVE  ExchangeInv'
BY RestartKeeps DEF Crash, netVars

\* The invariant is inductive.
LEMMA NextInv ==
  ASSUME ExchangeInv, [Next]_vars
  PROVE  ExchangeInv'
<1>1. CASE UNCHANGED vars
  <2>1. UNCHANGED <<store, cache, todo, phase, ctx, copy, base, sent, minted, overlapped, stale>>
    BY <1>1 DEF vars, taskVars, netVars, historyVars
  <2> QED BY <2>1 DEF ExchangeInv, Types, TaskOK, PlaceOK, CopyOK, MadeOK, AnswerOK, ConcludeOK, RowsOK,
                      ClaimOK, DidOK, DoneOK, Settled, Concluded, Bears, Orderly, Answered, Idle, Op, Busy
<1>2. CASE Next
  BY <1>2, AcceptKeeps, TouchKeeps, HandleKeeps, TaskStepKeeps, FailKeeps,
     WaitIsQuiet, LoseIsQuiet, QuietKeeps, CrashKeeps DEF Next
<1> QED BY <1>1, <1>2
-----------------------------------------------------------------------------
(* The waiters and the bounds.                                             *)

\* Waiters, bounds and handled messages keep their types.
LEMMA RestStep ==
  ASSUME Types, Rest, [Next]_vars
  PROVE  Rest'
<1> USE DEF Rest
<1>1. CASE UNCHANGED vars BY <1>1 DEF vars, netVars, waitVars, boundVars, historyVars
<1>2. ASSUME NEW x \in Tasks, AcceptInvitation(x) \/ TouchMetadata(x) PROVE Rest'
  BY <1>2 DEF AcceptInvitation, TouchMetadata, netVars, waitVars, boundVars, historyVars
<1>3. ASSUME NEW x \in Tasks, NEW m \in sent, Handle(x, m) PROVE Rest'
  <2>1. handled' \subseteq Message BY <1>3 DEF Handle, Types
  <2>2. replays' \in Nat BY <1>3 DEF Handle
  <2> QED BY <2>1, <2>2, <1>3 DEF Handle, waitVars
<1>4. ASSUME NEW x \in Tasks, Create(x) \/ Load(x) \/ Rewrite(x) \/ Send(x) PROVE Rest'
  BY <1>4 DEF Create, Load, Rewrite, Send, netVars, waitVars, boundVars, historyVars
<1>5. ASSUME NEW x \in Tasks, WriteStorage(x) PROVE Rest'
  BY <1>5 DEF WriteStorage, netVars, waitVars, boundVars
<1>6. ASSUME NEW x \in Tasks, WriteCache(x) PROVE Rest'
  <2>1. woken' \in [Threads -> BOOLEAN]
    <3>1. woken' = woken \/ woken' = [t \in Threads |-> waiter[t] \in {"armed", "waiting"}]
      BY <1>6 DEF WriteCache
    <3>2. woken \in [Threads -> BOOLEAN] BY Zenon DEF Rest
    <3>4. \A t \in Threads : (waiter[t] \in {"armed", "waiting"}) \in BOOLEAN OBVIOUS
    <3>3. [t \in Threads |-> waiter[t] \in {"armed", "waiting"}] \in [Threads -> BOOLEAN] BY <3>4, Zenon
    <3> QED BY <3>1, <3>2, <3>3, Zenon
  <2> QED BY <2>1, <1>6 DEF WriteCache, netVars, boundVars
<1>7. ASSUME NEW x \in Tasks, WriteFails(x) \/ SendFails(x) PROVE Rest'
  <2>0. (WriteFails(x) => Fault /\ broken' = TRUE) /\ (SendFails(x) => Fault /\ broken' = TRUE)
    BY Zenon DEF WriteFails, SendFails
  <2>3. Fault /\ broken' = TRUE BY <2>0, <1>7, Zenon
  <2>4. broken' \in BOOLEAN BY <2>3, Zenon
  <2>1. faults' \in Nat /\ broken' \in BOOLEAN BY <2>3, <2>4 DEF Fault
  <2> QED BY <2>1, <1>7 DEF WriteFails, SendFails, netVars, waitVars
<1>8. ASSUME NEW t \in Threads, WaitStep(t) \/ WaitTimeout(t) PROVE Rest'
  BY <1>8 DEF WaitStep, Arm, Look, WaitTimeout, netVars, boundVars, historyVars
<1>9. ASSUME NEW m \in sent, Lose(m) PROVE Rest'
  <2>1. faults' \in Nat /\ broken' \in BOOLEAN BY <1>9 DEF Lose, Fault
  <2> QED BY <2>1, <1>9 DEF Lose, waitVars
<1>10. CASE Crash
  <2>1. faults' \in Nat /\ broken' \in BOOLEAN BY <1>10 DEF Crash, Fault
  <2>2. waiter' \in [Threads -> {"idle", "armed", "waiting"}] /\ woken' \in [Threads -> BOOLEAN]
    BY <1>10 DEF Crash, waitVars
  <2> QED BY <2>1, <2>2, <1>10 DEF Crash, netVars
<1> QED BY <1>1, <1>2, <1>3, <1>4, <1>5, <1>6, <1>7, <1>8, <1>9, <1>10 DEF Next, TaskStep

\* NoLostWakeUp is inductive: every write of a requester's record wakes who
\* has armed, and nobody sleeps without having looked after arming.
LEMMA WakeUpStep ==
  ASSUME Types, Rest, NoLostWakeUp, [Next]_vars
  PROVE  NoLostWakeUp'
<1> USE DEF NoLostWakeUp
<1>1. CASE UNCHANGED <<cache, waiter, woken>> BY <1>1
<1>2. ASSUME NEW x \in Tasks, WriteCache(x) PROVE NoLostWakeUp'
  <2>1. CASE ctx[x].row \in Threads
    <3>1. waiter' = waiter /\ \A t \in Threads : woken'[t] = (waiter[t] \in {"armed", "waiting"})
      BY <1>2, <2>1 DEF WriteCache
    <3> QED BY <3>1
  <2>2. CASE ctx[x].row \notin Threads
    <3>1. UNCHANGED <<waiter, woken>> BY <1>2, <2>2 DEF WriteCache
    <3>2. \A t \in Threads : cache'[t] = cache[t] BY <1>2, <2>2 DEF WriteCache, Types, Rows
    <3> QED BY <3>1, <3>2
  <2> QED BY <2>1, <2>2
<1>3. ASSUME NEW t \in Threads, Arm(t) PROVE NoLostWakeUp' BY <1>3 DEF Arm, Rest
<1>4. ASSUME NEW t \in Threads, Look(t) PROVE NoLostWakeUp' BY <1>4 DEF Look, Rest
<1>5. ASSUME NEW t \in Threads, WaitTimeout(t) PROVE NoLostWakeUp' BY <1>5 DEF WaitTimeout, Rest
<1>6. CASE Crash
  <2>1. CASE Restart(RequesterTasks, Threads) /\ waiter' = [t \in Threads |-> "idle"] BY <2>1
  <2>2. CASE Restart(ResponderTasks, Slots) /\ UNCHANGED waitVars
    <3>1. \A t \in Threads : cache'[t] = cache[t] BY <2>2, ExchangeAssumption DEF Restart, Rows
    <3> QED BY <3>1, <2>2 DEF waitVars
  <2> QED BY <1>6, <2>1, <2>2 DEF Crash
<1>7. CASE UNCHANGED vars BY <1>7, <1>1 DEF vars, waitVars
<1>8. ASSUME NEW x \in Tasks,
             \/ AcceptInvitation(x) \/ TouchMetadata(x) \/ \E m \in sent : Handle(x, m)
             \/ Create(x) \/ Load(x) \/ Rewrite(x) \/ WriteStorage(x) \/ Send(x)
             \/ WriteFails(x) \/ SendFails(x)
      PROVE  NoLostWakeUp'
  <2>1. UNCHANGED <<cache, waiter, woken>>
    BY <1>8 DEF AcceptInvitation, TouchMetadata, Handle, Create, Load, Rewrite, WriteStorage, Send,
                WriteFails, SendFails, waitVars
  <2> QED BY <2>1, <1>1
<1>9. ASSUME NEW m \in sent, Lose(m) PROVE NoLostWakeUp' BY <1>9, <1>1 DEF Lose, waitVars
<1> QED BY <1>2, <1>3, <1>4, <1>5, <1>6, <1>7, <1>8, <1>9 DEF Next, TaskStep, WaitStep
-----------------------------------------------------------------------------
(* Theorems.                                                               *)

\* The strengthening that the properties rest on: what a task's copy was made
\* from, that a record stays with its thread, that the responder has one claim
\* to a thread, and that a DID or a completion that anybody has seen is in
\* storage for good.
THEOREM ExchangeInvariant == Spec => []ExchangeInv
<1>1. Init => ExchangeInv BY InitInv
<1>2. ExchangeInv /\ [Next]_vars => ExchangeInv' BY NextInv
<1> QED BY <1>1, <1>2, PTL DEF Spec

\* The types of the rest.
LEMMA RestInvariant == Spec => []Rest
<1>1. Init => Rest
  <2> SUFFICES ASSUME Init PROVE Rest OBVIOUS
  <2>1. woken \in [Threads -> BOOLEAN] /\ broken \in BOOLEAN BY Zenon DEF Init
  <2>2. waiter \in [Threads -> {"idle", "armed", "waiting"}] BY DEF Init
  <2> QED BY <2>1, <2>2 DEF Init, Rest
<1>2. ExchangeInv /\ Rest /\ [Next]_vars => Rest' BY RestStep DEF ExchangeInv
<1> QED BY <1>1, <1>2, ExchangeInvariant, PTL DEF Spec

\* Records, copies, contexts, messages and waiters have their types; a task
\* that writes has a copy, of the thread it works on.
THEOREM TypeCorrect == Spec => []TypeOK
<1>1. ASSUME ExchangeInv, Rest PROVE TypeOK
  <2> USE <1>1
  <2>1. Types /\ RowsOK /\ \A x \in Tasks : TaskOK(x) BY DEF ExchangeInv
  <2>2. \A r \in Rows : cache[r] # None => store[r] # None BY <2>1 DEF RowsOK
  <2>3. todo \in [Tasks -> Seq(Operations)]
    <3>0. /\ \A p \in RequesterPrograms : p \in Seq(Operations)
          /\ \A p \in ResponderPrograms : p \in Seq(Operations)
          /\ <<>> \in Seq(Operations)
      BY RequesterFacts, ResponderFacts
    <3>1. \A p \in RequesterPrograms \cup ResponderPrograms \cup {<<>>} : p \in Seq(Operations)
      BY <3>0, Zenon
    <3> QED BY <3>1, <2>1 DEF Types
  <2>4. ASSUME NEW x \in Tasks
        PROVE  /\ phase[x] # "load" => ~ Idle(x) /\ copy[x] # None
               /\ copy[x] # None => copy[x].thread = ctx[x].thread
               /\ Idle(x) <=> ctx[x] = NoContext
    BY <2>1 DEF TaskOK, PlaceOK, CopyOK
  <2> QED BY <2>1, <2>2, <2>3, <2>4 DEF TypeOK, Types, Rest
<1> QED BY <1>1, ExchangeInvariant, RestInvariant, PTL

\* On a thread nothing disturbed, the DID the requester has stored for the
\* responder is the one in the responder's storage: whatever is lost, repeated,
\* overtaken or cut off by a crash.
THEOREM DidIsAgreed == Spec => []AgreedDid
<1>1. ASSUME ExchangeInv PROVE AgreedDid
  <2> SUFFICES ASSUME NEW t \in Threads, Orderly(t), store[t] # None, store[t].did # None
               PROVE  \E r \in Answered(t) : /\ store[r].did = store[t].did
                                             /\ store[r].state \in {"ResponseSent", "Completed"}
    BY DEF AgreedDid
  <2>1. Settled(t, store[t].did) BY <1>1 DEF ExchangeInv, DidOK
  <2> QED BY <2>1 DEF Settled, Bears, Answered
<1> QED BY <1>1, ExchangeInvariant, PTL

\* The responder's storage has a connection as Completed only if the
\* requester's has.
THEOREM CompletionIsMutual == Spec => []BothComplete
<1>1. ASSUME ExchangeInv PROVE BothComplete
  BY <1>1 DEF ExchangeInv, DoneOK, BothComplete, Answered, Concluded
<1> QED BY <1>1, ExchangeInvariant, PTL

\* A thread has at most one record in the responder's storage unless two of
\* its requests were handled at the same time.
THEOREM OneConnection == Spec => []OneConnectionPerThread
<1>1. ASSUME ExchangeInv PROVE OneConnectionPerThread
  <2> SUFFICES ASSUME NEW t \in Threads, t \notin overlapped PROVE Cardinality(Answered(t)) <= 1
    BY DEF OneConnectionPerThread
  <2>1. \A r, q \in Answered(t) : r = q BY <1>1 DEF ExchangeInv, ClaimOK
  <2>2. CASE Answered(t) = {} BY <2>2, FS_EmptySet
  <2>3. CASE Answered(t) # {}
    <3>1. PICK r : Answered(t) = {r} BY <2>1, <2>3
    <3>2. Cardinality({r}) = 1 BY FS_Singleton
    <3> QED BY <3>1, <3>2
  <2> QED BY <2>2, <2>3
<1> QED BY <1>1, ExchangeInvariant, PTL

\* wait_until_completed does not sleep past the write that completes its
\* record: a waiter that is not woken has not missed it.
THEOREM WakeUpIsKept == Spec => []NoLostWakeUp
<1>1. Init => NoLostWakeUp BY DEF Init, NoLostWakeUp, Rows
<1>2. ExchangeInv /\ Rest /\ NoLostWakeUp /\ [Next]_vars => NoLostWakeUp'
  BY WakeUpStep DEF ExchangeInv
<1> QED BY <1>1, <1>2, ExchangeInvariant, RestInvariant, PTL DEF Spec
=============================================================================
