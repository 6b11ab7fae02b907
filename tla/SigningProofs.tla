---------------------------- MODULE SigningProofs ----------------------------
(***************************************************************************)
(* Proofs about SigningSession, for every set of participants, thresholds  *)
(* and concurrent handlers and every number of messages and faults, and at *)
(* the end about SigningCounter, for every number of callers, bound on the *)
(* values and number of faults.                                            *)
(*                                                                         *)
(* The properties are about a session none of whose writes was lost to a   *)
(* concurrent handler (Undisturbed).  The invariant below ties what the    *)
(* handlers still have to do to what storage holds: the threshold was      *)
(* reached when a handler is about to combine, the combination is stored   *)
(* when one is about to distribute, and somebody is about to combine when  *)
(* the threshold was reached.                                              *)
(***************************************************************************)
EXTENDS SigningSession, SigningCounter, FiniteSetTheorems, SequenceTheorems, TLAPS

Combine == [op |-> "combine", arg |-> None]

CombineSteps == <<To("Combining"), Combine, To("Distributing")>>
DistributeSteps == <<Combine, To("Distributing")>>

\* What a handler may still have to do: a plan, or what is left of one.
Shapes ==
  Plans \cup {<<>>, <<To("Requested")>>, <<To("Consented"), To("Signing")>>, <<To("Signing")>>,
              CombineSteps, DistributeSteps, <<To("Distributing")>>, <<To("Completed")>>}

\* The copy a handler is about to save or to cache is its base, changed by its
\* operation.
CopiesMade ==
  \A t \in Tasks : phase[t] \in {"save", "cache"} =>
    LET o == Head(todo[t]) IN
    IF o.op = "create" THEN copy[t] = Fresh(o.arg)
                       ELSE /\ o.op # "ack"
                            /\ base[t] \in Session
                            /\ Permitted(base[t], o)
                            /\ copy[t] = Changed(base[t], o)

LocalInv ==
  /\ TypeOK
  /\ todo \in [Tasks -> Shapes]
  /\ CopiesMade
  /\ \A t \in Tasks : phase[t] = "fill" => Head(todo[t]).op # "create"
  /\ \A t \in Tasks : phase[t] \in {"fill", "cache"} => store # None

\* From Signing on, and past it: closed under can_transition_to.
Past == {"Combining", "Distributing"} \cup TerminalStates
From == {"Signing"} \cup Past

HasReached(session) == session.signed # {} /\ Cardinality(session.signed) >= session.required

\* A session that was combined is combined from enough signatures, and one that is
\* distributed was combined.
Sound(session) ==
  /\ session.combined # None => /\ session.combined \subseteq session.signed
                                /\ Cardinality(session.combined) >= session.required
  /\ session.state \in {"Distributing", "Completed"} => session.combined # None

StoreSound ==
  /\ store = None => accepted = {} /\ met = 0
  /\ store # None => Sound(store) /\ accepted \subseteq store.signed

CacheBehind ==
  cache # None =>
    /\ cache.state \in {"Distributing", "Completed"} => store.combined # None
    /\ cache.state \in Past => store.state \in Past

\* What a handler has still to do is justified by what is stored.
TodoBacked ==
  \A t \in Tasks :
    /\ todo[t] \in {CombineSteps, DistributeSteps, <<To("Distributing")>>} =>
         store # None /\ HasReached(store)
    /\ todo[t] \in {<<To("Distributing")>>, <<To("Completed")>>} =>
         store # None /\ store.combined # None

SignCached(t) == todo[t] # <<>> /\ phase[t] = "cache" /\ Head(todo[t]).op = "sign"

\* Of the signatures that were stored and not yet reported, one at most reached
\* the threshold, and none if that was reported already.
OneReaches ==
  /\ \A t \in Tasks : SignCached(t) => copy[t].signed \subseteq store.signed
  /\ \A t, u \in Tasks :
       SignCached(t) /\ SignCached(u)
         /\ Cardinality(copy[t].signed) = Cardinality(copy[u].signed) => t = u
  /\ met <= 1
  /\ met = 1 => /\ HasReached(store)
                /\ \A t \in Tasks : SignCached(t) =>
                     Cardinality(copy[t].signed) # store.required

AboutToCombine(t) == todo[t] = CombineSteps /\ phase[t] # "cache"

Responsible(t) == AboutToCombine(t) \/ (SignCached(t) /\ HasReached(copy[t]))

\* Signatures come in Signing only, so the handler that is about to combine finds
\* a session in Signing, or past it.
InSigning ==
  ~ early =>
    /\ \A t \in Tasks : todo[t] # <<>> /\ phase[t] = "save" /\ Head(todo[t]).op = "sign" =>
         base[t].state = "Signing"
    /\ store # None /\ store.signed # {} => store.state \in From
    /\ \A t \in Tasks : AboutToCombine(t) /\ cache # None => cache.state \in From

SomeoneActs ==
  ~ early /\ ~ broken /\ store # None =>
    (store.state = "Signing" /\ HasReached(store) => \E t \in Tasks : Responsible(t))

Safe == /\ StoreSound
        /\ CacheBehind
        /\ TodoBacked
        /\ OneReaches
        /\ InSigning
        /\ SomeoneActs

SessionInv == LocalInv /\ (Undisturbed => Safe)
-----------------------------------------------------------------------------
(* The operations a handler still has to do.                               *)

LEMMA TupleFacts ==
  /\ \A a : <<a>> # <<>> /\ Head(<<a>>) = a /\ Tail(<<a>>) = <<>>
  /\ \A a, b : <<a, b>> # <<>> /\ Head(<<a, b>>) = a /\ Tail(<<a, b>>) = <<b>>
  /\ \A a, b, c : /\ <<a, b, c>> # <<>> /\ Head(<<a, b, c>>) = a
                  /\ Tail(<<a, b, c>>) = <<b, c>>
  /\ \A a, b : <<a, b>> \o <<>> = <<a, b>>
  /\ \A a, b, c : <<a, b, c>> \o <<>> = <<a, b, c>>
OBVIOUS

\* What the first of a handler's operations says about the rest.
ShapeOf(q) ==
  LET o == Head(q) IN
  /\ o \in Operation
  /\ o.op = "create" => Tail(q) \in {<<>>, <<To("Requested")>>}
  /\ o.op \in {"consent", "sign", "ack"} => q = <<o>> /\ Tail(q) = <<>>
  /\ o.op = "combine" => q = DistributeSteps /\ Tail(q) = <<To("Distributing")>>
  /\ o.op = "to" =>
       /\ o = To(o.arg)
       /\ o.arg = "Combining" => q = CombineSteps /\ Tail(q) = DistributeSteps
       /\ o.arg = "Distributing" => q = <<To("Distributing")>>
       /\ o.arg = "Completed" => q = <<To("Completed")>>
       /\ o.arg # "Combining" => Tail(q) \in {<<>>, <<To("Signing")>>}
  /\ q = CombineSteps => o = To("Combining")
  /\ q = DistributeSteps => o = Combine
  /\ q = <<To("Distributing")>> => o = To("Distributing")
  /\ q = <<To("Completed")>> => o = To("Completed")

\* The first operation of a handler determines what comes after it.
LEMMA ShapeFacts ==
  ASSUME NEW q \in Shapes, q # <<>>
  PROVE  ShapeOf(q)
<1> USE TupleFacts
<1> DEFINE o == Head(q)
<1>1. ASSUME NEW n \in Thresholds, q = <<[op |-> "create", arg |-> n]>>
      PROVE  o = [op |-> "create", arg |-> n] /\ Tail(q) = <<>>
  BY <1>1
<1>2. ASSUME NEW n \in Thresholds, q = <<[op |-> "create", arg |-> n], To("Requested")>>
      PROVE  o = [op |-> "create", arg |-> n] /\ Tail(q) = <<To("Requested")>>
  BY <1>2
<1>8. ASSUME NEW n \in Thresholds, o = [op |-> "create", arg |-> n],
             Tail(q) \in {<<>>, <<To("Requested")>>}
      PROVE  ShapeOf(q)
  <2>1. /\ q # CombineSteps /\ q # DistributeSteps
        /\ q # <<To("Distributing")>> /\ q # <<To("Completed")>>
    BY <1>8 DEF To, Combine, CombineSteps, DistributeSteps
  <2>2. [op |-> "create", arg |-> n] \in Operation BY DEF Operation
  <2>3. o \in Operation /\ o.op = "create" BY <1>8, <2>2
  <2> QED BY <1>8, <2>1, <2>3 DEF ShapeOf
<1>9. ASSUME NEW s \in Signers, NEW k \in {"consent", "sign"}, q = <<[op |-> k, arg |-> s]>>
      PROVE  ShapeOf(q)
  <2>1. o = [op |-> k, arg |-> s] /\ Tail(q) = <<>>
    BY <1>9
  <2> QED BY <1>9, <2>1 DEF To, Combine, CombineSteps, DistributeSteps, Operation, ShapeOf
<1>3. CASE q = <<[op |-> "ack", arg |-> None]>>
  BY <1>3 DEF To, Combine, CombineSteps, DistributeSteps, Operation, ShapeOf
<1>4. CASE \E s \in {"Requested", "Declined", "Failed", "Abandoned", "Signing", "Distributing",
                     "Completed"} : q = <<To(s)>>
  BY <1>4 DEF To, Combine, CombineSteps, DistributeSteps, Operation, SessionStates, TerminalStates,
              ShapeOf
<1>5. CASE q = <<To("Consented"), To("Signing")>>
  BY <1>5 DEF To, Combine, CombineSteps, DistributeSteps, Operation, SessionStates, ShapeOf
<1>6. CASE q = CombineSteps
  BY <1>6 DEF To, Combine, CombineSteps, DistributeSteps, Operation, SessionStates, ShapeOf
<1>7. CASE q = DistributeSteps
  BY <1>7 DEF To, Combine, CombineSteps, DistributeSteps, Operation, SessionStates, ShapeOf
<1>10. CASE \E n \in Thresholds : q = <<[op |-> "create", arg |-> n]>>
  BY <1>1, <1>8, <1>10
<1>11. CASE \E n \in Thresholds : q = <<[op |-> "create", arg |-> n], To("Requested")>>
  BY <1>2, <1>8, <1>11
<1> QED BY <1>3, <1>4, <1>5, <1>6, <1>7, <1>9, <1>10, <1>11 DEF Shapes, Plans

\* What is left to do is again such a list.
LEMMA ShapesClosed ==
  /\ {<<>>, <<To("Requested")>>, <<To("Consented"), To("Signing")>>, <<To("Signing")>>,
      CombineSteps, DistributeSteps, <<To("Distributing")>>, <<To("Completed")>>} \subseteq Shapes
  /\ Plans \subseteq Shapes
  /\ Shapes \subseteq Seq(Operation)
<1>1. \A o \in Operation : <<o>> \in Seq(Operation) OBVIOUS
<1>2. \A o, p \in Operation : <<o, p>> \in Seq(Operation) OBVIOUS
<1>3. \A o, p, r \in Operation : <<o, p, r>> \in Seq(Operation) OBVIOUS
<1>4. /\ Combine \in Operation /\ \A s \in SessionStates : To(s) \in Operation
      /\ \A n \in Thresholds : [op |-> "create", arg |-> n] \in Operation
      /\ \A s \in Signers : /\ [op |-> "consent", arg |-> s] \in Operation
                            /\ [op |-> "sign", arg |-> s] \in Operation
      /\ [op |-> "ack", arg |-> None] \in Operation
  BY DEF Operation, Combine
<1>5. {"Requested", "Consented", "Signing", "Combining", "Distributing", "Completed", "Declined",
       "Failed", "Abandoned"} \subseteq SessionStates
  BY DEF SessionStates, TerminalStates
<1>6. Plans \subseteq Seq(Operation)
  <2>1. {<<[op |-> "create", arg |-> n]>> : n \in Thresholds} \subseteq Seq(Operation)
    BY <1>1, <1>4
  <2>2. {<<[op |-> "create", arg |-> n], To("Requested")>> : n \in Thresholds} \subseteq Seq(Operation)
    BY <1>2, <1>4, <1>5
  <2>3. {<<[op |-> "consent", arg |-> s]>> : s \in Signers} \subseteq Seq(Operation)
    BY <1>1, <1>4
  <2>4. {<<[op |-> "sign", arg |-> s]>> : s \in Signers} \subseteq Seq(Operation)
    BY <1>1, <1>4
  <2>5. {<<To(s)>> : s \in {"Requested", "Declined", "Failed", "Abandoned"}} \subseteq Seq(Operation)
    BY <1>1, <1>4, <1>5
  <2>6. <<[op |-> "ack", arg |-> None]>> \in Seq(Operation) BY <1>1, <1>4
  <2> QED BY <2>1, <2>2, <2>3, <2>4, <2>5, <2>6 DEF Plans
<1>7. CombineSteps \in Seq(Operation) /\ DistributeSteps \in Seq(Operation)
  BY <1>2, <1>3, <1>4, <1>5 DEF CombineSteps, DistributeSteps
<1>8. {<<>>, <<To("Requested")>>, <<To("Consented"), To("Signing")>>, <<To("Signing")>>,
       <<To("Distributing")>>, <<To("Completed")>>} \subseteq Seq(Operation)
  BY <1>1, <1>2, <1>4, <1>5
<1> QED BY <1>6, <1>7, <1>8 DEF Shapes

\* What the handler does after an operation: the follow-up of a consent or of a
\* signature that reaches the threshold, or the rest of its plan.
LEMMA FollowUpFacts ==
  ASSUME NEW q \in Shapes, q # <<>>, NEW session
  PROVE  LET o == Head(q)
             rest == FollowUp(session, o) \o Tail(q)
         IN  /\ rest \in Shapes
             /\ o.op = "sign" /\ HasReached(session) => rest = CombineSteps
             /\ o.op = "sign" /\ session.signed # {} /\ ~ HasReached(session) => rest = <<>>
             /\ o.op = "consent" => rest \in {<<>>, <<To("Consented"), To("Signing")>>}
             /\ o.op \notin {"sign", "consent"} => rest = Tail(q)
<1> DEFINE o == Head(q)
           rest == FollowUp(session, o) \o Tail(q)
<1> HIDE DEF o, rest
<1>0. ShapeOf(q) BY ShapeFacts
<1>1. Tail(q) \in Shapes
  <2>1. o \in Operation BY <1>0 DEF ShapeOf, o
  <2>2. o.op \in {"create", "to", "consent", "sign", "combine", "ack"}
    BY <2>1 DEF Operation, To
  <2> QED BY <1>0, <2>2, ShapesClosed DEF ShapeOf, o
<1>5. \A r \in Shapes : <<>> \o r = r /\ r \o <<>> = r
  BY ShapesClosed, ConcatEmptySeq
<1>2. CASE o.op = "sign"
  <2>1. Tail(q) = <<>> BY <1>0, <1>2 DEF ShapeOf, o
  <2>2. CASE HasReached(session)
    <3>1. FollowUp(session, o) = CombineSteps
      BY <1>2, <2>2 DEF FollowUp, HasReached, CombineSteps, Combine
    <3>2. rest = CombineSteps BY <1>5, <2>1, <3>1, ShapesClosed DEF rest
    <3> QED BY <1>2, <2>2, <3>2, ShapesClosed DEF o, rest
  <2>3. CASE ~ HasReached(session)
    <3>1. /\ FollowUp(session, o) \in {<<>>, CombineSteps}
          /\ session.signed # {} => FollowUp(session, o) = <<>>
      BY <1>2, <2>3 DEF FollowUp, HasReached, CombineSteps, Combine
    <3>2. rest = FollowUp(session, o) BY <1>5, <2>1, <3>1, ShapesClosed DEF rest
    <3>3. rest \in Shapes BY <3>1, <3>2, ShapesClosed
    <3> QED BY <1>2, <2>3, <3>1, <3>2, <3>3 DEF o, rest
  <2> QED BY <2>2, <2>3
<1>3. CASE o.op = "consent"
  <2>1. Tail(q) = <<>> BY <1>0, <1>3 DEF ShapeOf, o
  <2>2. FollowUp(session, o) \in {<<>>, <<To("Consented"), To("Signing")>>}
    BY <1>3 DEF FollowUp
  <2>3. rest \in {<<>>, <<To("Consented"), To("Signing")>>}
    BY <1>1, <1>5, <2>1, <2>2, TupleFacts DEF rest
  <2> QED BY <1>3, <2>3, ShapesClosed DEF o, rest
<1>4. CASE o.op \notin {"sign", "consent"}
  <2>1. FollowUp(session, o) = <<>> BY <1>4 DEF FollowUp
  <2>2. rest = Tail(q) BY <1>1, <1>5, <2>1 DEF rest
  <2> QED BY <1>1, <1>4, <2>2 DEF o, rest
<1> QED BY <1>2, <1>3, <1>4

\* No message makes a handler start by combining, distributing or completing.
LEMMA PlanFacts ==
  ASSUME NEW p \in Plans
  PROVE  /\ p \in Shapes /\ p # <<>>
         /\ p \notin {CombineSteps, DistributeSteps, <<To("Distributing")>>, <<To("Completed")>>}
<1> USE TupleFacts
<1>1. ASSUME NEW n \in Thresholds,
             p \in {<<[op |-> "create", arg |-> n]>>, <<[op |-> "create", arg |-> n], To("Requested")>>}
      PROVE  p # <<>> /\ Head(p) = [op |-> "create", arg |-> n]
  BY <1>1
<1>2. ASSUME NEW s \in Signers, NEW k \in {"consent", "sign"}, p = <<[op |-> k, arg |-> s]>>
      PROVE  p # <<>> /\ Head(p) = [op |-> k, arg |-> s]
  BY <1>2
<1>3. ASSUME NEW s \in {"Requested", "Declined", "Failed", "Abandoned"}, p = <<To(s)>>
      PROVE  p # <<>> /\ Head(p) = To(s)
  BY <1>3
<1>4. p = <<[op |-> "ack", arg |-> None]>> => p # <<>> /\ Head(p) = [op |-> "ack", arg |-> None]
  OBVIOUS
<1>5. p # <<>> /\ (Head(p).op \in {"create", "consent", "sign", "ack"}
                     \/ \E s \in {"Requested", "Declined", "Failed", "Abandoned"} : Head(p) = To(s))
  BY <1>1, <1>2, <1>3, <1>4 DEF Plans
<1>6. /\ Head(CombineSteps) = To("Combining") /\ Head(DistributeSteps) = Combine
      /\ Head(<<To("Distributing")>>) = To("Distributing")
      /\ Head(<<To("Completed")>>) = To("Completed")
  BY DEF CombineSteps, DistributeSteps
<1> QED BY <1>5, <1>6, ShapesClosed DEF To, Combine
-----------------------------------------------------------------------------
(* What an operation makes of a session.                                   *)

\* The participants that signed are finitely many.
LEMMA SignedFinite ==
  ASSUME NEW S \in SUBSET Signers
  PROVE  IsFiniteSet(S) /\ Cardinality(S) \in Nat
BY SigningAssumption, FS_Subset, FS_CardinalityType

\* A threshold may be 0 or more than there are participants.
LEMMA ReachedFacts ==
  ASSUME NEW s \in Session
  PROVE  /\ s.required \in Nat
         /\ Cardinality(s.signed) \in Nat /\ IsFiniteSet(s.signed)
         /\ HasReached(s) => s.signed # {}
         /\ s.combined # None => s.combined \in SUBSET Signers
<1>1. s.required \in Thresholds /\ s.signed \in SUBSET Signers /\ s.combined \in {None} \cup SUBSET Signers
  BY DEF Session
<1>3. s.required \in Nat BY <1>1, SigningAssumption
<1>4. Cardinality(s.signed) \in Nat /\ IsFiniteSet(s.signed) BY <1>1, SignedFinite
<1> QED BY <1>1, <1>3, <1>4 DEF HasReached

\* The states past Signing are closed under can_transition_to, so are those from
\* Signing on, and Signing is entered from Consented only.
LEMMA TransitionFacts ==
  ASSUME NEW a, NEW b, <<a, b>> \in CanTransition
  PROVE  /\ a \in Past => b \in Past
         /\ a \in From => b \in From
         /\ b = "Signing" => a = "Consented"
         /\ b = "Signing" => a \notin From
BY DEF CanTransition, Past, From, SessionStates, TerminalStates

\* A session in Signing may start combining.
LEMMA SigningCombines == <<"Signing", "Combining">> \in CanTransition
BY DEF CanTransition

Grows(s, c, o) ==
  /\ c \in Session
  /\ c.required = s.required
  /\ s.signed \subseteq c.signed
  /\ o.op = "sign" => /\ c.signed = s.signed \cup {o.arg}
                      /\ Cardinality(c.signed) = Cardinality(s.signed) + 1
  /\ o.op # "sign" => c.signed = s.signed
  /\ o.op # "combine" => c.combined = s.combined
  /\ o.op = "combine" => c.combined = s.signed /\ c.combined # None
  /\ o.op # "to" => c.state = s.state
  /\ o.op = "to" => c.state = o.arg /\ <<s.state, o.arg>> \in CanTransition

\* An operation the session permits loses nothing that it holds.
LEMMA ChangedFacts ==
  ASSUME NEW s \in Session, NEW o \in Operation, Permitted(s, o)
  PROVE  Grows(s, Changed(s, o), o)
<1>1. /\ s.state \in SessionStates /\ s.required \in Thresholds /\ s.consented \in SUBSET Signers
      /\ s.signed \in SUBSET Signers /\ s.combined \in {None} \cup SUBSET Signers
      /\ s = [state |-> s.state, required |-> s.required, consented |-> s.consented,
              signed |-> s.signed, combined |-> s.combined]
  BY DEF Session
<1>2. CASE o.op = "consent"
  <2>1. o.arg \in Signers BY <1>2 DEF Operation, To
  <2>2. Changed(s, o) = [s EXCEPT !.consented = @ \cup {o.arg}] BY <1>2 DEF Changed
  <2> QED BY <1>1, <1>2, <2>1, <2>2 DEF Grows, Session
<1>3. CASE o.op = "sign"
  <2>1. o.arg \in Signers BY <1>3 DEF Operation, To
  <2>2. Changed(s, o) = [s EXCEPT !.signed = @ \cup {o.arg}] BY <1>3 DEF Changed
  <2>3. o.arg \notin s.signed BY <1>3 DEF Permitted
  <2>4. Cardinality(s.signed \cup {o.arg}) = Cardinality(s.signed) + 1
    BY <1>1, <2>3, SignedFinite, FS_AddElement
  <2> QED BY <1>1, <1>3, <2>1, <2>2, <2>4 DEF Grows, Session
<1>4. CASE o.op = "to"
  <2>1. o.arg \in SessionStates BY <1>4 DEF Operation, To
  <2>2. Changed(s, o) = [s EXCEPT !.state = o.arg] BY <1>4 DEF Changed
  <2>3. <<s.state, o.arg>> \in CanTransition BY <1>4 DEF Permitted
  <2> QED BY <1>1, <1>4, <2>1, <2>2, <2>3 DEF Grows, Session
<1>5. CASE o.op = "combine"
  <2>1. Changed(s, o) = [s EXCEPT !.combined = s.signed] BY <1>5 DEF Changed
  <2>2. s.signed # None BY <1>1, NoneAssumption
  <2> QED BY <1>1, <1>5, <2>1, <2>2 DEF Grows, Session
<1> QED BY <1>2, <1>3, <1>4, <1>5 DEF Permitted

\* A new session is one, with no signature.
LEMMA FreshFacts ==
  ASSUME NEW n \in Thresholds
  PROVE  /\ Fresh(n) \in Session
         /\ Fresh(n).signed = {} /\ Fresh(n).combined = None /\ Fresh(n).state = "Proposed"
BY DEF Fresh, Session, SessionStates
-----------------------------------------------------------------------------
(* What holds whether or not the handlers of the session disturb each other. *)

\* The part of LocalInv that speaks of one handler.
TaskOK(t) ==
  /\ todo[t] \in Shapes
  /\ phase[t] \in {"load", "fill", "save", "cache"}
  /\ copy[t] \in Session \cup {None}
  /\ base[t] \in Session \cup {None}
  /\ phase[t] # "load" => todo[t] # <<>> /\ copy[t] # None
  /\ phase[t] \in {"save", "cache"} =>
       LET o == Head(todo[t]) IN
       IF o.op = "create" THEN copy[t] = Fresh(o.arg)
                          ELSE /\ o.op # "ack"
                               /\ base[t] \in Session
                               /\ Permitted(base[t], o)
                               /\ copy[t] = Changed(base[t], o)
  /\ phase[t] = "fill" => Head(todo[t]).op # "create"

TaskFunctions == /\ DOMAIN todo = Tasks /\ todo = [t \in Tasks |-> todo[t]]
             /\ phase = [t \in Tasks |-> phase[t]]
             /\ copy = [t \in Tasks |-> copy[t]]
             /\ base = [t \in Tasks |-> base[t]]

SharedOK ==
  /\ store \in Session \cup {None}
  /\ cache \in Session \cup {None}
  /\ cache # None => store # None
  /\ accepted \subseteq Signers
  /\ messages \in Nat /\ faults \in Nat /\ met \in Nat
  /\ \A t \in Tasks : phase[t] \in {"fill", "cache"} => store # None

FlagsOK ==
  early \in BOOLEAN /\ clobbered \in BOOLEAN /\ recreated \in BOOLEAN /\ broken \in BOOLEAN

TasksOK == \A t \in Tasks : TaskOK(t)

LEMMA LocalParts == LocalInv <=> TaskFunctions /\ SharedOK /\ FlagsOK /\ \A t \in Tasks : TaskOK(t)
<1>1. ASSUME LocalInv PROVE TaskFunctions /\ SharedOK /\ FlagsOK /\ \A t \in Tasks : TaskOK(t)
  <2>1. TaskFunctions BY <1>1 DEF LocalInv, TypeOK, TaskFunctions
  <2>2. SharedOK BY <1>1 DEF LocalInv, TypeOK, SharedOK
  <2>4. FlagsOK BY <1>1 DEF LocalInv, TypeOK, FlagsOK
  <2>3. ASSUME NEW t \in Tasks PROVE TaskOK(t)
    BY <1>1, <2>3 DEF LocalInv, TypeOK, CopiesMade, TaskOK
  <2> QED BY <2>1, <2>2, <2>3, <2>4
<1>2. ASSUME TaskFunctions, SharedOK, FlagsOK, \A t \in Tasks : TaskOK(t) PROVE LocalInv
  <2>1. todo \in [Tasks -> Shapes] BY <1>2 DEF TaskFunctions, TaskOK
  <2>2. todo \in [Tasks -> Seq(Operation)] BY <2>1, ShapesClosed
  <2>3. /\ phase \in [Tasks -> {"load", "fill", "save", "cache"}]
        /\ copy \in [Tasks -> Session \cup {None}]
        /\ base \in [Tasks -> Session \cup {None}]
    BY <1>2 DEF TaskFunctions, TaskOK
  <2>4. TypeOK BY <1>2, <2>2, <2>3 DEF TypeOK, SharedOK, FlagsOK, TaskOK
  <2>5. CopiesMade BY <1>2 DEF CopiesMade, TaskOK
  <2> QED BY <1>2, <2>1, <2>4, <2>5 DEF LocalInv, TaskOK, SharedOK
<1> QED BY <1>1, <1>2

LEMMA LocalPartsNext ==
  TaskFunctions' /\ SharedOK' /\ FlagsOK' /\ (\A t \in Tasks : TaskOK(t)') => LocalInv'
<1>1. TaskFunctions /\ SharedOK /\ FlagsOK /\ TasksOK => LocalInv BY LocalParts DEF TasksOK
<1>2. (TaskFunctions /\ SharedOK /\ FlagsOK /\ TasksOK)' => LocalInv' BY <1>1, PTL
<1> QED BY <1>2 DEF TasksOK

\* A handler that did not move is as it was.
LEMMA OtherTask ==
  ASSUME NEW u, TaskOK(u), todo'[u] = todo[u], phase'[u] = phase[u], copy'[u] = copy[u],
         base'[u] = base[u]
  PROVE  TaskOK(u)'
BY DEF TaskOK

\* A handler that has returned has nothing left.
LEMMA ReturnFacts ==
  ASSUME TaskFunctions, NEW t \in Tasks, Return(t), \A u \in Tasks : TaskOK(u)
  PROVE  /\ TaskFunctions'
         /\ \A u \in Tasks : TaskOK(u)'
         /\ todo'[t] = <<>> /\ phase'[t] = "load"
         /\ \A u \in Tasks \ {t} : /\ todo'[u] = todo[u] /\ phase'[u] = phase[u]
                                   /\ copy'[u] = copy[u] /\ base'[u] = base[u]
<1>1. TaskFunctions' BY DEF TaskFunctions, Return
<1>2. todo'[t] = <<>> /\ phase'[t] = "load" /\ copy'[t] = None /\ base'[t] = None
  BY DEF TaskFunctions, Return
<1>3. \A u \in Tasks \ {t} : /\ todo'[u] = todo[u] /\ phase'[u] = phase[u]
                             /\ copy'[u] = copy[u] /\ base'[u] = base[u]
  BY DEF TaskFunctions, Return
<1>4. TaskOK(t)' BY <1>2, ShapesClosed DEF TaskOK
<1> QED BY <1>1, <1>2, <1>3, <1>4, OtherTask

\* What Use does to the handler t, and that it leaves the others alone.
Used(t, s) ==
  LET o == Head(todo[t]) IN
  /\ o.op # "create"
  /\ \/ /\ o.op = "ack" /\ s.state = "Distributing"
        /\ todo'[t] = <<To("Completed")>> /\ phase'[t] = "load" /\ early' = early
     \/ /\ o.op = "ack" /\ todo'[t] = <<>> /\ phase'[t] = "load" /\ early' = early
     \/ /\ o.op # "ack" /\ Permitted(s, o)
        /\ todo'[t] = todo[t] /\ phase'[t] = "save" /\ base'[t] = s /\ copy'[t] = Changed(s, o)
        /\ early' = (early \/ (o.op = "sign" /\ s.state # "Signing"))
     \/ /\ o.op # "ack" /\ ~ Permitted(s, o)
        /\ todo'[t] = <<>> /\ phase'[t] = "load" /\ early' = early
  /\ \A u \in Tasks \ {t} : /\ todo'[u] = todo[u] /\ phase'[u] = phase[u]
                            /\ copy'[u] = copy[u] /\ base'[u] = base[u]

LEMMA UseFacts ==
  ASSUME TaskFunctions, \A u \in Tasks : TaskOK(u), NEW t \in Tasks, NEW s \in Session,
         todo[t] # <<>>, Head(todo[t]).op # "create", Use(t, s), early \in BOOLEAN
  PROVE  /\ TaskFunctions' /\ early' \in BOOLEAN
         /\ \A u \in Tasks : TaskOK(u)'
         /\ Used(t, s)
<1> DEFINE o == Head(todo[t])
<1>0. todo[t] \in Shapes /\ ShapeOf(todo[t]) BY ShapeFacts DEF TaskOK
<1>1. o \in Operation BY <1>0 DEF ShapeOf
<1>2. CASE /\ o.op = "ack" /\ s.state = "Distributing"
           /\ todo' = [todo EXCEPT ![t] = <<To("Completed")>>]
           /\ phase' = [phase EXCEPT ![t] = "load"]
           /\ copy' = [copy EXCEPT ![t] = None]
           /\ UNCHANGED <<base, early>>
  <2>1. TaskFunctions' BY <1>2 DEF TaskFunctions
  <2>2. todo'[t] = <<To("Completed")>> /\ phase'[t] = "load" /\ copy'[t] = None /\ base'[t] = base[t]
    BY <1>2 DEF TaskFunctions
  <2>3. \A u \in Tasks \ {t} : /\ todo'[u] = todo[u] /\ phase'[u] = phase[u]
                               /\ copy'[u] = copy[u] /\ base'[u] = base[u]
    BY <1>2 DEF TaskFunctions
  <2>4. TaskOK(t)' BY <2>2, ShapesClosed DEF TaskOK
  <2>5. Used(t, s) BY <1>2, <2>2, <2>3 DEF Used
  <2> QED BY <1>2, <2>1, <2>3, <2>4, <2>5, OtherTask
<1>3. CASE /\ o.op = "ack" /\ s.state # "Distributing"
           /\ Return(t) /\ UNCHANGED early
  <2>1. Used(t, s) BY <1>3, ReturnFacts DEF Used
  <2> QED BY <1>3, <2>1, ReturnFacts
<1>4. CASE /\ o.op # "ack" /\ Permitted(s, o)
           /\ copy' = [copy EXCEPT ![t] = Changed(s, o)]
           /\ base' = [base EXCEPT ![t] = s]
           /\ phase' = [phase EXCEPT ![t] = "save"]
           /\ early' = (early \/ (o.op = "sign" /\ s.state # "Signing"))
           /\ UNCHANGED todo
  <2>1. TaskFunctions' BY <1>4 DEF TaskFunctions
  <2>2. todo'[t] = todo[t] /\ phase'[t] = "save" /\ copy'[t] = Changed(s, o) /\ base'[t] = s
    BY <1>4 DEF TaskFunctions
  <2>3. \A u \in Tasks \ {t} : /\ todo'[u] = todo[u] /\ phase'[u] = phase[u]
                               /\ copy'[u] = copy[u] /\ base'[u] = base[u]
    BY <1>4 DEF TaskFunctions
  <2>4. Changed(s, o) \in Session BY <1>1, <1>4, ChangedFacts DEF Grows
  <2>5. Changed(s, o) # None BY <2>4, NoneAssumption
  <2>6. TaskOK(t)' BY <1>0, <1>4, <2>2, <2>4, <2>5 DEF TaskOK
  <2>7. Used(t, s) BY <1>4, <2>2, <2>3 DEF Used
  <2>8. early' \in BOOLEAN BY <1>4
  <2> QED BY <2>1, <2>3, <2>6, <2>7, <2>8, OtherTask
<1>5. CASE /\ o.op # "ack" /\ ~ Permitted(s, o)
           /\ Return(t) /\ UNCHANGED early
  <2>1. Used(t, s) BY <1>5, ReturnFacts DEF Used
  <2> QED BY <1>5, <2>1, ReturnFacts
<1> QED BY <1>2, <1>3, <1>4, <1>5 DEF Use

LEMMA LocalInit == Init => LocalInv
<1> SUFFICES ASSUME Init PROVE LocalInv OBVIOUS
<1>1. TaskFunctions BY DEF Init, TaskFunctions
<1>2. SharedOK BY DEF Init, SharedOK
<1>4. FlagsOK BY DEF Init, FlagsOK
<1>3. \A t \in Tasks : TaskOK(t) BY ShapesClosed DEF Init, TaskOK
<1> QED BY <1>1, <1>2, <1>3, <1>4, LocalParts

\* What Load does: a session is created, used, not found, or read from storage.
Loaded(t) ==
  \/ /\ Head(todo[t]).op = "create"
     /\ phase'[t] = "save" /\ todo'[t] = todo[t] /\ early' = early
  \/ cache # None /\ Used(t, cache)
  \/ /\ cache = None /\ store = None
     /\ todo'[t] = <<>> /\ phase'[t] = "load" /\ early' = early
  \/ phase'[t] = "fill" /\ todo'[t] = todo[t] /\ early' = early /\ store # None

LEMMA LoadFacts ==
  ASSUME LocalInv, NEW t \in Tasks, Load(t)
  PROVE  /\ LocalInv'
         /\ Loaded(t)
         /\ phase'[t] # "cache"
         /\ \A u \in Tasks \ {t} : /\ todo'[u] = todo[u] /\ phase'[u] = phase[u]
                                   /\ copy'[u] = copy[u] /\ base'[u] = base[u]
<1> DEFINE Rest == \A u \in Tasks \ {t} : /\ todo'[u] = todo[u] /\ phase'[u] = phase[u]
                                          /\ copy'[u] = copy[u] /\ base'[u] = base[u]
<1>1. TaskFunctions /\ SharedOK /\ FlagsOK /\ \A u \in Tasks : TaskOK(u) BY LocalParts
<1>2. todo[t] # <<>> /\ phase[t] = "load" /\ todo[t] \in Shapes /\ ShapeOf(todo[t])
  BY <1>1, ShapeFacts DEF Load, TaskOK
<1>3. SUFFICES /\ TaskFunctions' /\ early' \in BOOLEAN /\ \A u \in Tasks : TaskOK(u)'
               /\ Loaded(t) /\ phase'[t] # "cache" /\ Rest
               /\ phase'[t] = "fill" => store # None
  <2>1. UNCHANGED <<store, cache, messages, faults, accepted, met, clobbered, recreated, broken>>
    BY DEF Load
  <2>2. SharedOK' BY <1>1, <1>3, <2>1 DEF SharedOK
  <2>3. FlagsOK BY LocalParts
  <2>4. FlagsOK' BY <1>3, <2>3 DEF FlagsOK, Load
  <2> QED BY <1>3, <2>2, <2>4, LocalPartsNext
<1>4. CASE /\ Head(todo[t]).op = "create"
           /\ copy' = [copy EXCEPT ![t] = Fresh(Head(todo[t]).arg)]
           /\ phase' = [phase EXCEPT ![t] = "save"]
           /\ UNCHANGED <<todo, base, early>>
  <2>1. TaskFunctions' BY <1>1, <1>4 DEF TaskFunctions
  <2>2. /\ todo'[t] = todo[t] /\ phase'[t] = "save" /\ copy'[t] = Fresh(Head(todo[t]).arg)
        /\ base'[t] = base[t]
    BY <1>1, <1>4 DEF TaskFunctions
  <2>3. Rest BY <1>1, <1>4 DEF TaskFunctions
  <2>4. Head(todo[t]).arg \in Thresholds BY <1>2, <1>4 DEF ShapeOf, Operation, To
  <2>5. Fresh(Head(todo[t]).arg) \in Session BY <2>4, FreshFacts
  <2>6. Fresh(Head(todo[t]).arg) # None BY <2>5, NoneAssumption
  <2>7. TaskOK(t)' BY <1>1, <1>2, <1>4, <2>2, <2>5, <2>6 DEF TaskOK
  <2>8. Loaded(t) BY <1>4, <2>2 DEF Loaded
  <2>9. early' \in BOOLEAN BY <1>1, <1>4 DEF FlagsOK
  <2> QED BY <1>1, <2>1, <2>2, <2>3, <2>7, <2>8, <2>9, OtherTask
<1>5. CASE Head(todo[t]).op # "create" /\ cache # None /\ Use(t, cache)
  <2>1. cache \in Session /\ early \in BOOLEAN BY <1>1, <1>5 DEF SharedOK, FlagsOK
  <2>2. /\ TaskFunctions' /\ early' \in BOOLEAN /\ \A u \in Tasks : TaskOK(u)'
        /\ Used(t, cache)
    BY <1>1, <1>2, <1>5, <2>1, UseFacts
  <2>3. phase'[t] \notin {"cache", "fill"} /\ Rest BY <2>2 DEF Used
  <2> QED BY <1>5, <2>2, <2>3 DEF Loaded
<1>6. CASE /\ Head(todo[t]).op # "create" /\ cache = None /\ store = None
           /\ Return(t) /\ UNCHANGED early
  <2>1. early' \in BOOLEAN BY <1>1, <1>6 DEF FlagsOK
  <2>2. Loaded(t) BY <1>1, <1>6, ReturnFacts DEF Loaded
  <2>3. phase'[t] = "load" BY <1>1, <1>6, ReturnFacts
  <2> QED BY <1>1, <1>6, <2>1, <2>2, <2>3, ReturnFacts
<1>7. CASE /\ Head(todo[t]).op # "create" /\ cache = None /\ store # None
           /\ copy' = [copy EXCEPT ![t] = store]
           /\ phase' = [phase EXCEPT ![t] = "fill"]
           /\ UNCHANGED <<todo, base, early>>
  <2>1. TaskFunctions' BY <1>1, <1>7 DEF TaskFunctions
  <2>2. todo'[t] = todo[t] /\ phase'[t] = "fill" /\ copy'[t] = store /\ base'[t] = base[t]
    BY <1>1, <1>7 DEF TaskFunctions
  <2>3. Rest BY <1>1, <1>7 DEF TaskFunctions
  <2>4. TaskOK(t)' BY <1>1, <1>2, <1>7, <2>2 DEF TaskOK, SharedOK
  <2>5. early' \in BOOLEAN BY <1>1, <1>7 DEF FlagsOK
  <2>6. Loaded(t) BY <1>7, <2>2 DEF Loaded
  <2> QED BY <1>1, <1>7, <2>1, <2>2, <2>3, <2>4, <2>5, <2>6, OtherTask
<1> QED BY <1>4, <1>5, <1>6, <1>7 DEF Load

LEMMA FillFacts ==
  ASSUME LocalInv, NEW t \in Tasks, FillCache(t)
  PROVE  /\ LocalInv' /\ Used(t, copy[t]) /\ phase'[t] # "cache" /\ phase[t] = "fill"
         /\ copy[t] \in Session
<1>1. TaskFunctions /\ SharedOK /\ FlagsOK /\ \A u \in Tasks : TaskOK(u) BY LocalParts
<1>2. phase[t] = "fill" /\ todo[t] # <<>> /\ Head(todo[t]).op # "create" /\ copy[t] \in Session
  BY <1>1 DEF FillCache, TaskOK
<1>3. Use(t, copy[t]) /\ early \in BOOLEAN BY <1>1 DEF FillCache, FlagsOK
<1>4. TaskFunctions' /\ early' \in BOOLEAN /\ \A u \in Tasks : TaskOK(u)'
  BY <1>1, <1>2, <1>3, UseFacts
<1>5. Used(t, copy[t]) BY <1>1, <1>2, <1>3, UseFacts
<1>6. phase'[t] \notin {"fill", "cache"} /\ \A u \in Tasks \ {t} : phase'[u] = phase[u] BY <1>5 DEF Used
<1>7. store # None BY <1>1, <1>2 DEF SharedOK
<1>8. /\ cache' = copy[t] /\ clobbered' = (clobbered \/ copy[t] # store)
      /\ UNCHANGED <<store, messages, faults, accepted, met, recreated, broken>>
  BY DEF FillCache
<1>9. SharedOK' BY <1>1, <1>2, <1>4, <1>6, <1>7, <1>8 DEF SharedOK
<1>10. FlagsOK'
  <2>1. FlagsOK BY LocalParts
  <2> QED BY <1>4, <2>1 DEF FlagsOK, FillCache
<1> QED BY <1>2, <1>4, <1>5, <1>6, <1>9, <1>10, LocalPartsNext

LEMMA SaveFacts ==
  ASSUME LocalInv, NEW t \in Tasks, SaveSession(t)
  PROVE  /\ LocalInv' /\ copy[t] \in Session /\ todo[t] \in Shapes /\ todo[t] # <<>>
         /\ phase[t] = "save" /\ phase'[t] = "cache"
         /\ \A u \in Tasks \ {t} : phase'[u] = phase[u]
<1>1. TaskFunctions /\ SharedOK /\ FlagsOK /\ \A u \in Tasks : TaskOK(u) BY LocalParts
<1>2. phase[t] = "save" /\ todo[t] # <<>> /\ copy[t] \in Session /\ todo[t] \in Shapes
  BY <1>1 DEF SaveSession, TaskOK
<1>3. TaskFunctions' BY <1>1 DEF TaskFunctions, SaveSession
<1>4. phase'[t] = "cache" /\ \A u \in Tasks \ {t} : phase'[u] = phase[u]
  BY <1>1 DEF TaskFunctions, SaveSession
<1>5. UNCHANGED <<cache, todo, copy, base, messages, faults, accepted, met, early, broken>>
  BY DEF SaveSession
<1>6. TaskOK(t)' BY <1>1, <1>2, <1>4, <1>5 DEF TaskOK
<1>7. \A u \in Tasks : TaskOK(u)' BY <1>1, <1>4, <1>5, <1>6, OtherTask
<1>8. store' = copy[t] /\ recreated' \in BOOLEAN /\ clobbered' \in BOOLEAN
  BY <1>1 DEF SaveSession, FlagsOK
<1>9. copy[t] # None BY <1>2, NoneAssumption
<1>10. SharedOK' BY <1>1, <1>2, <1>5, <1>8, <1>9 DEF SharedOK
<1>11. FlagsOK'
  <2>1. FlagsOK BY LocalParts
  <2> QED BY <1>8, <2>1 DEF FlagsOK, SaveSession
<1> QED BY <1>2, <1>3, <1>4, <1>7, <1>10, <1>11, LocalPartsNext

LEMMA CacheFacts ==
  ASSUME LocalInv, NEW t \in Tasks, CacheSession(t)
  PROVE  /\ LocalInv' /\ copy[t] \in Session /\ todo[t] \in Shapes /\ todo[t] # <<>>
         /\ phase[t] = "cache" /\ phase'[t] = "load" /\ store \in Session
         /\ todo'[t] = FollowUp(copy[t], Head(todo[t])) \o Tail(todo[t])
         /\ \A u \in Tasks \ {t} : /\ todo'[u] = todo[u] /\ phase'[u] = phase[u]
                                   /\ copy'[u] = copy[u] /\ base'[u] = base[u]
<1> DEFINE o == Head(todo[t])
<1>1. TaskFunctions /\ SharedOK /\ FlagsOK /\ \A u \in Tasks : TaskOK(u) BY LocalParts
<1>2. phase[t] = "cache" /\ todo[t] # <<>> /\ copy[t] \in Session /\ todo[t] \in Shapes
  BY <1>1 DEF CacheSession, TaskOK
<1>3. TaskFunctions' BY <1>1 DEF TaskFunctions, CacheSession
<1>4. /\ todo'[t] = FollowUp(copy[t], Head(todo[t])) \o Tail(todo[t])
      /\ phase'[t] = "load" /\ copy'[t] = None /\ base'[t] = None
  BY <1>1 DEF TaskFunctions, CacheSession
<1>5. \A u \in Tasks \ {t} : /\ todo'[u] = todo[u] /\ phase'[u] = phase[u]
                             /\ copy'[u] = copy[u] /\ base'[u] = base[u]
  BY <1>1 DEF TaskFunctions, CacheSession
<1>6. todo'[t] \in Shapes BY <1>2, <1>4, FollowUpFacts
<1>7. TaskOK(t)' BY <1>4, <1>6 DEF TaskOK
<1>8. \A u \in Tasks : TaskOK(u)' BY <1>1, <1>5, <1>7, OtherTask
<1>9. o.op = "sign" => o.arg \in Signers
  BY <1>2, ShapeFacts DEF ShapeOf, Operation, To
<1>10. /\ accepted' \subseteq Signers /\ met' \in Nat
  BY <1>1, <1>9 DEF CacheSession, SharedOK
<1>11. store \in Session BY <1>1, <1>2 DEF SharedOK
<1>12. /\ cache' = copy[t] /\ clobbered' = (clobbered \/ copy[t] # store)
       /\ UNCHANGED <<store, messages, faults, early, recreated, broken>>
  BY DEF CacheSession
<1>13. store # None BY <1>11, NoneAssumption
<1>14. SharedOK' BY <1>1, <1>2, <1>4, <1>5, <1>10, <1>12, <1>13 DEF SharedOK
<1>15. FlagsOK'
  <2>1. FlagsOK BY LocalParts
  <2> QED BY <2>1 DEF FlagsOK, CacheSession
<1> QED BY <1>2, <1>3, <1>4, <1>5, <1>8, <1>11, <1>14, <1>15, LocalPartsNext

LEMMA FailFacts ==
  ASSUME LocalInv, NEW t \in Tasks, SaveFails(t)
  PROVE  /\ LocalInv' /\ todo'[t] = <<>> /\ phase'[t] = "load" /\ phase[t] = "save"
         /\ \A u \in Tasks \ {t} : /\ todo'[u] = todo[u] /\ phase'[u] = phase[u]
                                   /\ copy'[u] = copy[u] /\ base'[u] = base[u]
<1>1. TaskFunctions /\ SharedOK /\ FlagsOK /\ \A u \in Tasks : TaskOK(u) BY LocalParts
<1>2. Return(t) /\ phase[t] = "save" BY DEF SaveFails
<1>3. /\ TaskFunctions'
      /\ \A u \in Tasks : TaskOK(u)'
      /\ todo'[t] = <<>> /\ phase'[t] = "load"
      /\ \A u \in Tasks \ {t} : /\ todo'[u] = todo[u] /\ phase'[u] = phase[u]
                                /\ copy'[u] = copy[u] /\ base'[u] = base[u]
  BY <1>1, <1>2, ReturnFacts
<1>4. /\ UNCHANGED <<store, cache, messages, accepted, met, early, clobbered, recreated>>
      /\ broken' = TRUE /\ faults' = faults + 1
  BY DEF SaveFails, Fault
<1>5. SharedOK' BY <1>1, <1>3, <1>4 DEF SharedOK
<1>6. FlagsOK'
  <2>1. FlagsOK BY LocalParts
  <2> QED BY <2>1 DEF FlagsOK, SaveFails
<1> QED BY <1>2, <1>3, <1>5, <1>6, LocalPartsNext

LEMMA HandleFacts ==
  ASSUME LocalInv, NEW t \in Tasks, Handle(t)
  PROVE  /\ LocalInv' /\ todo'[t] \in Plans /\ todo[t] = <<>> /\ phase[t] = "load"
         /\ \A u \in Tasks \ {t} : todo'[u] = todo[u]
<1>1. TaskFunctions /\ SharedOK /\ FlagsOK /\ \A u \in Tasks : TaskOK(u) BY LocalParts
<1>2. todo[t] = <<>> /\ phase[t] = "load" BY <1>1 DEF Handle, TaskOK
<1>3. PICK p \in Plans : todo' = [todo EXCEPT ![t] = p] BY DEF Handle
<1>4. UNCHANGED <<store, cache, phase, copy, base, faults, historyVars>> /\ messages' = messages + 1
  BY DEF Handle
<1>5. todo'[t] = p /\ (\A u \in Tasks \ {t} : todo'[u] = todo[u]) /\ TaskFunctions'
  BY <1>1, <1>3, <1>4 DEF TaskFunctions
<1>6. TaskOK(t)' BY <1>1, <1>2, <1>4, <1>5, PlanFacts DEF TaskOK
<1>7. \A u \in Tasks : TaskOK(u)' BY <1>1, <1>4, <1>5, <1>6, OtherTask
<1>8. SharedOK' BY <1>1, <1>4 DEF SharedOK, historyVars
<1>9. FlagsOK'
  <2>1. FlagsOK BY LocalParts
  <2> QED BY <2>1 DEF FlagsOK, Handle, historyVars
<1> QED BY <1>2, <1>5, <1>7, <1>8, <1>9, LocalPartsNext

LEMMA CrashFacts ==
  ASSUME LocalInv, Crash
  PROVE  LocalInv' /\ (\A u \in Tasks : todo'[u] = <<>> /\ phase'[u] = "load")
<1>1. TaskFunctions /\ SharedOK /\ FlagsOK BY LocalParts
<1>2. TaskFunctions' /\ \A u \in Tasks : /\ todo'[u] = <<>> /\ phase'[u] = "load"
                                     /\ copy'[u] = None /\ base'[u] = None
  BY DEF Crash, TaskFunctions
<1>3. \A u \in Tasks : TaskOK(u)' BY <1>2, ShapesClosed DEF TaskOK
<1>4. /\ UNCHANGED <<store, messages, accepted, met, early, clobbered, recreated>>
      /\ broken' = (broken \/ Busy # {}) /\ faults' = faults + 1 /\ cache' = None
  BY DEF Crash, Fault
<1>5. SharedOK' BY <1>1, <1>2, <1>4 DEF SharedOK
<1>6. FlagsOK'
  <2>1. FlagsOK BY LocalParts
  <2> QED BY <2>1 DEF FlagsOK, Crash
<1> QED BY <1>2, <1>3, <1>5, <1>6, LocalPartsNext
-----------------------------------------------------------------------------
(* What holds as long as no write is lost.                                 *)

LEMMA Distinct ==
  /\ CombineSteps # <<>> /\ DistributeSteps # <<>>
  /\ <<To("Distributing")>> # <<>> /\ <<To("Completed")>> # <<>>
  /\ <<To("Completed")>> \notin {CombineSteps, DistributeSteps, <<To("Distributing")>>}
  /\ <<To("Distributing")>> \notin {CombineSteps, DistributeSteps}
  /\ DistributeSteps # CombineSteps
<1>1. /\ Head(CombineSteps) = To("Combining") /\ Head(DistributeSteps) = Combine
      /\ Head(<<To("Distributing")>>) = To("Distributing")
      /\ Head(<<To("Completed")>>) = To("Completed")
      /\ CombineSteps # <<>> /\ DistributeSteps # <<>>
      /\ <<To("Distributing")>> # <<>> /\ <<To("Completed")>> # <<>>
  BY TupleFacts DEF CombineSteps, DistributeSteps
<1> QED BY <1>1 DEF To, Combine

\* A handler that goes on with a session which storage has, or is behind, keeps
\* what is stored justified.
LEMMA UseSafe ==
  ASSUME LocalInv, Safe, NEW t \in Tasks, NEW s \in Session,
         phase[t] \in {"load", "fill"}, todo[t] # <<>>, Used(t, s), phase'[t] # "cache",
         cache' = s, UNCHANGED <<store, accepted, met>>, broken' = broken, store \in Session,
         s.state \in {"Distributing", "Completed"} => store.combined # None,
         s.state \in Past => store.state \in Past,
         \A u \in Tasks : AboutToCombine(u) /\ ~ early => s.state \in From
  PROVE  Safe'
<1> DEFINE o == Head(todo[t])
<1>0. /\ store # None /\ store' = store /\ accepted' = accepted /\ met' = met
      /\ todo[t] \in Shapes /\ ShapeOf(todo[t])
  BY NoneAssumption, ShapeFacts DEF LocalInv
<1>1. \A u \in Tasks \ {t} : /\ todo'[u] = todo[u] /\ phase'[u] = phase[u]
                             /\ copy'[u] = copy[u] /\ base'[u] = base[u]
  BY DEF Used
<1>2. \/ todo'[t] = <<To("Completed")>> /\ s.state = "Distributing" /\ o.op = "ack"
      \/ todo'[t] = todo[t]
      \/ todo'[t] = <<>>
  BY DEF Used
<1>3. StoreSound' BY <1>0 DEF Safe, StoreSound
<1>4. CacheBehind' BY <1>0 DEF CacheBehind
<1>5. TodoBacked'
  <2> SUFFICES ASSUME NEW u \in Tasks
               PROVE  /\ todo'[u] \in {CombineSteps, DistributeSteps, <<To("Distributing")>>} =>
                           store # None /\ HasReached(store)
                      /\ todo'[u] \in {<<To("Distributing")>>, <<To("Completed")>>} =>
                           store # None /\ store.combined # None
    BY <1>0 DEF TodoBacked, HasReached
  <2>1. CASE todo'[u] = todo[u] BY <2>1 DEF Safe, TodoBacked
  <2>2. CASE u = t /\ todo'[t] = <<To("Completed")>> /\ s.state = "Distributing"
    BY <1>0, <2>2, Distinct
  <2>3. CASE u = t /\ todo'[t] = <<>> BY <2>3, Distinct
  <2> QED BY <1>1, <1>2, <2>1, <2>2, <2>3
<1>6. \A u \in Tasks : SignCached(u)' => SignCached(u) /\ copy'[u] = copy[u]
  BY <1>1 DEF SignCached
<1>7. OneReaches'
  BY <1>0, <1>6 DEF Safe, OneReaches, HasReached
<1>8. ~ early' => ~ early BY DEF Used
<1>9. ASSUME NEW u \in Tasks PROVE AboutToCombine(u)' => AboutToCombine(u)
  <2>1. CASE u # t BY <1>1, <2>1 DEF AboutToCombine
  <2>2. CASE u = t BY <1>2, <2>2, Distinct DEF AboutToCombine
  <2> QED BY <2>1, <2>2
<1>10. InSigning'
  <2> SUFFICES ASSUME ~ early'
               PROVE /\ \A u \in Tasks : todo'[u] # <<>> /\ phase'[u] = "save"
                                           /\ Head(todo'[u]).op = "sign" => base'[u].state = "Signing"
                     /\ store.signed # {} => store.state \in From
                     /\ \A u \in Tasks : AboutToCombine(u)' => s.state \in From
    BY <1>0 DEF InSigning, AboutToCombine
  <2>1. ~ early /\ InSigning BY <1>8 DEF Safe
  <2>2. ASSUME NEW u \in Tasks, todo'[u] # <<>>, phase'[u] = "save", Head(todo'[u]).op = "sign"
        PROVE  base'[u].state = "Signing"
    <3>1. CASE u # t BY <1>1, <2>1, <2>2, <3>1 DEF InSigning
    <3>2. CASE u = t BY <2>2, <3>2 DEF Used
    <3> QED BY <3>1, <3>2
  <2>3. store.signed # {} => store.state \in From BY <1>0, <2>1 DEF InSigning
  <2>4. \A u \in Tasks : AboutToCombine(u)' => s.state \in From BY <1>9, <2>1
  <2> QED BY <2>2, <2>3, <2>4
<1>11. SomeoneActs'
  <2> SUFFICES ASSUME ~ early', ~ broken', store.state = "Signing", HasReached(store)
               PROVE  \E u \in Tasks : Responsible(u)'
    BY <1>0 DEF SomeoneActs, HasReached
  <2>1. PICK u \in Tasks : Responsible(u) BY <1>0, <1>8 DEF Safe, SomeoneActs
  <2>2. CASE u # t
    BY <1>1, <2>1, <2>2 DEF Responsible, AboutToCombine, SignCached, HasReached
  <2>3. CASE u = t
    <3>1. AboutToCombine(t) BY <2>1, <2>3 DEF Responsible, SignCached
    <3>2. o = To("Combining") BY <1>0, <3>1 DEF ShapeOf, AboutToCombine
    <3>3. o.op = "to" /\ o.arg = "Combining" BY <3>2 DEF To
    <3>4. s.state = "Signing" BY <1>8, <3>1 DEF From, Past, TerminalStates
    <3>5. Permitted(s, o) BY <3>3, <3>4, SigningCombines DEF Permitted
    <3>6. todo'[t] = todo[t] BY <3>3, <3>5 DEF Used
    <3>7. AboutToCombine(t)' BY <3>1, <3>6 DEF AboutToCombine
    <3> QED BY <3>7 DEF Responsible
  <2> QED BY <2>2, <2>3
<1> QED BY <1>3, <1>4, <1>5, <1>7, <1>10, <1>11 DEF Safe

\* A handler at its start, which has not looked at the session, or finds none.
LEMMA StartSafe ==
  ASSUME LocalInv, Safe, NEW t \in Tasks, phase[t] = "load", phase'[t] # "cache",
         UNCHANGED <<store, cache, accepted, met>>, broken' = broken, early' = early,
         \A u \in Tasks \ {t} : /\ todo'[u] = todo[u] /\ phase'[u] = phase[u]
                                /\ copy'[u] = copy[u] /\ base'[u] = base[u],
         \/ todo'[t] = todo[t] /\ (phase'[t] = "save" => Head(todo[t]).op = "create")
         \/ todo'[t] = <<>> /\ store = None
         \/ todo'[t] \in Plans /\ todo[t] = <<>> /\ phase'[t] = "load"
  PROVE  Safe'
<1>0. store' = store /\ cache' = cache /\ accepted' = accepted /\ met' = met OBVIOUS
<1>1. todo'[t] \in Plans =>
        todo'[t] \notin {CombineSteps, DistributeSteps, <<To("Distributing")>>, <<To("Completed")>>}
  BY PlanFacts
<1>2. StoreSound' /\ CacheBehind' BY <1>0 DEF Safe, StoreSound, CacheBehind
<1>3. TodoBacked'
  <2> SUFFICES ASSUME NEW u \in Tasks
               PROVE  /\ todo'[u] \in {CombineSteps, DistributeSteps, <<To("Distributing")>>} =>
                           store # None /\ HasReached(store)
                      /\ todo'[u] \in {<<To("Distributing")>>, <<To("Completed")>>} =>
                           store # None /\ store.combined # None
    BY <1>0 DEF TodoBacked, HasReached
  <2>1. CASE todo'[u] = todo[u] BY <2>1 DEF Safe, TodoBacked
  <2>2. CASE u = t /\ todo'[t] = <<>> BY <2>2, Distinct
  <2>3. CASE u = t /\ todo'[t] \in Plans BY <1>1, <2>3
  <2> QED BY <2>1, <2>2, <2>3
<1>4. \A u \in Tasks : SignCached(u)' => SignCached(u) /\ copy'[u] = copy[u]
  BY DEF SignCached
<1>5. OneReaches' BY <1>0, <1>4 DEF Safe, OneReaches, HasReached
<1>6. ASSUME NEW u \in Tasks PROVE AboutToCombine(u)' => AboutToCombine(u)
  BY <1>1, Distinct DEF AboutToCombine
<1>7. InSigning'
  <2>1. InSigning BY DEF Safe
  <2>2. ASSUME ~ early,
               NEW u \in Tasks, todo'[u] # <<>>, phase'[u] = "save", Head(todo'[u]).op = "sign"
        PROVE  base'[u].state = "Signing"
    <3>1. CASE u # t BY <2>1, <2>2, <3>1 DEF InSigning
    <3>2. CASE u = t BY <2>2, <3>2
    <3> QED BY <3>1, <3>2
  <2>3. ~ early => \A u \in Tasks : AboutToCombine(u)' /\ cache # None => cache.state \in From
    BY <1>6, <2>1 DEF InSigning
  <2> QED BY <1>0, <2>1, <2>2, <2>3 DEF InSigning
<1>8. SomeoneActs'
  <2> SUFFICES ASSUME ~ early, ~ broken, store # None, store.state = "Signing", HasReached(store)
               PROVE  \E u \in Tasks : Responsible(u)'
    BY <1>0 DEF SomeoneActs, HasReached
  <2>1. PICK u \in Tasks : Responsible(u) BY DEF Safe, SomeoneActs
  <2>2. CASE u # t BY <2>1, <2>2 DEF Responsible, AboutToCombine, SignCached, HasReached
  <2>3. CASE u = t
    <3>1. AboutToCombine(t) BY <2>1, <2>3 DEF Responsible, SignCached
    <3>2. todo'[t] = todo[t] BY <3>1, Distinct DEF AboutToCombine
    <3> QED BY <3>1, <3>2 DEF AboutToCombine, Responsible
  <2> QED BY <2>2, <2>3
<1> QED BY <1>2, <1>3, <1>5, <1>7, <1>8 DEF Safe

LEMMA HandleSafe ==
  ASSUME LocalInv, Safe, NEW t \in Tasks, Handle(t)
  PROVE  Safe'
<1>1. todo'[t] \in Plans /\ todo[t] = <<>> /\ phase[t] = "load" BY HandleFacts
<1>2. \A u \in Tasks \ {t} : todo'[u] = todo[u] BY HandleFacts
<1>3. /\ UNCHANGED <<store, cache, accepted, met>> /\ early' = early /\ broken' = broken
      /\ phase' = phase /\ copy' = copy /\ base' = base
  BY DEF Handle, historyVars
<1> QED BY <1>1, <1>2, <1>3, StartSafe

LEMMA LoadSafe ==
  ASSUME LocalInv, Safe, NEW t \in Tasks, Load(t)
  PROVE  Safe'
<1>1. /\ Loaded(t) /\ phase'[t] # "cache"
      /\ \A u \in Tasks \ {t} : /\ todo'[u] = todo[u] /\ phase'[u] = phase[u]
                                /\ copy'[u] = copy[u] /\ base'[u] = base[u]
  BY LoadFacts
<1>2. phase[t] = "load" /\ todo[t] # <<>> BY DEF Load
<1>3. UNCHANGED <<store, cache, accepted, met>> /\ broken' = broken BY DEF Load
<1>4. CASE /\ Head(todo[t]).op = "create"
           /\ phase'[t] = "save" /\ todo'[t] = todo[t] /\ early' = early
  BY <1>1, <1>2, <1>3, <1>4, StartSafe
<1>5. CASE cache # None /\ Used(t, cache)
  <2>1. cache \in Session /\ store \in Session BY <1>5 DEF LocalInv, TypeOK
  <2>2. /\ cache.state \in {"Distributing", "Completed"} => store.combined # None
        /\ cache.state \in Past => store.state \in Past
    BY <1>5 DEF Safe, CacheBehind
  <2>3. \A u \in Tasks : AboutToCombine(u) /\ ~ early => cache.state \in From
    BY <1>5 DEF Safe, InSigning
  <2>4. cache' = cache /\ UNCHANGED <<store, accepted, met>> BY <1>3
  <2> QED BY <1>1, <1>2, <1>3, <1>5, <2>1, <2>2, <2>3, <2>4, UseSafe
<1>6. CASE /\ cache = None /\ store = None
           /\ todo'[t] = <<>> /\ phase'[t] = "load" /\ early' = early
  BY <1>1, <1>2, <1>3, <1>6, StartSafe
<1>7. CASE phase'[t] = "fill" /\ todo'[t] = todo[t] /\ early' = early
  BY <1>1, <1>2, <1>3, <1>7, StartSafe
<1> QED BY <1>1, <1>4, <1>5, <1>6, <1>7 DEF Loaded

LEMMA FillSafe ==
  ASSUME LocalInv, Safe, NEW t \in Tasks, FillCache(t), ~ clobbered'
  PROVE  Safe'
<1>1. Used(t, copy[t]) /\ phase'[t] # "cache" /\ phase[t] = "fill" /\ copy[t] \in Session
  BY FillFacts
<1>2. todo[t] # <<>> BY <1>1 DEF LocalInv, TypeOK
<1>3. copy[t] = store BY DEF FillCache
<1>4. /\ cache' = copy[t] /\ broken' = broken
      /\ UNCHANGED <<store, accepted, met>>
  BY DEF FillCache
<1>5. store \in Session /\ store # None BY <1>1, <1>3, NoneAssumption
<1>6. store.state \in {"Distributing", "Completed"} => store.combined # None
  BY <1>5 DEF Safe, StoreSound, Sound
<1>7. ASSUME NEW u \in Tasks, AboutToCombine(u), ~ early PROVE store.state \in From
  <2>1. HasReached(store) BY <1>7 DEF Safe, TodoBacked, AboutToCombine
  <2> QED BY <1>5, <1>7, <2>1, ReachedFacts DEF Safe, InSigning
<1> QED BY <1>1, <1>2, <1>3, <1>4, <1>5, <1>6, <1>7, UseSafe

LEMMA FailSafe ==
  ASSUME LocalInv, Safe, NEW t \in Tasks, SaveFails(t)
  PROVE  Safe'
<1>0. /\ store' = store /\ cache' = cache /\ accepted' = accepted /\ met' = met
      /\ early' = early /\ broken'
  BY DEF SaveFails
<1>1. /\ todo'[t] = <<>> /\ phase'[t] = "load" /\ phase[t] = "save"
      /\ \A u \in Tasks \ {t} : /\ todo'[u] = todo[u] /\ phase'[u] = phase[u]
                                /\ copy'[u] = copy[u] /\ base'[u] = base[u]
  BY FailFacts
<1>2. StoreSound' /\ CacheBehind' BY <1>0 DEF Safe, StoreSound, CacheBehind
<1>3. \A u \in Tasks : todo'[u] = todo[u] \/ todo'[u] = <<>> BY <1>1
<1>4. TodoBacked' BY <1>0, <1>3, Distinct DEF Safe, TodoBacked, HasReached
<1>5. \A u \in Tasks : SignCached(u)' => SignCached(u) /\ copy'[u] = copy[u]
  BY <1>1 DEF SignCached
<1>6. OneReaches' BY <1>0, <1>5 DEF Safe, OneReaches, HasReached
<1>7. \A u \in Tasks : AboutToCombine(u)' => AboutToCombine(u)
  BY <1>1, Distinct DEF AboutToCombine
<1>8. ASSUME NEW u \in Tasks, todo'[u] # <<>>, phase'[u] = "save", Head(todo'[u]).op = "sign"
      PROVE  todo[u] # <<>> /\ phase[u] = "save" /\ Head(todo[u]).op = "sign" /\ base'[u] = base[u]
  BY <1>1, <1>8
<1>9. InSigning' BY <1>0, <1>7, <1>8 DEF Safe, InSigning
<1>10. SomeoneActs' BY <1>0 DEF SomeoneActs
<1> QED BY <1>2, <1>4, <1>6, <1>9, <1>10 DEF Safe

LEMMA CrashSafe ==
  ASSUME LocalInv, Safe, Crash
  PROVE  Safe'
<1>0. /\ store' = store /\ cache' = None /\ accepted' = accepted /\ met' = met
      /\ early' = early /\ broken' = (broken \/ Busy # {})
  BY DEF Crash
<1>1. \A u \in Tasks : todo'[u] = <<>> /\ phase'[u] = "load" BY CrashFacts
<1>2. StoreSound' /\ CacheBehind' BY <1>0 DEF Safe, StoreSound, CacheBehind
<1>3. TodoBacked' BY <1>1, Distinct DEF TodoBacked
<1>4. \A u \in Tasks : ~ SignCached(u)' BY <1>1 DEF SignCached
<1>5. OneReaches' BY <1>0, <1>4 DEF Safe, OneReaches, HasReached
<1>6. InSigning' BY <1>0, <1>1 DEF Safe, InSigning
<1>7. SomeoneActs'
  <2>1. \A u \in Tasks : Responsible(u) => u \in Busy
    BY Distinct DEF Responsible, AboutToCombine, SignCached, Busy
  <2> QED BY <1>0, <2>1 DEF Safe, SomeoneActs, HasReached
<1> QED BY <1>2, <1>3, <1>5, <1>6, <1>7 DEF Safe

\* The first save of the session.
LEMMA CreateSafe ==
  ASSUME LocalInv, Safe, NEW t \in Tasks, SaveSession(t), Head(todo[t]).op = "create", store = None
  PROVE  Safe'
<1>0. /\ store' = copy[t] /\ cache' = cache /\ accepted' = accepted /\ met' = met
      /\ todo' = todo /\ copy' = copy /\ base' = base /\ early' = early /\ broken' = broken
  BY DEF SaveSession
<1>1. /\ copy[t] \in Session /\ phase[t] = "save" /\ phase'[t] = "cache" /\ todo[t] \in Shapes
      /\ todo[t] # <<>> /\ \A u \in Tasks \ {t} : phase'[u] = phase[u]
  BY SaveFacts
<1>2. Head(todo[t]).arg \in Thresholds BY <1>1, ShapeFacts DEF ShapeOf, Operation, To
<1>3. copy[t] = Fresh(Head(todo[t]).arg) BY <1>1 DEF LocalInv, CopiesMade
<1>4. copy[t].signed = {} /\ copy[t].combined = None /\ copy[t].state = "Proposed" /\ copy[t] # None
  BY <1>1, <1>2, <1>3, FreshFacts, NoneAssumption
<1>5. cache = None /\ accepted = {} /\ met = 0
  BY DEF Safe, StoreSound, LocalInv, TypeOK
<1>6. \A u \in Tasks : ~ SignCached(u)'
  BY <1>0, <1>1 DEF SignCached, LocalInv
<1>7. StoreSound' BY <1>0, <1>4, <1>5 DEF StoreSound, Sound
<1>8. CacheBehind' BY <1>0, <1>5 DEF CacheBehind
<1>9. TodoBacked' BY <1>0 DEF Safe, TodoBacked
<1>10. OneReaches' BY <1>0, <1>5, <1>6 DEF OneReaches
<1>11. InSigning'
  <2>1. \A u \in Tasks : phase'[u] = "save" => phase[u] = "save" BY <1>1
  <2> QED BY <1>0, <1>4, <1>5, <2>1 DEF Safe, InSigning
<1>12. SomeoneActs' BY <1>0, <1>4 DEF SomeoneActs
<1> QED BY <1>7, <1>8, <1>9, <1>10, <1>11, <1>12 DEF Safe

\* A later one, which replaces the session it was made from.
LEMMA ChangeSafe ==
  ASSUME LocalInv, Safe, NEW t \in Tasks, SaveSession(t), Head(todo[t]).op # "create",
         store = base[t]
  PROVE  Safe'
<1> DEFINE o == Head(todo[t])
           c == copy[t]
<1>0. /\ store' = copy[t] /\ cache' = cache /\ accepted' = accepted /\ met' = met
      /\ todo' = todo /\ copy' = copy /\ base' = base /\ early' = early /\ broken' = broken
  BY DEF SaveSession
<1>1. /\ c \in Session /\ phase[t] = "save" /\ phase'[t] = "cache" /\ todo[t] \in Shapes
      /\ todo[t] # <<>> /\ \A u \in Tasks \ {t} : phase'[u] = phase[u]
  BY SaveFacts
<1>2. ShapeOf(todo[t]) /\ o \in Operation BY <1>1, ShapeFacts DEF ShapeOf
<1>3. store \in Session /\ Permitted(store, o) /\ c = Changed(store, o)
  BY <1>1 DEF LocalInv, CopiesMade
<1>4. Grows(store, c, o) BY <1>2, <1>3, ChangedFacts
<1>5. store # None /\ c # None BY <1>1, <1>3, NoneAssumption
<1>6. /\ store.required \in Nat /\ Cardinality(store.signed) \in Nat
      /\ Cardinality(c.signed) \in Nat /\ HasReached(c) => c.signed # {}
      /\ HasReached(store) => store.signed # {}
  BY <1>1, <1>3, ReachedFacts
<1>7. HasReached(store) => HasReached(c)
  BY <1>4, <1>6 DEF HasReached, Grows
<1>8. store.combined # None => c.combined # None BY <1>4 DEF Grows
<1>9. /\ store.state \in Past => c.state \in Past
      /\ store.state \in From => c.state \in From
      /\ c.state = "Signing" /\ store.state # "Signing" => store.state \notin From
  BY <1>4, TransitionFacts DEF Grows
<1>10. StoreSound'
  <2>1. Sound(store) /\ accepted \subseteq store.signed BY <1>5 DEF Safe, StoreSound
  <2>2. accepted \subseteq c.signed BY <1>4, <2>1 DEF Grows
  <2>3. ASSUME c.combined # None
        PROVE  c.combined \subseteq c.signed /\ Cardinality(c.combined) >= c.required
    <3>1. CASE o.op = "combine"
      <4>1. todo[t] = DistributeSteps BY <1>2, <3>1 DEF ShapeOf
      <4>2. HasReached(store) BY <4>1 DEF Safe, TodoBacked
      <4> QED BY <1>4, <3>1, <4>2 DEF Grows, HasReached
    <3>2. CASE o.op # "combine"
      <4>1. c.combined = store.combined /\ c.required = store.required /\ store.signed \subseteq c.signed
        BY <1>4, <3>2 DEF Grows
      <4> QED BY <2>1, <2>3, <4>1 DEF Sound
    <3> QED BY <3>1, <3>2
  <2>4. ASSUME c.state \in {"Distributing", "Completed"} PROVE c.combined # None
    <3>1. CASE o.op = "to"
      <4>1. o.arg \in {"Distributing", "Completed"} BY <1>4, <2>4, <3>1 DEF Grows
      <4>2. todo[t] \in {<<To("Distributing")>>, <<To("Completed")>>}
        BY <1>2, <3>1, <4>1 DEF ShapeOf
      <4> QED BY <1>8, <4>2 DEF Safe, TodoBacked
    <3>2. CASE o.op # "to" BY <1>4, <1>8, <2>1, <2>4, <3>2 DEF Grows, Sound
    <3> QED BY <3>1, <3>2
  <2>5. Sound(c) BY <2>3, <2>4 DEF Sound
  <2> QED BY <1>0, <1>5, <2>2, <2>5 DEF StoreSound, Sound
<1>11. CacheBehind' BY <1>0, <1>8, <1>9 DEF Safe, CacheBehind
<1>12. TodoBacked' BY <1>0, <1>5, <1>7, <1>8 DEF Safe, TodoBacked, HasReached
<1>13. \A u \in Tasks \ {t} : SignCached(u)' = SignCached(u) /\ (Responsible(u)' <=> Responsible(u))
  BY <1>0, <1>1 DEF SignCached, Responsible, AboutToCombine, HasReached
<1>14. ~ SignCached(t) BY <1>1 DEF SignCached
<1>15. SignCached(t)' => o.op = "sign" BY <1>0 DEF SignCached
<1>16. ASSUME NEW u \in Tasks, SignCached(u)
       PROVE  /\ copy[u].signed \subseteq store.signed /\ Cardinality(copy[u].signed) \in Nat
              /\ Cardinality(copy[u].signed) <= Cardinality(store.signed)
  <2>1. copy[u].signed \subseteq store.signed BY <1>16 DEF Safe, OneReaches
  <2>2. IsFiniteSet(store.signed) BY <1>3, ReachedFacts
  <2> QED BY <2>1, <2>2, FS_Subset, FS_CardinalityType
<1>17. OneReaches'
  <2>1. ASSUME NEW u \in Tasks, SignCached(u)' PROVE copy[u].signed \subseteq c.signed
    <3>1. CASE u = t BY <3>1
    <3>2. CASE u # t BY <1>4, <1>13, <1>16, <2>1, <3>2 DEF Grows
    <3> QED BY <3>1, <3>2
  <2>2. ASSUME NEW u \in Tasks, u # t, SignCached(u)', SignCached(t)'
        PROVE  Cardinality(copy[u].signed) < Cardinality(c.signed)
    <3>1. Cardinality(c.signed) = Cardinality(store.signed) + 1 BY <1>4, <1>15, <2>2 DEF Grows
    <3>2. SignCached(u) BY <1>13, <2>2
    <3>3. Cardinality(copy[u].signed) <= Cardinality(store.signed) /\ Cardinality(copy[u].signed) \in Nat
      BY <1>16, <3>2
    <3> QED BY <1>6, <3>1, <3>3
  <2>3. ASSUME NEW u \in Tasks, NEW v \in Tasks, SignCached(u)', SignCached(v)',
               Cardinality(copy[u].signed) = Cardinality(copy[v].signed)
        PROVE  u = v
    <3>1. CASE u # t /\ v # t BY <1>13, <2>3, <3>1 DEF Safe, OneReaches
    <3>2. CASE u = t /\ v # t
      <4>1. Cardinality(copy[v].signed) < Cardinality(c.signed) BY <2>2, <2>3, <3>2
      <4>2. SignCached(v) BY <1>13, <2>3, <3>2
      <4> QED BY <1>6, <1>16, <2>3, <3>2, <4>1, <4>2
    <3>3. CASE u # t /\ v = t
      <4>1. Cardinality(copy[u].signed) < Cardinality(c.signed) BY <2>2, <2>3, <3>3
      <4>2. SignCached(u) BY <1>13, <2>3, <3>3
      <4> QED BY <1>6, <1>16, <2>3, <3>3, <4>1, <4>2
    <3> QED BY <3>1, <3>2, <3>3
  <2>4. met <= 1 BY DEF Safe, OneReaches
  <2>5. ASSUME met = 1
        PROVE  /\ HasReached(c)
               /\ \A u \in Tasks : SignCached(u)' => Cardinality(copy[u].signed) # c.required
    <3>1. HasReached(store) BY <2>5 DEF Safe, OneReaches
    <3>2. ASSUME NEW u \in Tasks, SignCached(u)' PROVE Cardinality(copy[u].signed) # c.required
      <4>1. CASE u # t
        <5>1. SignCached(u) BY <1>13, <3>2, <4>1
        <5>2. Cardinality(copy[u].signed) # store.required BY <2>5, <5>1 DEF Safe, OneReaches
        <5> QED BY <1>4, <5>2 DEF Grows
      <4>2. CASE u = t
        <5>1. Cardinality(c.signed) = Cardinality(store.signed) + 1 BY <1>4, <1>15, <3>2, <4>2 DEF Grows
        <5>2. c.required = store.required BY <1>4 DEF Grows
        <5> QED BY <1>6, <3>1, <4>2, <5>1, <5>2 DEF HasReached
      <4> QED BY <4>1, <4>2
    <3> QED BY <1>7, <3>1, <3>2
  <2> QED BY <1>0, <2>1, <2>3, <2>4, <2>5 DEF OneReaches, HasReached
<1>18. InSigning'
  <2> SUFFICES ASSUME ~ early
               PROVE  /\ \A u \in Tasks : todo[u] # <<>> /\ phase'[u] = "save"
                                            /\ Head(todo[u]).op = "sign" => base[u].state = "Signing"
                      /\ c.signed # {} => c.state \in From
                      /\ \A u \in Tasks : AboutToCombine(u)' /\ cache # None => cache.state \in From
    BY <1>0 DEF InSigning, AboutToCombine
  <2>1. InSigning BY DEF Safe
  <2>2. \A u \in Tasks : todo[u] # <<>> /\ phase'[u] = "save"
                           /\ Head(todo[u]).op = "sign" => base[u].state = "Signing"
    BY <1>1, <2>1 DEF InSigning
  <2>3. ASSUME c.signed # {} PROVE c.state \in From
    <3>1. CASE o.op = "sign"
      <4>1. store.state = "Signing" BY <1>1, <2>1, <3>1 DEF InSigning
      <4> QED BY <1>9, <4>1 DEF From
    <3>2. CASE o.op # "sign"
      <4>1. store.signed # {} BY <1>4, <2>3, <3>2 DEF Grows
      <4> QED BY <1>5, <1>9, <2>1, <4>1 DEF InSigning
    <3> QED BY <3>1, <3>2
  <2>4. \A u \in Tasks : AboutToCombine(u)' => AboutToCombine(u)
    BY <1>0, <1>1 DEF AboutToCombine
  <2> QED BY <2>1, <2>2, <2>3, <2>4 DEF InSigning
<1>19. SomeoneActs'
  <2> SUFFICES ASSUME ~ early, ~ broken, c.state = "Signing", HasReached(c)
               PROVE  \E u \in Tasks : Responsible(u)'
    BY <1>0 DEF SomeoneActs, HasReached
  <2>1. CASE o.op = "sign"
    <3>1. SignCached(t)' BY <1>0, <1>1, <2>1 DEF SignCached
    <3>2. HasReached(copy[t])' BY <1>0 DEF HasReached
    <3> QED BY <3>1, <3>2 DEF Responsible
  <2>2. CASE o.op # "sign"
    <3>1. HasReached(store) BY <1>4, <2>2 DEF Grows, HasReached
    <3>2. store.state \in From BY <1>5, <1>6, <3>1 DEF Safe, InSigning
    <3>3. store.state = "Signing" BY <1>9, <3>2
    <3>4. PICK u \in Tasks : Responsible(u) BY <1>5, <3>1, <3>3 DEF Safe, SomeoneActs
    <3>5. u # t
      <4>1. SUFFICES ASSUME AboutToCombine(t) PROVE FALSE BY <1>14, <3>4 DEF Responsible
      <4>2. o = To("Combining") BY <1>2, <4>1 DEF ShapeOf, AboutToCombine
      <4>3. c.state = "Combining" BY <1>4, <4>2 DEF Grows, To
      <4> QED BY <4>3
    <3> QED BY <1>13, <3>4, <3>5
  <2> QED BY <2>1, <2>2
<1> QED BY <1>10, <1>11, <1>12, <1>17, <1>18, <1>19 DEF Safe

LEMMA SaveSafe ==
  ASSUME LocalInv, Safe, NEW t \in Tasks, SaveSession(t), ~ clobbered', ~ recreated'
  PROVE  Safe'
<1>1. CASE Head(todo[t]).op = "create"
  <2>1. store = None BY <1>1 DEF SaveSession
  <2> QED BY <1>1, <2>1, CreateSafe
<1>2. CASE Head(todo[t]).op # "create"
  <2>1. store = base[t] BY <1>2 DEF SaveSession
  <2> QED BY <1>2, <2>1, ChangeSafe
<1> QED BY <1>1, <1>2

LEMMA CacheSafe ==
  ASSUME LocalInv, Safe, NEW t \in Tasks, CacheSession(t), ~ clobbered'
  PROVE  Safe'
<1> DEFINE o == Head(todo[t])
<1>1. /\ copy[t] \in Session /\ todo[t] \in Shapes /\ todo[t] # <<>>
      /\ phase[t] = "cache" /\ phase'[t] = "load" /\ store \in Session
      /\ todo'[t] = FollowUp(copy[t], Head(todo[t])) \o Tail(todo[t])
      /\ \A u \in Tasks \ {t} : /\ todo'[u] = todo[u] /\ phase'[u] = phase[u]
                                /\ copy'[u] = copy[u] /\ base'[u] = base[u]
  BY CacheFacts
<1>2. copy[t] = store BY DEF CacheSession
<1>3. /\ store' = store /\ cache' = store /\ early' = early /\ broken' = broken
      /\ accepted' = (IF o.op = "sign" THEN accepted \cup {o.arg} ELSE accepted)
      /\ met' = (IF ThresholdMet(store, o) THEN met + 1 ELSE met)
  BY <1>2 DEF CacheSession
<1>4. ShapeOf(todo[t]) /\ o \in Operation BY <1>1, ShapeFacts DEF ShapeOf
<1>5. store # None BY <1>1, NoneAssumption
<1>6. o.op # "create" =>
        base[t] \in Session /\ Permitted(base[t], o) /\ store = Changed(base[t], o)
  BY <1>1, <1>2 DEF LocalInv, CopiesMade
<1>7. o.op # "create" => Grows(base[t], store, o)
  BY <1>4, <1>6, ChangedFacts
<1>8. /\ todo'[t] \in Shapes
      /\ o.op = "sign" /\ HasReached(store) => todo'[t] = CombineSteps
      /\ o.op = "sign" /\ ~ HasReached(store) => todo'[t] = <<>>
      /\ o.op = "consent" => todo'[t] \in {<<>>, <<To("Consented"), To("Signing")>>}
      /\ o.op \notin {"sign", "consent"} => todo'[t] = Tail(todo[t])
  <2>1. o.op = "sign" => store.signed # {} BY <1>7 DEF Grows
  <2> QED BY <1>1, <1>2, <2>1, FollowUpFacts
<1>9. Sound(store) /\ accepted \subseteq store.signed BY <1>5 DEF Safe, StoreSound
<1>10. StoreSound'
  <2>1. o.op = "sign" => o.arg \in store.signed BY <1>7 DEF Grows
  <2>2. accepted' \subseteq store.signed BY <1>3, <1>9, <2>1
  <2> QED BY <1>3, <1>5, <1>9, <2>2 DEF StoreSound, Sound
<1>11. CacheBehind' BY <1>3, <1>9 DEF CacheBehind, Sound
<1>12. /\ todo'[t] \in {CombineSteps, DistributeSteps, <<To("Distributing")>>} => HasReached(store)
       /\ todo'[t] \in {<<To("Distributing")>>, <<To("Completed")>>} => store.combined # None
  <2>0. /\ <<To("Requested")>> \notin {CombineSteps, DistributeSteps, <<To("Distributing")>>, <<To("Completed")>>}
        /\ <<To("Signing")>> \notin {CombineSteps, DistributeSteps, <<To("Distributing")>>, <<To("Completed")>>}
        /\ <<To("Consented"), To("Signing")>>
             \notin {CombineSteps, DistributeSteps, <<To("Distributing")>>, <<To("Completed")>>}
    <3>1. /\ Head(CombineSteps) = To("Combining") /\ Head(DistributeSteps) = Combine
          /\ Head(<<To("Distributing")>>) = To("Distributing")
          /\ Head(<<To("Completed")>>) = To("Completed")
          /\ Head(<<To("Requested")>>) = To("Requested") /\ Head(<<To("Signing")>>) = To("Signing")
          /\ Head(<<To("Consented"), To("Signing")>>) = To("Consented")
      BY TupleFacts DEF CombineSteps, DistributeSteps
    <3> QED BY <3>1 DEF To, Combine
  <2>1. CASE o.op = "sign" BY <1>8, <2>1, Distinct
  <2>2. CASE o.op = "consent" BY <1>8, <2>0, <2>2, Distinct
  <2>3. CASE o.op = "create" BY <1>4, <1>8, <2>0, <2>3, Distinct DEF ShapeOf
  <2>4. CASE o.op = "ack" BY <1>6, <2>4 DEF Permitted
  <2>5. CASE o.op = "combine"
    <3>1. todo[t] = DistributeSteps BY <1>4, <2>5 DEF ShapeOf
    <3>2. HasReached(store) BY <3>1 DEF Safe, TodoBacked
    <3>3. store.combined # None BY <1>7, <2>5 DEF Grows
    <3> QED BY <3>2, <3>3
  <2>6. CASE o.op = "to"
    <3>1. CASE o.arg = "Combining"
      <4>1. todo[t] = CombineSteps /\ todo'[t] = DistributeSteps BY <1>4, <1>8, <2>6, <3>1 DEF ShapeOf
      <4>2. HasReached(store) BY <4>1 DEF Safe, TodoBacked
      <4> QED BY <4>1, <4>2, Distinct
    <3>2. CASE o.arg # "Combining" BY <1>4, <1>8, <2>0, <2>6, <3>2, Distinct DEF ShapeOf
    <3> QED BY <3>1, <3>2
  <2> QED BY <1>4, <2>1, <2>2, <2>3, <2>4, <2>5, <2>6 DEF Operation, To
<1>13. TodoBacked'
  BY <1>1, <1>3, <1>5, <1>12 DEF Safe, TodoBacked, HasReached
<1>14. ~ SignCached(t)' /\ \A u \in Tasks \ {t} : SignCached(u)' = SignCached(u)
  BY <1>1 DEF SignCached
<1>15. store.required \in Nat /\ Cardinality(store.signed) \in Nat /\ met \in Nat
       /\ (HasReached(store) => store.signed # {})
  BY <1>1, ReachedFacts DEF LocalInv, TypeOK
<1>16. OneReaches'
  <2>1. OneReaches BY DEF Safe
  <2>2. \A u \in Tasks : SignCached(u)' => SignCached(u) /\ u # t /\ copy'[u] = copy[u]
    BY <1>1, <1>14
  <2>3. CASE ThresholdMet(store, o)
    <3>1. SignCached(t) /\ Cardinality(copy[t].signed) = store.required
      BY <1>1, <1>2, <2>3 DEF SignCached, ThresholdMet
    <3>2. met # 1 BY <2>1, <3>1 DEF OneReaches
    <3>3. met' = 1 BY <1>3, <1>15, <2>1, <2>3, <3>2 DEF OneReaches
    <3>4. HasReached(store)
      <4>1. store.signed # {} BY <1>7, <2>3 DEF Grows, ThresholdMet
      <4> QED BY <1>2, <1>15, <3>1, <4>1 DEF HasReached
    <3>5. \A u \in Tasks : SignCached(u)' => Cardinality(copy[u].signed) # store.required
      BY <2>1, <2>2, <3>1 DEF OneReaches
    <3> QED BY <1>3, <2>1, <2>2, <3>3, <3>4, <3>5 DEF OneReaches, HasReached
  <2>4. CASE ~ ThresholdMet(store, o)
    BY <1>3, <2>1, <2>2, <2>4 DEF OneReaches, HasReached
  <2> QED BY <2>3, <2>4
<1>17. InSigning'
  <2>1. InSigning BY DEF Safe
  <2>2. \A u \in Tasks : phase'[u] = "save" =>
          phase[u] = "save" /\ todo'[u] = todo[u] /\ base'[u] = base[u]
    BY <1>1
  <2>3. ASSUME NEW u \in Tasks, AboutToCombine(u)', ~ early PROVE store.state \in From
    <3>1. HasReached(store) BY <1>3, <1>13, <2>3 DEF TodoBacked, AboutToCombine, HasReached
    <3> QED BY <1>5, <1>15, <2>1, <2>3, <3>1 DEF InSigning
  <2> QED BY <1>3, <2>1, <2>2, <2>3 DEF InSigning
<1>18. SomeoneActs'
  <2> SUFFICES ASSUME ~ early, ~ broken, store.state = "Signing", HasReached(store)
               PROVE  \E u \in Tasks : Responsible(u)'
    BY <1>3 DEF SomeoneActs, HasReached
  <2>1. PICK u \in Tasks : Responsible(u) BY <1>5 DEF Safe, SomeoneActs
  <2>2. CASE u # t
    BY <1>1, <2>1, <2>2 DEF Responsible, AboutToCombine, SignCached, HasReached
  <2>3. CASE u = t
    <3>1. SignCached(t) BY <1>1, <2>1, <2>3 DEF Responsible, AboutToCombine
    <3>2. todo'[t] = CombineSteps BY <1>8, <3>1 DEF SignCached
    <3> QED BY <1>1, <3>2 DEF Responsible, AboutToCombine
  <2> QED BY <2>2, <2>3
<1> QED BY <1>10, <1>11, <1>13, <1>16, <1>17, <1>18 DEF Safe
-----------------------------------------------------------------------------
(* The theorems.                                                           *)

LEMMA InitInv == Init => SessionInv
<1> SUFFICES ASSUME Init PROVE Safe BY LocalInit DEF SessionInv
<1>1. \A t \in Tasks : todo[t] = <<>> /\ phase[t] = "load" BY DEF Init
<1>2. StoreSound /\ CacheBehind /\ InSigning /\ SomeoneActs
  BY <1>1 DEF Init, StoreSound, CacheBehind, InSigning, SomeoneActs
<1>3. TodoBacked BY <1>1, Distinct DEF TodoBacked
<1>4. OneReaches BY <1>1 DEF Init, OneReaches, SignCached
<1> QED BY <1>2, <1>3, <1>4 DEF Safe

LEMMA StepInv == SessionInv /\ [Next]_vars => SessionInv'
<1> SUFFICES ASSUME SessionInv, [Next]_vars PROVE SessionInv' OBVIOUS
<1>1. LocalInv BY DEF SessionInv
<1>2. ASSUME NEW t \in Tasks, Handle(t) PROVE SessionInv'
  <2>1. Undisturbed BY <1>2 DEF Handle
  <2> QED BY <1>1, <1>2, <2>1, HandleFacts, HandleSafe DEF SessionInv
<1>3. ASSUME NEW t \in Tasks, Load(t) PROVE SessionInv'
  <2>1. Undisturbed' => Undisturbed BY <1>3 DEF Load, Undisturbed
  <2> QED BY <1>1, <1>3, <2>1, LoadFacts, LoadSafe DEF SessionInv
<1>4. ASSUME NEW t \in Tasks, FillCache(t) PROVE SessionInv'
  <2>1. Undisturbed' => Undisturbed /\ ~ clobbered' BY <1>4 DEF FillCache, Undisturbed
  <2> QED BY <1>1, <1>4, <2>1, FillFacts, FillSafe DEF SessionInv
<1>5. ASSUME NEW t \in Tasks, SaveSession(t) PROVE SessionInv'
  <2>1. Undisturbed' => Undisturbed /\ ~ clobbered' /\ ~ recreated'
    BY <1>5 DEF SaveSession, Undisturbed
  <2> QED BY <1>1, <1>5, <2>1, SaveFacts, SaveSafe DEF SessionInv
<1>6. ASSUME NEW t \in Tasks, SaveFails(t) PROVE SessionInv'
  <2>1. Undisturbed' => Undisturbed BY <1>6 DEF SaveFails, Undisturbed
  <2> QED BY <1>1, <1>6, <2>1, FailFacts, FailSafe DEF SessionInv
<1>7. ASSUME NEW t \in Tasks, CacheSession(t) PROVE SessionInv'
  <2>1. Undisturbed' => Undisturbed /\ ~ clobbered' BY <1>7 DEF CacheSession, Undisturbed
  <2> QED BY <1>1, <1>7, <2>1, CacheFacts, CacheSafe DEF SessionInv
<1>8. ASSUME Crash PROVE SessionInv'
  <2>1. Undisturbed' => Undisturbed BY <1>8 DEF Crash, Undisturbed
  <2> QED BY <1>1, <1>8, <2>1, CrashFacts, CrashSafe DEF SessionInv
<1>9. CASE UNCHANGED vars
  BY <1>9 DEF vars, taskVars, historyVars, SessionInv, LocalInv, TypeOK, CopiesMade, Undisturbed,
              Safe, StoreSound, CacheBehind, TodoBacked, OneReaches, InSigning, SomeoneActs,
              SignCached, AboutToCombine, Responsible
<1> QED BY <1>2, <1>3, <1>4, <1>5, <1>6, <1>7, <1>8, <1>9 DEF Next

\* The invariant holds in every behaviour.
THEOREM SessionInvariant == Spec => []SessionInv
BY InitInv, StepInv, PTL DEF Spec

\* Every variable of the coordinator keeps its type, and the cache never holds a
\* session that storage has not.
THEOREM TypeCorrect == Spec => []TypeOK
<1>1. SessionInv => TypeOK BY DEF SessionInv, LocalInv
<1> QED BY <1>1, SessionInvariant, PTL

\* A partial signature accept_partial_signature has reported as accepted is in the
\* stored session for good, whatever crashes or fails, unless another handler saved
\* over it or the session was proposed again.
THEOREM AcceptedSignaturesKept == Spec => []SignatureKept
<1>1. SessionInv => SignatureKept BY DEF SessionInv, Safe, StoreSound, SignatureKept
<1> QED BY <1>1, SessionInvariant, PTL

\* A session that is distributed or completed carries a combined signature made from
\* at least the required number of its own participants' signatures.
THEOREM CombinedSignatureIsComplete == Spec => []CombinedIsComplete
<1>1. SessionInv => CombinedIsComplete
  BY DEF SessionInv, Safe, StoreSound, Sound, CombinedIsComplete
<1> QED BY <1>1, SessionInvariant, PTL

\* threshold_met is emitted at most once; and the session whose threshold is reached
\* leaves Signing, unless the signature came before Signing or its handler was cut off.
THEOREM ThresholdMovesOn == Spec => []ThresholdActs
<1>1. ASSUME SessionInv, Undisturbed PROVE met <= 1
  BY <1>1 DEF SessionInv, Safe, OneReaches
<1>2. ASSUME SessionInv, Undisturbed, ~ early, ~ broken, Busy = {}, store # None,
             store.state = "Signing"
      PROVE  store.signed = {} \/ Cardinality(store.signed) < store.required
  <2>1. \A u \in Tasks : Responsible(u) => u \in Busy
    BY Distinct DEF Responsible, AboutToCombine, SignCached, Busy
  <2>2. ~ HasReached(store) BY <1>2, <2>1 DEF SessionInv, Safe, SomeoneActs
  <2>3. store \in Session BY <1>2 DEF SessionInv, LocalInv, TypeOK
  <2> QED BY <2>2, <2>3, ReachedFacts DEF HasReached
<1>3. SessionInv => ThresholdActs BY <1>1, <1>2 DEF ThresholdActs
<1> QED BY <1>3, SessionInvariant, PTL
-----------------------------------------------------------------------------
(***************************************************************************)
(* The counter.  Neither of its properties is inductive.  What they rest   *)
(* on: whoever holds the lock after its first access is about to write a   *)
(* value above the stored one, the cached value is never below it, and     *)
(* what current has read is still stored as long as nothing is cached.     *)
(***************************************************************************)
Persisting == {"persistNext", "persistAccept"}

\* The first access of next has put 0 into the cache.
LoadInv == \A c \in Callers : pc[c] = "load" => cached = 0

\* The value that is about to be written is above the stored one.
PersistInv == \A c \in Callers : pc[c] \in Persisting => value[c] > stored /\ cached = value[c]

\* The cache is not behind storage, except during the first access of next.
CacheInv == (\A c \in Callers : pc[c] # "load") /\ cached # Absent => stored <= cached

\* What current has read is up to date until something is cached.
FoundInv == \A c \in Callers : pc[c] = "insert" /\ cached = Absent => found[c] = stored

\* Nothing was handed out that is not stored, or that was handed out before.
SpentInv == spent <= stored /\ repeated = FALSE

\* Once one of the holes in the code was met nothing is claimed.
Guarded == excuses = {} => PersistInv /\ CacheInv /\ FoundInv /\ SpentInv

CounterInv == CounterTypeOK /\ LoadInv /\ Guarded

Unlocked == \A c \in Callers : pc[c] \notin Locked

LEMMA CounterInitInv ==
  CounterInit => CounterInv
<1> SUFFICES ASSUME CounterInit PROVE CounterInv
  OBVIOUS
<1> USE CounterAssumption DEF CounterInit
<1>1. CounterTypeOK
  <2>1. /\ stored \in Values /\ spent \in Values
        /\ cached \in Values \cup {Absent} /\ counterFaults \in Nat
    BY DEF Values
  <2>2. /\ pc \in [Callers -> {"idle", "find", "insert", "accept"} \cup Locked]
        /\ value \in [Callers -> Values] /\ found \in [Callers -> Values]
    BY DEF Values
  <2>3. \A c \in Callers : lock = c <=> pc[c] \in Locked
    BY DEF Locked
  <2>4. lock \in Callers \cup {Absent} /\ repeated \in BOOLEAN
    OBVIOUS
  <2>5. excuses \subseteq {"stale", "unverified", "blind"}
    OBVIOUS
  <2> QED
    BY <2>1, <2>2, <2>3, <2>4, <2>5 DEF CounterTypeOK
<1>2. LoadInv
  BY DEF LoadInv
<1>3. PersistInv /\ CacheInv /\ FoundInv /\ SpentInv
  BY DEF PersistInv, CacheInv, FoundInv, SpentInv, Persisting
<1> QED
  BY <1>1, <1>2, <1>3 DEF CounterInv, Guarded

\* Only one caller is past its first access.
LEMMA OneHolder ==
  ASSUME CounterTypeOK, NEW c \in Callers, pc[c] \in Locked
  PROVE  \A d \in Callers : pc[d] \in Locked => d = c
BY DEF CounterTypeOK

LEMMA NoHolder ==
  ASSUME CounterTypeOK, lock = Absent
  PROVE  Unlocked
BY CounterAssumption DEF CounterTypeOK, Unlocked

LEMMA CounterTypeStep ==
  CounterTypeOK /\ LoadInv /\ [CounterNext]_counterVars => CounterTypeOK'
<1> SUFFICES ASSUME CounterTypeOK, LoadInv, [CounterNext]_counterVars PROVE CounterTypeOK'
  OBVIOUS
<1> USE CounterAssumption DEF CounterTypeOK, Values, Locked
<1>1. ASSUME NEW c \in Callers, Verify(c) PROVE CounterTypeOK'
  BY <1>1 DEF Verify, At
<1>2. ASSUME NEW c \in Callers, Find(c) PROVE CounterTypeOK'
  BY <1>2 DEF Find, At
<1>3. ASSUME NEW c \in Callers, FindFails(c) PROVE CounterTypeOK'
  BY <1>3 DEF FindFails, CounterFault, CounterReturn, At
<1>4. ASSUME NEW c \in Callers, Insert(c) PROVE CounterTypeOK'
  BY <1>4 DEF Insert, CounterReturn, At
<1>5. ASSUME NEW c \in Callers, AcceptUnverified(c) PROVE CounterTypeOK'
  BY <1>5 DEF AcceptUnverified, At
<1>6. ASSUME NEW c \in Callers, Accept(c) PROVE CounterTypeOK'
  BY <1>6 DEF Accept, Entry, CounterReturn, At
<1>7. ASSUME NEW c \in Callers, NextValue(c) PROVE CounterTypeOK'
  <2>1. Entry # 0 => Increment(Entry) \in Values
    BY DEF Entry, Increment
  <2>2. cached' \in Values /\ value' \in [Callers -> Values]
    BY <1>7, <2>1 DEF NextValue, Issue
  <2>3. /\ lock' = c
        /\ \/ pc' = [pc EXCEPT ![c] = "load"]
           \/ pc' = [pc EXCEPT ![c] = "persistNext"]
    BY <1>7 DEF NextValue, Issue, At
  <2>4. \A d \in Callers : pc[d] \notin Locked
    BY <1>7, NoHolder DEF NextValue, Unlocked
  <2>5. pc' \in [Callers -> {"idle", "find", "insert", "accept"} \cup Locked]
    BY <2>3
  <2>6. \A d \in Callers : lock' = d <=> pc'[d] \in Locked
    <3>1. pc'[c] \in Locked
      BY <2>3
    <3>2. \A d \in Callers : d # c => pc'[d] = pc[d]
      BY <2>3
    <3> QED
      BY <2>3, <2>4, <3>1, <3>2 DEF Locked, CounterTypeOK
  <2>7. excuses' \subseteq {"stale", "unverified", "blind", "wrapped"}
    <3>1. excuses' = excuses \/ excuses' = excuses \cup {"wrapped"}
      BY <1>7, Zenon DEF NextValue, Issue
    <3>2. excuses \subseteq {"stale", "unverified", "blind", "wrapped"}
      OBVIOUS
    <3> HIDE DEF CounterTypeOK
    <3> QED
      BY <3>1, <3>2
  <2>8. UNCHANGED <<stored, found, counterFaults, spent, repeated>>
    BY <1>7 DEF NextValue
  <2> QED
    BY <2>2, <2>3, <2>5, <2>6, <2>7, <2>8
<1>8. ASSUME NEW c \in Callers, LoadNext(c) PROVE CounterTypeOK'
  BY <1>8 DEF LoadNext, Issue, Increment, LoadInv, At
<1>9. ASSUME NEW c \in Callers, LoadNextFails(c) PROVE CounterTypeOK'
  BY <1>9 DEF LoadNextFails, LoadInv, CounterFault, At
<1>10. ASSUME NEW c \in Callers, Persist(c) PROVE CounterTypeOK'
  BY <1>10 DEF Persist, Spend, CounterReturn, At
<1>11. ASSUME NEW c \in Callers, PersistFails(c) PROVE CounterTypeOK'
  BY <1>11 DEF PersistFails, CounterFault, CounterReturn, At
<1>12. CASE CounterCrash
  BY <1>12 DEF CounterCrash, CounterFault
<1>13. CASE UNCHANGED counterVars
  BY <1>13 DEF counterVars
<1> QED
  BY <1>1, <1>2, <1>3, <1>4, <1>5, <1>6, <1>7, <1>8, <1>9, <1>10, <1>11, <1>12, <1>13 DEF CounterNext

LEMMA CounterLoadStep ==
  CounterTypeOK /\ LoadInv /\ [CounterNext]_counterVars => LoadInv'
<1> SUFFICES ASSUME CounterTypeOK, LoadInv, [CounterNext]_counterVars PROVE LoadInv'
  OBVIOUS
<1> USE CounterAssumption DEF CounterTypeOK, LoadInv, Values, Locked
<1>1. ASSUME NEW c \in Callers, Verify(c) \/ Find(c) \/ FindFails(c) \/ AcceptUnverified(c)
      PROVE LoadInv'
  BY <1>1 DEF Verify, Find, FindFails, AcceptUnverified, CounterReturn, At
<1>2. ASSUME NEW c \in Callers, Insert(c) PROVE LoadInv'
  BY <1>2, NoHolder DEF Insert, CounterReturn, At, Unlocked
<1>3. ASSUME NEW c \in Callers, Accept(c) PROVE LoadInv'
  BY <1>3, NoHolder DEF Accept, CounterReturn, At, Unlocked
<1>4. ASSUME NEW c \in Callers, NextValue(c) PROVE LoadInv'
  BY <1>4, NoHolder DEF NextValue, Issue, At, Unlocked
<1>5. ASSUME NEW c \in Callers, LoadNext(c) \/ LoadNextFails(c) PROVE LoadInv'
  BY <1>5, OneHolder DEF LoadNext, LoadNextFails, Issue, At
<1>6. ASSUME NEW c \in Callers, Persist(c) \/ PersistFails(c) PROVE LoadInv'
  BY <1>6, OneHolder DEF Persist, PersistFails, CounterReturn, At
<1>7. CASE CounterCrash
  BY <1>7 DEF CounterCrash
<1>8. CASE UNCHANGED counterVars
  BY <1>8 DEF counterVars
<1> QED
  BY <1>1, <1>2, <1>3, <1>4, <1>5, <1>6, <1>7, <1>8 DEF CounterNext

LEMMA ExcusesStay ==
  CounterTypeOK /\ [CounterNext]_counterVars => excuses \subseteq excuses'
BY DEF CounterNext, counterVars, Verify, Find, FindFails, Insert, AcceptUnverified, Accept, NextValue, LoadNext,
  LoadNextFails, Issue, Persist, PersistFails, CounterCrash

LEMMA CounterGuardedStep ==
  CounterInv /\ [CounterNext]_counterVars => Guarded'
<1> SUFFICES ASSUME CounterInv, [CounterNext]_counterVars, excuses' = {}
             PROVE  (PersistInv /\ CacheInv /\ FoundInv /\ SpentInv)'
  BY DEF Guarded
<1>0. excuses = {} /\ PersistInv /\ CacheInv /\ FoundInv /\ SpentInv
  BY ExcusesStay DEF CounterInv, Guarded
<1> USE CounterAssumption DEF CounterInv, CounterTypeOK, Values, Locked, Persisting
<1>1. ASSUME NEW c \in Callers, Verify(c) \/ AcceptUnverified(c) \/ FindFails(c)
      PROVE  (PersistInv /\ CacheInv /\ FoundInv /\ SpentInv)'
  BY <1>0, <1>1 DEF Verify, AcceptUnverified, FindFails, CounterReturn, At, PersistInv, CacheInv,
    FoundInv, SpentInv
<1>2. ASSUME NEW c \in Callers, Find(c)
      PROVE  (PersistInv /\ CacheInv /\ FoundInv /\ SpentInv)'
  BY <1>0, <1>2 DEF Find, At, PersistInv, CacheInv, FoundInv, SpentInv
<1>3. ASSUME NEW c \in Callers, Insert(c)
      PROVE  (PersistInv /\ CacheInv /\ FoundInv /\ SpentInv)'
  <2>1. Unlocked
    BY <1>3, NoHolder DEF Insert
  <2>2. stored <= found[c]
    BY <1>0, <1>3, <2>1 DEF Insert, CacheInv, FoundInv, Unlocked
  <2> QED
    BY <1>0, <1>3, <2>1, <2>2 DEF Insert, CounterReturn, At, Unlocked, PersistInv, CacheInv, FoundInv,
      SpentInv
<1>4. ASSUME NEW c \in Callers, Accept(c)
      PROVE  (PersistInv /\ CacheInv /\ FoundInv /\ SpentInv)'
  <2>1. Unlocked
    BY <1>4, NoHolder DEF Accept
  <2>2. stored <= Entry
    BY <1>0, <1>4, <2>1 DEF Accept, Entry, CacheInv, Unlocked
  <2> QED
    BY <1>0, <1>4, <2>1, <2>2 DEF Accept, Entry, CounterReturn, At, Unlocked, PersistInv, CacheInv,
      FoundInv, SpentInv
<1>5. ASSUME NEW c \in Callers, NextValue(c)
      PROVE  (PersistInv /\ CacheInv /\ FoundInv /\ SpentInv)'
  <2>1. Unlocked
    BY <1>5, NoHolder DEF NextValue
  <2>2. Entry # 0 => stored <= Entry
    BY <1>0, <1>5, <2>1 DEF NextValue, Entry, CacheInv, Unlocked
  <2> QED
    BY <1>0, <1>5, <2>1, <2>2 DEF NextValue, Issue, Increment, Entry, At, Unlocked, PersistInv, CacheInv, FoundInv,
      SpentInv
<1>6. ASSUME NEW c \in Callers, LoadNext(c) \/ LoadNextFails(c)
      PROVE  (PersistInv /\ CacheInv /\ FoundInv /\ SpentInv)'
  <2>1. \A d \in Callers : pc[d] \in Locked => d = c
    BY <1>6, OneHolder DEF LoadNext, LoadNextFails
  <2>2. value'[c] > stored /\ cached' = value'[c] /\ stored' = stored
    BY <1>0, <1>6 DEF LoadNext, LoadNextFails, Issue, Increment
  <2> QED
    BY <1>0, <1>6, <2>1, <2>2 DEF LoadNext, LoadNextFails, Issue, Increment, At, PersistInv, CacheInv, FoundInv,
      SpentInv
<1>7. ASSUME NEW c \in Callers, Persist(c)
      PROVE  (PersistInv /\ CacheInv /\ FoundInv /\ SpentInv)'
  <2>1. \A d \in Callers : pc[d] \in Locked => d = c
    BY <1>7, OneHolder DEF Persist
  <2>2. value[c] > stored /\ cached = value[c]
    BY <1>0, <1>7 DEF Persist, PersistInv
  <2>3. SpentInv'
    BY <1>0, <1>7, <2>2 DEF Persist, Spend, SpentInv
  <2> QED
    BY <1>7, <2>1, <2>2, <2>3 DEF Persist, CounterReturn, At, PersistInv, CacheInv, FoundInv
<1>8. ASSUME NEW c \in Callers, PersistFails(c)
      PROVE  (PersistInv /\ CacheInv /\ FoundInv /\ SpentInv)'
  <2>1. \A d \in Callers : pc[d] \in Locked => d = c
    BY <1>8, OneHolder DEF PersistFails
  <2> QED
    BY <1>0, <1>8, <2>1 DEF PersistFails, CounterReturn, At, PersistInv, CacheInv, FoundInv, SpentInv
<1>9. CASE CounterCrash
  BY <1>0, <1>9 DEF CounterCrash, PersistInv, CacheInv, FoundInv, SpentInv
<1>10. CASE UNCHANGED counterVars
  BY <1>0, <1>10 DEF counterVars, PersistInv, CacheInv, FoundInv, SpentInv
<1> QED
  BY <1>1, <1>2, <1>3, <1>4, <1>5, <1>6, <1>7, <1>8, <1>9, <1>10 DEF CounterNext

LEMMA CounterStep ==
  CounterInv /\ [CounterNext]_counterVars => CounterInv'
BY CounterTypeStep, CounterLoadStep, CounterGuardedStep DEF CounterInv

LEMMA CounterInvariant ==
  CounterSpec => []CounterInv
BY CounterInitInv, CounterStep, PTL DEF CounterSpec

\* Every variable keeps its type, and the write lock is held exactly by the
\* caller between its first access and the end of persist.
THEOREM CounterTypeCorrect ==
  CounterSpec => []CounterTypeOK
<1>1. CounterInv => CounterTypeOK
  BY DEF CounterInv
<1> QED
  BY <1>1, CounterInvariant, PTL

\* No value is issued or accepted a second time, whatever fails or crashes,
\* unless one of the three holes in current, accept and next was met.
THEOREM CounterNeverRepeats ==
  CounterSpec => []NeverRepeated
<1>1. CounterInv => NeverRepeated
  BY DEF CounterInv, Guarded, SpentInv, NeverRepeated, CounterTypeOK
<1> QED
  BY <1>1, CounterInvariant, PTL

\* A value is in storage before it is handed out, so that a restart goes on
\* above it.
THEOREM CounterSpentIsStored ==
  CounterSpec => []SpentIsStored
<1>1. CounterInv => SpentIsStored
  BY DEF CounterInv, Guarded, SpentInv, SpentIsStored
<1> QED
  BY <1>1, CounterInvariant, PTL
=============================================================================
