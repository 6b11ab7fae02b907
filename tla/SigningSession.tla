--------------------------- MODULE SigningSession ----------------------------
(***************************************************************************)
(* A signing session at its coordinator (protocols/signing/src/            *)
(* coordinator.rs, handler.rs, state.rs): proposal, request, consents,     *)
(* partial signatures, combination, acknowledgement.                       *)
(*                                                                         *)
(* A handler is a list of operations on the session.  Each loads it from   *)
(* the cache (or from storage, which fills the cache), changes its copy,   *)
(* saves the copy to storage and puts it in the cache; every one of these  *)
(* is an await, and no lock is held from one to the next.                  *)
(***************************************************************************)
EXTENDS Integers, FiniteSets, Sequences

CONSTANTS
  Signers,      \* the participants of the session
  Thresholds,   \* the numbers of signatures a proposal may require; n is not checked
  Tasks,        \* handlers that run at the same time
  MaxMessages,  \* bound: messages and application calls handled
  MaxFaults,    \* bound: crashes and failing writes
  None

ASSUME SigningAssumption ==
  /\ IsFiniteSet(Signers)
  /\ Thresholds \subseteq Nat
  /\ MaxMessages \in Nat /\ MaxFaults \in Nat
  /\ None \notin Signers

VARIABLES
  store,      \* the session in storage
  cache,      \* `sessions`
  todo,       \* the operations a handler still has to do
  phase,      \* where it is in the first of them
  copy,       \* its copy of the session
  base,       \* history: the session that copy was made from
  messages, faults,
  accepted,   \* history: signers whose signature was reported as accepted
  met,        \* history: threshold_met events
  early,      \* history: a signature was recorded before the state was Signing
  clobbered,  \* history: a session was saved or cached over a newer one
  recreated,  \* history: an existing session was created again
  broken      \* history: a crash or a failing write cut a handler off

taskVars == <<todo, phase, copy, base>>
historyVars == <<accepted, met, early, clobbered, recreated, broken>>
vars == <<store, cache, taskVars, messages, faults, historyVars>>

TerminalStates == {"Completed", "Declined", "Failed", "Abandoned"}
SessionStates ==
  {"Proposed", "Requested", "Consented", "Signing", "Combining", "Distributing"}
    \cup TerminalStates

\* can_transition_to
CanTransition ==
  {<<"Proposed", "Requested">>, <<"Requested", "Consented">>, <<"Consented", "Signing">>,
   <<"Signing", "Combining">>, <<"Combining", "Distributing">>, <<"Combining", "Completed">>,
   <<"Distributing", "Completed">>}
    \cup ({"Proposed", "Requested", "Consented"} \X {"Declined"})
    \cup ((SessionStates \ TerminalStates) \X {"Failed"})
    \cup ({"Proposed", "Requested", "Consented", "Signing"} \X {"Abandoned"})

Session == [state : SessionStates, required : Thresholds,
            consented : SUBSET Signers, signed : SUBSET Signers,
            combined : {None} \cup SUBSET Signers]

ASSUME NoneAssumption == None \notin Session /\ \A S \in SUBSET Signers : S # None

To(s) == [op |-> "to", arg |-> s]
Operation == [op : {"create"}, arg : Thresholds] \cup {To(s) : s \in SessionStates}
               \cup [op : {"consent", "sign"}, arg : Signers]
               \cup [op : {"combine", "ack"}, arg : {None}]

Init ==
  /\ store = None /\ cache = None
  /\ todo = [t \in Tasks |-> <<>>]
  /\ phase = [t \in Tasks |-> "load"]
  /\ copy = [t \in Tasks |-> None]
  /\ base = [t \in Tasks |-> None]
  /\ messages = 0 /\ faults = 0
  /\ accepted = {} /\ met = 0
  /\ early = FALSE /\ clobbered = FALSE /\ recreated = FALSE /\ broken = FALSE

Fault == faults < MaxFaults /\ faults' = faults + 1

-----------------------------------------------------------------------------
(* What the handlers do.                                                   *)

\* The operations of each message handler, and of the calls by which the
\* application sends its request or abandons the session.
Plans ==
  {<<[op |-> "create", arg |-> n]>> : n \in Thresholds}                          \* propose
    \cup {<<[op |-> "create", arg |-> n], To("Requested")>> : n \in Thresholds}  \* request
    \cup {<<[op |-> "consent", arg |-> s]>> : s \in Signers}
    \cup {<<[op |-> "sign", arg |-> s]>> : s \in Signers}
    \cup {<<[op |-> "ack", arg |-> None]>>}
    \cup {<<To(s)>> : s \in {"Requested", "Declined", "Failed", "Abandoned"}}

Busy == {t \in Tasks : todo[t] # <<>>}

\* Nothing was lost to a concurrent handler or to a second proposal so far.
Undisturbed == ~ clobbered /\ ~ recreated

\* No property speaks of a session once it is disturbed; handling no more
\* messages for it is a bound.
Handle(t) ==
  /\ todo[t] = <<>>
  /\ messages < MaxMessages /\ Undisturbed
  /\ messages' = messages + 1
  /\ \E p \in Plans : todo' = [todo EXCEPT ![t] = p]
  /\ UNCHANGED <<store, cache, phase, copy, base, faults, historyVars>>

\* The operation's checks on the session it has loaded.
Permitted(session, o) ==
  \/ o.op = "consent"
  \/ o.op = "sign" /\ o.arg \notin session.signed
  \/ o.op = "to" /\ <<session.state, o.arg>> \in CanTransition
  \/ o.op = "combine" /\ session.signed # {}

\* Mutant of Changed: combining forgets a signature.
ChangedLosing(session, o) ==
  CASE o.op = "consent" -> [session EXCEPT !.consented = @ \cup {o.arg}]
    [] o.op = "sign" -> [session EXCEPT !.signed = @ \cup {o.arg}]
    [] o.op = "to" -> [session EXCEPT !.state = o.arg]
    [] o.op = "combine" -> [session EXCEPT !.combined = session.signed \ {CHOOSE s \in session.signed : TRUE}]

\* Mutant of Changed: the newest signature replaces the others.
ChangedReplacing(session, o) ==
  CASE o.op = "consent" -> [session EXCEPT !.consented = @ \cup {o.arg}]
    [] o.op = "sign" -> [session EXCEPT !.signed = {o.arg}]
    [] o.op = "to" -> [session EXCEPT !.state = o.arg]
    [] o.op = "combine" -> [session EXCEPT !.combined = session.signed]

Changed(session, o) ==
  CASE o.op = "consent" -> [session EXCEPT !.consented = @ \cup {o.arg}]
    [] o.op = "sign" -> [session EXCEPT !.signed = @ \cup {o.arg}]
    [] o.op = "to" -> [session EXCEPT !.state = o.arg]
    [] o.op = "combine" -> [session EXCEPT !.combined = session.signed]

Fresh(n) == [state |-> "Proposed", required |-> n, consented |-> {}, signed |-> {},
             combined |-> None]

\* Mutant of FollowUp: the threshold acts when the next signature comes.
FollowUpLate(session, o) ==
  CASE o.op = "consent" /\ Cardinality(session.consented) >= session.required ->
         <<To("Consented"), To("Signing")>>
    [] o.op = "sign" /\ Cardinality(session.signed) > session.required ->
         <<To("Combining"), [op |-> "combine", arg |-> None], To("Distributing")>>
    [] OTHER -> <<>>

\* What the handler does once accept_consent or accept_partial_signature has
\* returned.
FollowUp(session, o) ==
  CASE o.op = "consent" /\ Cardinality(session.consented) >= session.required ->
         <<To("Consented"), To("Signing")>>
    [] o.op = "sign" /\ Cardinality(session.signed) >= session.required ->
         <<To("Combining"), [op |-> "combine", arg |-> None], To("Distributing")>>
    [] OTHER -> <<>>

\* threshold_met is emitted for the signature that reaches the threshold.
ThresholdMet(session, o) ==
  o.op = "sign" /\ Cardinality(session.signed) = session.required

-----------------------------------------------------------------------------
(* The steps of one operation.                                             *)

\* The handler ends, with its reply or with an error.
Return(t) ==
  /\ todo' = [todo EXCEPT ![t] = <<>>]
  /\ phase' = [phase EXCEPT ![t] = "load"]
  /\ copy' = [copy EXCEPT ![t] = None]
  /\ base' = [base EXCEPT ![t] = None]

\* The operation goes on with the session it has loaded, or fails.
Use(t, session) ==
  LET o == Head(todo[t]) IN
  \/ /\ o.op = "ack" /\ session.state = "Distributing"
     /\ todo' = [todo EXCEPT ![t] = <<To("Completed")>>]
     /\ phase' = [phase EXCEPT ![t] = "load"]
     /\ copy' = [copy EXCEPT ![t] = None]
     /\ UNCHANGED <<base, early>>
  \/ /\ o.op = "ack" /\ session.state # "Distributing"
     /\ Return(t) /\ UNCHANGED early
  \/ /\ o.op # "ack" /\ Permitted(session, o)
     /\ copy' = [copy EXCEPT ![t] = Changed(session, o)]
     /\ base' = [base EXCEPT ![t] = session]
     /\ phase' = [phase EXCEPT ![t] = "save"]
     /\ early' = (early \/ (o.op = "sign" /\ session.state # "Signing"))
     /\ UNCHANGED todo
  \/ /\ o.op # "ack" /\ ~ Permitted(session, o)
     /\ Return(t) /\ UNCHANGED early

Load(t) ==
  /\ todo[t] # <<>> /\ phase[t] = "load"
  /\ \/ /\ Head(todo[t]).op = "create"
        /\ copy' = [copy EXCEPT ![t] = Fresh(Head(todo[t]).arg)]
        /\ phase' = [phase EXCEPT ![t] = "save"]
        /\ UNCHANGED <<todo, base, early>>
     \/ Head(todo[t]).op # "create" /\ cache # None /\ Use(t, cache)
     \/ /\ Head(todo[t]).op # "create" /\ cache = None /\ store = None
        /\ Return(t) /\ UNCHANGED early
     \/ /\ Head(todo[t]).op # "create" /\ cache = None /\ store # None
        /\ copy' = [copy EXCEPT ![t] = store]
        /\ phase' = [phase EXCEPT ![t] = "fill"]
        /\ UNCHANGED <<todo, base, early>>
  /\ UNCHANGED <<store, cache, messages, faults, accepted, met, clobbered, recreated, broken>>

FillCache(t) ==
  /\ phase[t] = "fill"
  /\ cache' = copy[t]
  /\ Use(t, copy[t])
  /\ clobbered' = (clobbered \/ copy[t] # store)
  /\ UNCHANGED <<store, messages, faults, accepted, met, recreated, broken>>

SaveSession(t) ==
  /\ phase[t] = "save"
  /\ store' = copy[t]
  /\ recreated' = (recreated \/ (Head(todo[t]).op = "create" /\ store # None))
  /\ clobbered' = (clobbered \/ (Head(todo[t]).op # "create" /\ store # base[t]))
  /\ phase' = [phase EXCEPT ![t] = "cache"]
  /\ UNCHANGED <<cache, todo, copy, base, messages, faults, accepted, met, early, broken>>

SaveFails(t) ==
  /\ phase[t] = "save"
  /\ Fault
  /\ Return(t)
  /\ broken' = TRUE
  /\ UNCHANGED <<store, cache, messages, accepted, met, early, clobbered, recreated>>

CacheSession(t) ==
  LET o == Head(todo[t]) IN
  /\ phase[t] = "cache"
  /\ cache' = copy[t]
  /\ accepted' = IF o.op = "sign" THEN accepted \cup {o.arg} ELSE accepted
  /\ met' = IF ThresholdMet(copy[t], o) THEN met + 1 ELSE met
  /\ todo' = [todo EXCEPT ![t] = FollowUp(copy[t], o) \o Tail(@)]
  /\ phase' = [phase EXCEPT ![t] = "load"]
  /\ copy' = [copy EXCEPT ![t] = None]
  /\ base' = [base EXCEPT ![t] = None]
  /\ clobbered' = (clobbered \/ copy[t] # store)
  /\ UNCHANGED <<store, messages, faults, early, recreated, broken>>

\* Crash and restart of the coordinator's process.
Crash ==
  /\ Fault
  /\ cache' = None
  /\ todo' = [t \in Tasks |-> <<>>]
  /\ phase' = [t \in Tasks |-> "load"]
  /\ copy' = [t \in Tasks |-> None]
  /\ base' = [t \in Tasks |-> None]
  /\ broken' = (broken \/ Busy # {})
  /\ UNCHANGED <<store, messages, accepted, met, early, clobbered, recreated>>

Next ==
  \/ \E t \in Tasks :
       \/ Handle(t) \/ Load(t) \/ FillCache(t)
       \/ SaveSession(t) \/ SaveFails(t) \/ CacheSession(t)
  \/ Crash

Spec == Init /\ [][Next]_vars

-----------------------------------------------------------------------------
(* Properties.  Nothing keeps the handlers of one session apart; what they *)
(* are about is a session none of whose writes was lost to that.           *)

\* Type invariant; the cache never holds a session that storage has not.
TypeOK ==
  /\ store \in Session \cup {None}
  /\ cache \in Session \cup {None}
  /\ cache # None => store # None
  /\ todo \in [Tasks -> Seq(Operation)]
  /\ phase \in [Tasks -> {"load", "fill", "save", "cache"}]
  /\ copy \in [Tasks -> Session \cup {None}]
  /\ base \in [Tasks -> Session \cup {None}]
  /\ \A t \in Tasks : phase[t] # "load" => todo[t] # <<>> /\ copy[t] # None
  /\ accepted \subseteq Signers
  /\ {messages, faults, met} \subseteq Nat
  /\ {early, clobbered, recreated, broken} \subseteq BOOLEAN

\* A signature that was accepted is in storage, whatever fails afterwards:
\* it is lost only to a handler that had loaded the session before.
SignatureKept == Undisturbed => accepted \subseteq (IF store = None THEN {} ELSE store.signed)

\* A session that is distributed has a combined signature of at least the
\* required number of its participants' signatures.
CombinedIsComplete ==
  Undisturbed /\ store # None /\ store.state \in {"Distributing", "Completed"} =>
    /\ store.combined # None
    /\ store.combined \subseteq store.signed
    /\ Cardinality(store.combined) >= store.required

\* The signature that reaches the threshold moves the session on, and
\* threshold_met is emitted at most once.  The session is stuck in Signing with
\* enough signatures, and at least one, only if the last came before the
\* session was in Signing, or if a crash or a failing write cut its handler
\* off; nothing tries again.
ThresholdActs ==
  Undisturbed =>
    /\ met <= 1
    /\ ~ early /\ ~ broken /\ Busy = {} /\ store # None /\ store.state = "Signing" =>
         store.signed = {} \/ Cardinality(store.signed) < store.required
=============================================================================
