------------------------------ MODULE Workflow -------------------------------
(***************************************************************************)
(* Workflow instances and the queue of the commands that peers send        *)
(* (protocols/workflow/src/services/workflow_service.rs,                   *)
(* queue/command_queue.rs, handlers/, and the job handler of               *)
(* agent/src/modules/workflow.rs).                                         *)
(*                                                                         *)
(* A task is a command's job or an operator's call of the API; both run    *)
(* the same service operations.  Every await of a repository, a lock or an *)
(* action handler ends a step.  There is one connection and one template   *)
(* that is published and deleted, of the singleton-per-connection policy;  *)
(* other templates may be named that nobody publishes.  The repositories   *)
(* are in memory.                                                          *)
(***************************************************************************)
EXTENDS Integers, FiniteSets, Sequences, FiniteSetsExt

CONSTANTS
  Instances,      \* instance ids
  Missing,        \* those whose start names a template that is never published
  Commands,       \* slots for command records; each is also its job's task
  Operators,      \* tasks that call the API
  Handlers,       \* tasks that handle inbound messages
  Inbound,        \* the messages peers send
  Calls,          \* the calls operators make
  Records,        \* slots for instance records (their uuid)
  States, StartState, FinalStates,
  Transitions,    \* the template's transitions, in order
  KeyLimit,       \* IDEMPOTENCY_HISTORY_LIMIT
  MaxAttempts,    \* max_attempts
  Concurrency,    \* concurrency: the commands one poll takes
  MaxMessages,    \* bound: inbound messages handled
  MaxCalls,       \* bound: operator calls
  MaxFaults,      \* bound: action failures, time-outs and template deletions
  None

Tasks == Commands \cup Operators

\* Operations that load and save the instance without its lock.
Unlocked == {"pause", "resume", "cancel", "context"}

Operation == [op : {"start", "advance", "complete"} \cup Unlocked,
              inst : Instances, key : STRING \cup {None}]

Live == {"Active", "Paused"}
Terminal == {"Canceled", "Completed"}

Record == [inst : Instances, state : States, status : Live \cup Terminal,
           context : BOOLEAN, history : Seq(States \X States), keys : Seq(STRING)]

CommandRecord == [what : Inbound, attempts : Nat,
                  status : {"Pending", "Processing", "Completed", "Failed"}]

\* How advance_inner ends before it runs the action.
Refusals == {"status", "ok", "template", "transition"}

ASSUME WorkflowAssumption ==
  /\ {KeyLimit, MaxAttempts, MaxMessages, MaxCalls, MaxFaults} \subseteq Nat
  /\ Concurrency \in Nat \ {0} /\ Missing \subseteq Instances
  /\ Commands \cap Operators = {}
  /\ StartState \in States /\ FinalStates \subseteq States
  /\ Inbound \cup Calls \subseteq Operation
  /\ Transitions \in Seq([from : States, to : States, guarded : BOOLEAN])

ASSUME NoneAssumption ==
  /\ None \notin Tasks \cup Records \cup Refusals
  /\ None \notin Operation
  /\ None \notin Record
  /\ None \notin CommandRecord

VARIABLES
  template,   \* whether the template is in the repository
  repo,       \* instance_repo: slot -> record
  lock,       \* instance_locks: who holds the mutex of each instance
  cmd,        \* the command repository: slot -> record
  hmsg,       \* the message a handler has found no duplicate of
  pc,         \* where each task is
  call,       \* its operation
  slot,       \* the slot of the record it has loaded
  copy,       \* its copy of that record
  messages, calls, faults,
  advances,   \* history: advances saved, per slot
  keyed,      \* history: keyed advances saved, per slot and key
  canceled,   \* history: slots a cancel was saved to
  revived,    \* history: slots whose terminal status a pause or resume replaced
  raced,      \* history: slots written under the copy of an unlocked operation
  startsRaced,  \* history: a start was saved while another was under way
  enqueuesRaced \* history: a command was saved while a handler held the same

taskVars == <<pc, call, slot, copy>>
historyVars == <<advances, keyed, canceled, revived, raced, startsRaced, enqueuesRaced>>
boundVars == <<messages, calls, faults>>
vars == <<template, repo, lock, cmd, hmsg, taskVars, boundVars, historyVars>>

Init ==
  /\ template = FALSE
  /\ repo = [r \in Records |-> None]
  /\ lock = [i \in Instances |-> None]
  /\ cmd = [c \in Commands |-> None]
  /\ hmsg = [h \in Handlers |-> None]
  /\ pc = [x \in Tasks |-> "idle"]
  /\ call = [x \in Tasks |-> None]
  /\ slot = [x \in Tasks |-> None]
  /\ copy = [x \in Tasks |-> None]
  /\ messages = 0 /\ calls = 0 /\ faults = 0
  /\ advances = [r \in Records |-> 0]
  /\ keyed = [r \in Records |-> <<>>]
  /\ canceled = {} /\ revived = {} /\ raced = {}
  /\ startsRaced = FALSE /\ enqueuesRaced = FALSE

\* An id no record has yet; which one makes no difference.
NewSlot(records) == CHOOSE r \in DOMAIN records \cup {None} :
                      IF r = None THEN \A q \in DOMAIN records : records[q] # None
                                  ELSE records[r] = None

Fault == faults < MaxFaults /\ faults' = faults + 1

-----------------------------------------------------------------------------
(* Inbound messages: every handler enqueues a command.                     *)

\* find_by_cmd_and_thid_pending; the thread id is the instance id.
Duplicate(m) ==
  \E c \in Commands :
    /\ cmd[c] # None
    /\ cmd[c].what.op = m.op /\ cmd[c].what.inst = m.inst
    /\ cmd[c].status \in {"Pending", "Processing"}

\* Mutant of HandleMessage: duplicates are not looked for.
HandleAnyMessage(h) ==
  /\ hmsg[h] = None
  /\ messages < MaxMessages
  /\ messages' = messages + 1
  /\ \E m \in Inbound : hmsg' = [hmsg EXCEPT ![h] = m]
  /\ UNCHANGED <<template, repo, lock, cmd, taskVars, calls, faults,
                 historyVars>>

HandleMessage(h) ==
  /\ hmsg[h] = None
  /\ messages < MaxMessages
  /\ messages' = messages + 1
  /\ \E m \in Inbound : hmsg' = IF Duplicate(m) THEN hmsg ELSE [hmsg EXCEPT ![h] = m]
  /\ UNCHANGED <<template, repo, lock, cmd, taskVars, calls, faults,
                 historyVars>>

SaveCommand(h) ==
  /\ hmsg[h] # None
  /\ \E c \in Commands :
       /\ c = NewSlot(cmd)
       /\ cmd' = [cmd EXCEPT ![c] = [what |-> hmsg[h], status |-> "Pending", attempts |-> 0]]
  /\ hmsg' = [hmsg EXCEPT ![h] = None]
  /\ enqueuesRaced' =
       (enqueuesRaced \/ \E g \in Handlers \ {h} :
                           hmsg[g] # None /\ hmsg[g].op = hmsg[h].op /\ hmsg[g].inst = hmsg[h].inst)
  /\ UNCHANGED <<template, repo, lock, taskVars, boundVars, advances, keyed,
                 canceled, revived, raced, startsRaced>>

\* publish_template, by an operator or by the handler of a peer's template.
PublishTemplate ==
  /\ ~ template
  /\ template' = TRUE
  /\ UNCHANGED <<repo, lock, cmd, hmsg, taskVars, boundVars, historyVars>>

DeleteTemplate ==
  /\ template
  /\ Fault
  /\ template' = FALSE
  /\ UNCHANGED <<repo, lock, cmd, hmsg, taskVars, messages, calls, historyVars>>

-----------------------------------------------------------------------------
(* The worker, and the end of a job.                                       *)

Entry(m) == CASE m.op = "start" -> "look"
              [] m.op = "advance" -> "lock"
              [] OTHER -> "load"

Pending == {c \in Commands : cmd[c] # None /\ cmd[c].status = "Pending"}

\* What a poll takes: concurrency commands, or all there are.  find_pending
\* reads a hash map, so they may be any.
Batch(B) == B # {} /\ Cardinality(B) = Min({Concurrency, Cardinality(Pending)})

\* The commands of a batch are marked Processing and their jobs spawned.
\* Nobody else writes a pending command, so find_pending and the updates are
\* one step.
Dispatch(B) ==
  /\ B \subseteq Pending /\ Batch(B)
  /\ cmd' = [c \in Commands |-> IF c \in B THEN [cmd[c] EXCEPT !.status = "Processing",
                                                               !.attempts = @ + 1]
                                           ELSE cmd[c]]
  /\ call' = [x \in Tasks |-> IF x \in B THEN cmd[x].what ELSE call[x]]
  /\ pc' = [x \in Tasks |-> IF x \in B THEN Entry(cmd[x].what) ELSE pc[x]]
  /\ UNCHANGED <<template, repo, lock, hmsg, slot, copy, boundVars, historyVars>>

\* Mutant of Outcome: a time-out or an error never gives up.
OutcomeForever(c, result) ==
  CASE result = "ok" -> [c EXCEPT !.status = "Completed"]
    [] result = "template" -> [c EXCEPT !.status = "Pending", !.attempts = @ - 1]
    [] OTHER -> [c EXCEPT !.status = "Pending", !.attempts = @ - 1]

\* What the spawned task writes back when the job handler is through.
Outcome(c, result) ==
  CASE result = "ok" -> [c EXCEPT !.status = "Completed"]
    [] result = "template" -> [c EXCEPT !.status = "Pending", !.attempts = @ - 1]
    [] OTHER -> [c EXCEPT !.status = IF c.attempts >= MaxAttempts THEN "Failed" ELSE "Pending"]

\* The operation of task x returns: its mutex guard and its copy are dropped.
Return(x, result) ==
  /\ pc' = [pc EXCEPT ![x] = "idle"]
  /\ call' = [call EXCEPT ![x] = None]
  /\ slot' = [slot EXCEPT ![x] = None]
  /\ copy' = [copy EXCEPT ![x] = None]
  /\ lock' = [i \in Instances |-> IF lock[i] = x THEN None ELSE lock[i]]
  /\ cmd' = IF x \in Commands THEN [cmd EXCEPT ![x] = Outcome(@, result)] ELSE cmd

\* processing_timeout drops the job's future wherever it waits.
JobTimeout(c) ==
  /\ c \in Commands
  /\ pc[c] # "idle"
  /\ Fault
  /\ Return(c, "timeout")
  /\ UNCHANGED <<template, repo, hmsg, messages, calls, historyVars>>

\* delete_completed_before.
Cleanup(c) ==
  /\ cmd[c] # None
  /\ cmd[c].status \in {"Completed", "Failed"}
  /\ cmd' = [cmd EXCEPT ![c] = None]
  /\ UNCHANGED <<template, repo, lock, hmsg, taskVars, boundVars, historyVars>>

CallOperator(x) ==
  /\ x \in Operators
  /\ pc[x] = "idle"
  /\ calls < MaxCalls
  /\ calls' = calls + 1
  /\ \E m \in Calls :
       /\ call' = [call EXCEPT ![x] = m]
       /\ pc' = [pc EXCEPT ![x] = Entry(m)]
  /\ UNCHANGED <<template, repo, lock, cmd, hmsg, slot, copy, messages, faults,
                 historyVars>>

-----------------------------------------------------------------------------
(* start                                                                   *)

\* find_by_instance_id searches a hash map: of two records either is found.
Found(i) == {r \in Records : repo[r] # None /\ repo[r].inst = i}

Starting == {x \in Tasks : pc[x] \in {"policy", "create"}}

\* find_by_template_id_and_version for the start of i.
HasTemplate(i) == template /\ i \notin Missing

StartLook(x) ==
  /\ pc[x] = "look"
  /\ \/ Found(call[x].inst) # {} /\ Return(x, "ok")
     \/ Found(call[x].inst) = {} /\ ~ HasTemplate(call[x].inst) /\ Return(x, "template")
     \/ /\ Found(call[x].inst) = {} /\ HasTemplate(call[x].inst)
        /\ pc' = [pc EXCEPT ![x] = "policy"]
        /\ UNCHANGED <<lock, cmd, call, slot, copy>>
  /\ UNCHANGED <<template, repo, hmsg, boundVars, historyVars>>

\* Mutant of CheckPolicy: a paused instance does not count.
CheckPolicyActive(x) ==
  /\ pc[x] = "policy"
  /\ IF \E r \in Records : repo[r] # None /\ repo[r].status = "Active"
       THEN Return(x, "policy")
       ELSE /\ pc' = [pc EXCEPT ![x] = "create"]
            /\ UNCHANGED <<lock, cmd, call, slot, copy>>
  /\ UNCHANGED <<template, repo, hmsg, boundVars, historyVars>>

\* check_instance_policy: another live instance on the connection.
CheckPolicy(x) ==
  /\ pc[x] = "policy"
  /\ IF \E r \in Records : repo[r] # None /\ repo[r].status \in Live
       THEN Return(x, "policy")
       ELSE /\ pc' = [pc EXCEPT ![x] = "create"]
            /\ UNCHANGED <<lock, cmd, call, slot, copy>>
  /\ UNCHANGED <<template, repo, hmsg, boundVars, historyVars>>

\* save; the event of the start comes after it.
SaveInstance(x) ==
  /\ pc[x] = "create"
  /\ \E r \in Records :
       /\ r = NewSlot(repo)
       /\ repo' = [repo EXCEPT ![r] = [inst |-> call[x].inst, state |-> StartState,
                                       status |-> "Active", context |-> FALSE,
                                       history |-> <<>>, keys |-> <<>>]]
  /\ startsRaced' = (startsRaced \/ Starting # {x})
  /\ pc' = [pc EXCEPT ![x] = "emit"]
  /\ UNCHANGED <<template, lock, cmd, hmsg, call, slot, copy, boundVars, advances,
                 keyed, canceled, revived, raced, enqueuesRaced>>

-----------------------------------------------------------------------------
(* advance, under the lock of the instance                                 *)

\* Mutant of LockInstance: advances are not serialised.
LockNothing(x) ==
  /\ pc[x] = "lock"
  /\ pc' = [pc EXCEPT ![x] = "load"]
  /\ UNCHANGED <<template, repo, lock, cmd, hmsg, call, slot, copy, boundVars,
                 historyVars>>

LockInstance(x) ==
  /\ pc[x] = "lock"
  /\ lock[call[x].inst] = None
  /\ lock' = [lock EXCEPT ![call[x].inst] = x]
  /\ pc' = [pc EXCEPT ![x] = "load"]
  /\ UNCHANGED <<template, repo, cmd, hmsg, call, slot, copy, boundVars,
                 historyVars>>

\* Mutant of KeyIsKnown: the keys are not looked at.
NoKeyIsKnown(m, rec) == FALSE

KeyIsKnown(m, rec) == m.key # None /\ \E n \in 1 .. Len(rec.keys) : rec.keys[n] = m.key

\* transitions_from, and the first of them whose guard holds.
Enabled(rec) ==
  {n \in 1 .. Len(Transitions) :
     Transitions[n].from = rec.state /\ (Transitions[n].guarded => rec.context)}

\* The record the transition leads to; the oldest keys are dropped.
Advanced(rec, m) ==
  LET to   == Transitions[Min(Enabled(rec))].to
      keys == IF m.key = None THEN rec.keys ELSE Append(rec.keys, m.key)
  IN  [rec EXCEPT !.state = to,
                  !.history = Append(@, <<rec.state, to>>),
                  !.keys = IF Len(keys) > KeyLimit
                             THEN SubSeq(keys, Len(keys) - KeyLimit + 1, Len(keys))
                             ELSE keys,
                  !.status = IF to \in FinalStates THEN "Completed" ELSE @]

\* Mutant of Refusal: only a completed or paused instance is refused.
RefusalButCanceled(rec, m) ==
  IF rec.status \in {"Completed", "Paused"} THEN "status"
  ELSE IF KeyIsKnown(m, rec) THEN "ok"
  ELSE IF ~ template THEN "template"
  ELSE IF Enabled(rec) = {} THEN "transition" ELSE None

\* The checks of advance_inner on the record it has loaded, before the action.
Refusal(rec, m) ==
  IF rec.status # "Active" THEN "status"
  ELSE IF KeyIsKnown(m, rec) THEN "ok"
  ELSE IF ~ template THEN "template"
  ELSE IF Enabled(rec) = {} THEN "transition" ELSE None

Paused(rec) == [rec EXCEPT !.status = "Paused"]
Resumed(rec) == [rec EXCEPT !.status = "Active"]
Canceled(rec) == [rec EXCEPT !.status = "Canceled"]
Patched(rec) == [rec EXCEPT !.context = TRUE]

\* What an operation makes of the record it has loaded.
Changed(rec, m) ==
  CASE m.op = "advance" -> Advanced(rec, m)
    [] m.op = "pause" -> Paused(rec)
    [] m.op = "resume" -> Resumed(rec)
    [] m.op = "cancel" -> Canceled(rec)
    [] m.op = "context" -> Patched(rec)

\* complete changes nothing: it compares the state with the template.
CompleteResult(rec) == IF template => rec.state \in FinalStates THEN "ok" ELSE "status"

Load(x) ==
  LET m == call[x] IN
  /\ pc[x] = "load"
  /\ \/ Found(m.inst) = {} /\ Return(x, "instance")
     \/ \E r \in Found(m.inst) :
          \/ /\ m.op = "complete"
             /\ Return(x, CompleteResult(repo[r]))
          \/ /\ m.op = "advance" /\ Refusal(repo[r], m) # None
             /\ Return(x, Refusal(repo[r], m))
          \/ /\ m.op \in Unlocked \/ (m.op = "advance" /\ Refusal(repo[r], m) = None)
             /\ slot' = [slot EXCEPT ![x] = r]
             /\ copy' = [copy EXCEPT ![x] = Changed(repo[r], m)]
             /\ pc' = [pc EXCEPT ![x] = "save"]
             /\ UNCHANGED <<lock, cmd, call>>
  /\ UNCHANGED <<template, repo, hmsg, boundVars, historyVars>>

\* The action handler fails: a command's advance is a mirror of the peer's
\* and goes on, an operator's is given up.
ActionFails(x) ==
  /\ pc[x] = "save"
  /\ call[x].op = "advance" /\ x \in Operators
  /\ Fault
  /\ Return(x, "action")
  /\ UNCHANGED <<template, repo, hmsg, messages, calls, historyVars>>

\* Others whose copy of the record becomes stale, one of the two unlocked.
Overtaken(x) ==
  {y \in Tasks \ {x} : slot[y] = slot[x] /\ {call[x].op, call[y].op} \cap Unlocked # {}}

\* update, and what it means for the history.  The copy is used up; the lock
\* is kept while the events go out.
Save(x) ==
  LET m == call[x]  r == slot[x] IN
  /\ pc[x] = "save"
  /\ repo' = [repo EXCEPT ![r] = copy[x]]
  /\ raced' = IF Overtaken(x) = {} THEN raced ELSE raced \cup {r}
  /\ advances' = IF m.op = "advance" THEN [advances EXCEPT ![r] = @ + 1] ELSE advances
  /\ keyed' = IF m.op = "advance" /\ m.key # None THEN [keyed EXCEPT ![r] = Append(@, m.key)]
                                                  ELSE keyed
  /\ canceled' = IF m.op = "cancel" THEN canceled \cup {r} ELSE canceled
  /\ revived' = IF m.op \in {"pause", "resume"} /\ repo[r].status \in Terminal
                  THEN revived \cup {r} ELSE revived
  /\ pc' = [pc EXCEPT ![x] = "emit"]
  /\ slot' = [slot EXCEPT ![x] = None]
  /\ copy' = [copy EXCEPT ![x] = None]
  /\ UNCHANGED <<template, lock, cmd, hmsg, call, boundVars, startsRaced, enqueuesRaced>>

\* The events are emitted and the operation returns.
Emit(x) ==
  /\ pc[x] = "emit"
  /\ Return(x, "ok")
  /\ UNCHANGED <<template, repo, hmsg, boundVars, historyVars>>

-----------------------------------------------------------------------------
Step(x) ==
  \/ StartLook(x) \/ CheckPolicy(x) \/ SaveInstance(x)
  \/ LockInstance(x) \/ Load(x) \/ Save(x) \/ Emit(x)

Next ==
  \/ \E h \in Handlers : HandleMessage(h) \/ SaveCommand(h)
  \/ \E B \in SUBSET Commands : Dispatch(B)
  \/ \E c \in Commands : JobTimeout(c) \/ Cleanup(c)
  \/ \E x \in Tasks : Step(x) \/ ActionFails(x)
  \/ \E x \in Operators : CallOperator(x)
  \/ PublishTemplate \/ DeleteTemplate

Spec == Init /\ [][Next]_vars

\* The worker polls for ever, but no command can count on being in the batch.
\* The runtime polls every task that is ready; the mutexes are first come,
\* first served.
Fairness ==
  /\ WF_vars(\E B \in SUBSET Commands : Dispatch(B))
  /\ \A x \in Tasks : WF_vars(Step(x))

FairSpec == Spec /\ Fairness
-----------------------------------------------------------------------------
(* Properties.                                                             *)

\* Type invariant; the lock of an instance is held exactly by an advance of
\* it that is past its lock, and a command is Processing while its job runs.
TypeOK ==
  /\ {template, startsRaced, enqueuesRaced} \subseteq BOOLEAN
  /\ repo \in [Records -> Record \cup {None}]
  /\ lock \in [Instances -> Tasks \cup {None}]
  /\ cmd \in [Commands -> CommandRecord \cup {None}]
  /\ hmsg \in [Handlers -> Inbound \cup {None}]
  /\ pc \in [Tasks -> {"idle", "look", "policy", "create", "lock", "load", "save", "emit"}]
  /\ call \in [Tasks -> Inbound \cup Calls \cup {None}]
  /\ slot \in [Tasks -> Records \cup {None}]
  /\ copy \in [Tasks -> Record \cup {None}]
  /\ {messages, calls, faults} \subseteq Nat
  /\ advances \in [Records -> Nat] /\ keyed \in [Records -> Seq(STRING)]
  /\ canceled \cup revived \cup raced \subseteq Records
  /\ \A i \in Instances, x \in Tasks :
       lock[i] = x <=> /\ pc[x] \in {"load", "save", "emit"}
                       /\ call[x].op = "advance" /\ call[x].inst = i
  /\ \A c \in Commands :
       /\ pc[c] # "idle" <=> cmd[c] # None /\ cmd[c].status = "Processing"
       /\ cmd[c] # None => cmd[c].attempts <= 1 \/ cmd[c].attempts <= MaxAttempts

\* Every advance that was reported as done is in the history of its record,
\* unless an operation that does not take the lock overlapped with it.
NoAdvanceLost ==
  \A r \in Records : repo[r] # None /\ r \notin raced => Len(repo[r].history) = advances[r]

\* The last KeyLimit idempotency keys are each applied once, however often
\* the peer sends the advance or its command is retried.
KeyAppliedOnce ==
  \A r \in Records : r \notin raced =>
    \A m, n \in 1 .. Len(keyed[r]) :
      m < n /\ keyed[r][m] = keyed[r][n] => n - m > KeyLimit

\* A cancelled workflow stays so until somebody pauses or resumes it, unless
\* an operation that had loaded it earlier writes its copy back.
CancelSticks ==
  \A r \in canceled \ (raced \cup revived) : repo[r].status = "Canceled"

\* singleton-per-connection: a second live instance needs two starts at the
\* same time, or a terminal instance that was paused, resumed or overwritten.
SingletonPerConnection ==
  startsRaced \/ revived \cup raced # {} \/
    Cardinality({r \in Records : repo[r] # None /\ repo[r].status \in Live}) <= 1

\* Two commands of one kind for one instance are only under way together if
\* two handlers looked for duplicates before either had saved its command.
NoDuplicateCommand ==
  enqueuesRaced \/ \A c, d \in Commands :
    /\ c # d /\ cmd[c] # None /\ cmd[d] # None
    /\ {cmd[c].status, cmd[d].status} \subseteq {"Pending", "Processing"}
    => cmd[c].what.op # cmd[d].what.op \/ cmd[c].what.inst # cmd[d].what.inst

\* Starts that are tried again for ever because their template never comes.
Waiting ==
  {c \in Commands : /\ cmd[c] # None /\ cmd[c].status \in {"Pending", "Processing"}
                    /\ cmd[c].what.op = "start" /\ cmd[c].what.inst \in Missing}

\* A command is retried at most MaxAttempts times: while the template is
\* there, every command ends as Completed or Failed, unless so many starts
\* wait for another template that they can fill every batch.
CommandsEnd ==
  \A c \in Commands :
    cmd[c] # None ~> \/ cmd[c] = None
                     \/ cmd[c].status \in {"Completed", "Failed"}
                     \/ ~ template
                     \/ c \in Waiting \/ Cardinality(Waiting) >= Concurrency
=============================================================================
