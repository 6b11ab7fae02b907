---------------------------- MODULE WorkflowProofs ----------------------------
(***************************************************************************)
(* Proofs about Workflow, for every set of instances, records, commands,   *)
(* operators and handlers, every template, message and call, and every     *)
(* limit on keys, attempts, faults and calls.                              *)
(***************************************************************************)
EXTENDS Workflow, FiniteSetTheorems, WellFoundedInduction, SequenceTheorems, TLAPS

Bounds == messages \in Nat /\ calls \in Nat /\ faults \in Nat

Flags == template \in BOOLEAN /\ startsRaced \in BOOLEAN /\ enqueuesRaced \in BOOLEAN

-----------------------------------------------------------------------------
(* The tasks, the mutexes and the commands.                                *)

TaskTypes ==
  /\ lock \in [Instances -> Tasks \cup {None}]
  /\ cmd \in [Commands -> CommandRecord \cup {None}]
  /\ pc \in [Tasks -> {"idle", "look", "policy", "create", "lock", "load", "save", "emit"}]
  /\ call \in [Tasks -> Inbound \cup Calls \cup {None}]
  /\ slot \in [Tasks -> Records \cup {None}]
  /\ copy \in [Tasks -> Record \cup {None}]

\* A task has a call while it runs, and a record once it has loaded one.
StageOK(x) ==
  /\ pc[x] = "idle" <=> call[x] = None
  /\ pc[x] = "save" <=> slot[x] # None
  /\ pc[x] \in {"look", "policy", "create"} => call[x].op = "start"
  /\ pc[x] = "lock" => call[x].op = "advance"
  /\ pc[x] = "load" => call[x].op # "start"
  /\ pc[x] = "save" => copy[x] # None /\ call[x].op \in Unlocked \cup {"advance"}

\* The mutex of i is held by an advance of i that is past its lock, and by no other.
Holds(x, i) == pc[x] \in {"load", "save", "emit"} /\ call[x].op = "advance" /\ call[x].inst = i

LockOK == \A i \in Instances, x \in Tasks : lock[i] = x <=> Holds(x, i)

\* Whether the job of c runs, and how often it was tried.
CommandOK(c) ==
  /\ pc[c] # "idle" <=> cmd[c] # None /\ cmd[c].status = "Processing"
  /\ cmd[c] # None => cmd[c].attempts <= 1 \/ cmd[c].attempts <= MaxAttempts
  /\ cmd[c] # None /\ cmd[c].status = "Processing" => cmd[c].attempts >= 1
  /\ cmd[c] # None /\ cmd[c].status = "Pending" =>
       cmd[c].attempts = 0 \/ cmd[c].attempts < MaxAttempts

ControlOK ==
  /\ TaskTypes
  /\ \A x \in Tasks : StageOK(x)
  /\ LockOK
  /\ \A c \in Commands : CommandOK(c)

-----------------------------------------------------------------------------
(* The queue of commands.                                                  *)

Underway(c) == cmd[c] # None /\ cmd[c].status \in {"Pending", "Processing"}

SameKind(m, n) == m.op = n.op /\ m.inst = n.inst

\* A message whose handler found no duplicate has none until somebody races it.
QueueOK ==
  /\ hmsg \in [Handlers -> Inbound \cup {None}]
  /\ enqueuesRaced \/
       /\ \A c, d \in Commands :
            c # d /\ Underway(c) /\ Underway(d) => ~ SameKind(cmd[c].what, cmd[d].what)
       /\ \A h \in Handlers, c \in Commands :
            hmsg[h] # None /\ Underway(c) => ~ SameKind(cmd[c].what, hmsg[h])

-----------------------------------------------------------------------------
(* The instance records and their copies.                                  *)

RecordTypes ==
  /\ repo \in [Records -> Record \cup {None}]
  /\ advances \in [Records -> Nat]
  /\ keyed \in [Records -> Seq(STRING)]
  /\ canceled \subseteq Records
  /\ revived \subseteq Records
  /\ raced \subseteq Records

\* What advance_inner has checked before it runs the action.
Appliable(rec, m) == rec.status = "Active" /\ ~ KeyIsKnown(m, rec) /\ Enabled(rec) # {}

\* The copy of a task that is about to save is of the record's instance, and up to
\* date unless an operation without the lock overlapped.
CopyOK(x) ==
  pc[x] = "save" =>
    /\ repo[slot[x]] # None
    /\ repo[slot[x]].inst = call[x].inst /\ copy[x].inst = call[x].inst
    /\ slot[x] \notin raced =>
         /\ copy[x] = Changed(repo[slot[x]], call[x])
         /\ call[x].op = "advance" => Appliable(repo[slot[x]], call[x])

\* The keys a record keeps are the last KeyLimit that were applied to it.
LastKeys(kept, applied) ==
  /\ Len(kept) <= Len(applied) /\ Len(kept) <= KeyLimit
  /\ Len(kept) = Len(applied) \/ Len(kept) = KeyLimit
  /\ \A n \in 1 .. Len(kept) : kept[n] = applied[Len(applied) - Len(kept) + n]

\* No key of s comes again within the next KeyLimit.
Apart(s) == \A m, n \in 1 .. Len(s) : m < n /\ s[m] = s[n] => n - m > KeyLimit

HistoryOK(r) ==
  r \notin raced =>
    /\ repo[r] = None => advances[r] = 0 /\ keyed[r] = <<>>
    /\ repo[r] # None => Len(repo[r].history) = advances[r] /\ LastKeys(repo[r].keys, keyed[r])
    /\ Apart(keyed[r])

CancelOK(r) ==
  r \in canceled =>
    /\ repo[r] # None
    /\ r \notin raced \cup revived => repo[r].status = "Canceled"

IsLive(r) == repo[r] # None /\ repo[r].status \in Live

\* A start that has passed the policy check finds no live instance until it saves.
SingletonOK ==
  startsRaced \/ revived \cup raced # {} \/
    /\ \A r, q \in Records : IsLive(r) /\ IsLive(q) => r = q
    /\ \A x \in Tasks, r \in Records : pc[x] = "create" => ~ IsLive(r)

RecordsOK ==
  /\ RecordTypes
  /\ \A x \in Tasks : CopyOK(x)
  /\ \A r \in Records : HistoryOK(r) /\ CancelOK(r)
  /\ SingletonOK

WorkflowInv == Bounds /\ Flags /\ ControlOK /\ QueueOK /\ RecordsOK
-----------------------------------------------------------------------------
(* The operators.                                                          *)

\* A nonempty set of numbers has a least one.
LEMMA LeastOf ==
  ASSUME NEW S \in SUBSET Nat, S # {}
  PROVE  Min(S) \in S
<1> DEFINE R == OpToRel(<, Nat)
<1>1. IsWellFoundedOn(R, Nat) BY NatLessThanWellFounded
<1> HIDE DEF R
<1>2. PICK n \in S : \A m \in S : ~ (<<m, n>> \in R) BY <1>1, WFMin
<1>3. \A m \in S : m < n => <<m, n>> \in R BY DEF R, OpToRel
<1>4. n \in Nat /\ \A m \in S : m \in Nat /\ ~ (m < n) BY <1>2, <1>3
<1>5. \A m \in S : n <= m BY <1>4
<1> QED BY <1>5 DEF Min

\* The last elements of a sequence with one more at its end.
LEMMA Trimmed ==
  ASSUME NEW T, NEW s \in Seq(T), NEW limit \in Nat
  PROVE  LET kept == IF Len(s) > limit THEN SubSeq(s, Len(s) - limit + 1, Len(s)) ELSE s
         IN  kept \in Seq(T)
<1>1. Len(s) \in Nat OBVIOUS
<1>2. CASE Len(s) > limit
  <2>1. Len(s) - limit + 1 \in Int /\ Len(s) - limit + 1 >= 1 BY <1>1, <1>2
  <2>2. SubSeq(s, Len(s) - limit + 1, Len(s)) \in Seq(T) BY <1>1, <2>1, SubSeqProperties
  <2> QED BY <1>2, <2>2
<1> QED BY <1>2

LEMMA Appended ==
  ASSUME NEW T, NEW s \in Seq(T), NEW k \in T
  PROVE  /\ Append(s, k) \in Seq(T) /\ Len(Append(s, k)) = Len(s) + 1 /\ Len(s) \in Nat
         /\ Append(s, k)[Len(s) + 1] = k
         /\ \A n \in 1 .. Len(s) : Append(s, k)[n] = s[n]
BY AppendProperties

\* save puts a record where there was none.
LEMMA NewSlotIsFree ==
  ASSUME NEW S, None \notin S, NEW f, DOMAIN f = S, NEW r \in S, r = NewSlot(f)
  PROVE  f[r] = None
<1> DEFINE P(q) == IF q = None THEN \A p \in DOMAIN f : f[p] # None ELSE f[q] = None
<1>1. \E q \in DOMAIN f \cup {None} : P(q) OBVIOUS
<1>2. P(CHOOSE q \in DOMAIN f \cup {None} : P(q)) BY <1>1
<1>3. P(r) BY <1>2 DEF NewSlot
<1> QED BY <1>3

\* What an advance makes of a record.
LEMMA AdvancedFacts ==
  ASSUME NEW rec \in Record, NEW m \in Operation, Enabled(rec) # {}
  PROVE  /\ Advanced(rec, m) \in Record
         /\ Advanced(rec, m).inst = rec.inst
         /\ Advanced(rec, m).status \in {rec.status, "Completed"}
         /\ Len(Advanced(rec, m).history) = Len(rec.history) + 1
         /\ m.key = None /\ Len(rec.keys) <= KeyLimit => Advanced(rec, m).keys = rec.keys
         /\ m.key # None => Advanced(rec, m).keys =
              IF Len(rec.keys) + 1 > KeyLimit
                THEN SubSeq(Append(rec.keys, m.key), Len(rec.keys) + 2 - KeyLimit, Len(rec.keys) + 1)
                ELSE Append(rec.keys, m.key)
<1> DEFINE to == Transitions[Min(Enabled(rec))].to
           keys == IF m.key = None THEN rec.keys ELSE Append(rec.keys, m.key)
           kept == IF Len(keys) > KeyLimit THEN SubSeq(keys, Len(keys) - KeyLimit + 1, Len(keys)) ELSE keys
<1>1. Min(Enabled(rec)) \in 1 .. Len(Transitions)
  <2>1. Enabled(rec) \in SUBSET (1 .. Len(Transitions)) BY DEF Enabled
  <2>2. Len(Transitions) \in Nat BY WorkflowAssumption
  <2>3. Enabled(rec) \in SUBSET Nat BY <2>1, <2>2
  <2> QED BY <2>1, <2>3, LeastOf
<1>2. to \in States
  <2>1. Transitions \in Seq([from : States, to : States, guarded : BOOLEAN]) BY WorkflowAssumption
  <2>2. Transitions[Min(Enabled(rec))] \in [from : States, to : States, guarded : BOOLEAN]
    BY <1>1, <2>1, ElementOfSeq
  <2> QED BY <2>2
<1>3. rec.keys \in Seq(STRING) /\ rec.history \in Seq(States \X States) /\ rec.state \in States
      /\ rec.status \in Live \cup Terminal /\ m.key \in STRING \cup {None}
  BY DEF Record, Operation
<1>4. keys \in Seq(STRING)
  <2>1. CASE m.key = None BY <1>3, <2>1
  <2>2. CASE m.key # None
    <3>1. m.key \in STRING BY <1>3, <2>2
    <3> QED BY <1>3, <2>2, <3>1, Appended
  <2> QED BY <2>1, <2>2
<1>5. KeyLimit \in Nat BY WorkflowAssumption
<1>6. kept \in Seq(STRING) BY <1>4, <1>5, Trimmed
<1>7. Advanced(rec, m) = [rec EXCEPT !.state = to, !.history = Append(@, <<rec.state, to>>),
                                    !.keys = kept, !.status = IF to \in FinalStates THEN "Completed" ELSE @]
  BY DEF Advanced
<1> HIDE DEF to, kept
<1>8. Append(rec.history, <<rec.state, to>>) \in Seq(States \X States)
      /\ Len(Append(rec.history, <<rec.state, to>>)) = Len(rec.history) + 1
  BY <1>2, <1>3
<1>9. /\ Advanced(rec, m) \in Record
      /\ Advanced(rec, m).inst = rec.inst
      /\ Advanced(rec, m).status \in {rec.status, "Completed"}
      /\ Len(Advanced(rec, m).history) = Len(rec.history) + 1
      /\ Advanced(rec, m).keys = kept
  BY <1>2, <1>3, <1>6, <1>7, <1>8 DEF Record, Live, Terminal
<1>10. m.key = None /\ Len(rec.keys) <= KeyLimit => kept = rec.keys BY <1>3, <1>5 DEF kept
<1>11. m.key # None => kept =
              IF Len(rec.keys) + 1 > KeyLimit
                THEN SubSeq(Append(rec.keys, m.key), Len(rec.keys) + 2 - KeyLimit, Len(rec.keys) + 1)
                ELSE Append(rec.keys, m.key)
  <2> SUFFICES ASSUME m.key # None PROVE kept =
              IF Len(rec.keys) + 1 > KeyLimit
                THEN SubSeq(Append(rec.keys, m.key), Len(rec.keys) + 2 - KeyLimit, Len(rec.keys) + 1)
                ELSE Append(rec.keys, m.key)
    OBVIOUS
  <2>0. m.key \in STRING BY <1>3
  <2>1. keys = Append(rec.keys, m.key) /\ Len(keys) = Len(rec.keys) + 1 BY <1>3, <2>0, Appended
  <2>2. Len(keys) - KeyLimit + 1 = Len(rec.keys) + 2 - KeyLimit BY <1>3, <1>5, <2>1
  <2> QED BY <2>1, <2>2 DEF kept
<1> QED BY <1>9, <1>10, <1>11

\* What the operations without the lock make of a record.
LEMMA UnlockedFacts ==
  ASSUME NEW rec \in Record, NEW m \in Operation, m.op \in Unlocked
  PROVE  /\ Changed(rec, m) \in Record
         /\ Changed(rec, m).inst = rec.inst
         /\ Changed(rec, m).history = rec.history
         /\ Changed(rec, m).keys = rec.keys
         /\ Changed(rec, m).status = CASE m.op = "pause" -> "Paused"
                                       [] m.op = "resume" -> "Active"
                                       [] m.op = "cancel" -> "Canceled"
                                       [] m.op = "context" -> rec.status
BY DEF Changed, Paused, Resumed, Canceled, Patched, Record, Unlocked, Live, Terminal

LEMMA ChangedIsRecord ==
  ASSUME NEW rec \in Record, NEW m \in Operation, m.op \in Unlocked \cup {"advance"},
         m.op = "advance" => Enabled(rec) # {}
  PROVE  Changed(rec, m) \in Record /\ Changed(rec, m).inst = rec.inst
<1>1. CASE m.op = "advance"
  <2>1. Changed(rec, m) = Advanced(rec, m) BY <1>1 DEF Changed
  <2> QED BY <1>1, <2>1, AdvancedFacts
<1>2. CASE m.op \in Unlocked BY <1>2, UnlockedFacts
<1> QED BY <1>1, <1>2

\* A key that the record does not keep was not among the last KeyLimit.
LEMMA KeyedOn ==
  ASSUME NEW T, NEW kept \in Seq(T), NEW applied \in Seq(T), NEW k \in T,
         LastKeys(kept, applied), Apart(applied), \A n \in 1 .. Len(kept) : kept[n] # k,
         NEW next, next = IF Len(kept) + 1 > KeyLimit
                            THEN SubSeq(Append(kept, k), Len(kept) + 2 - KeyLimit, Len(kept) + 1)
                            ELSE Append(kept, k)
  PROVE  LastKeys(next, Append(applied, k)) /\ Apart(Append(applied, k))
<1>0. KeyLimit \in Nat /\ Len(kept) \in Nat /\ Len(applied) \in Nat BY WorkflowAssumption
<1> DEFINE L == Len(kept)
           A == Len(applied)
           all == Append(applied, k)
           ext == Append(kept, k)
<1>1. all \in Seq(T) /\ Len(all) = A + 1 /\ all[A + 1] = k /\ \A n \in 1 .. A : all[n] = applied[n]
  BY Appended
<1>2. ext \in Seq(T) /\ Len(ext) = L + 1 /\ ext[L + 1] = k /\ \A n \in 1 .. L : ext[n] = kept[n]
  BY Appended
<1>3. L <= A /\ L <= KeyLimit /\ (L = A \/ L = KeyLimit) /\ \A n \in 1 .. L : kept[n] = applied[A - L + n]
  BY DEF LastKeys
<1>4. \A n \in 1 .. L + 1 : ext[n] = all[A - L + n]
  <2> TAKE n \in 1 .. L + 1
  <2>1. CASE n = L + 1
    <3>1. A - L + n = A + 1 BY <1>0, <2>1
    <3> QED BY <1>1, <1>2, <2>1, <3>1
  <2>2. CASE n # L + 1
    <3>1. n \in 1 .. L /\ A - L + n \in 1 .. A BY <1>0, <1>3, <2>2
    <3> QED BY <1>1, <1>2, <1>3, <3>1
  <2> QED BY <2>1, <2>2
<1> HIDE DEF L, A, all, ext
<1>00. L \in Nat /\ A \in Nat BY <1>0 DEF L, A
<1>5. LastKeys(next, all)
  <2>1. CASE L + 1 > KeyLimit
    <3>1. next = SubSeq(ext, L + 2 - KeyLimit, L + 1) BY <2>1 DEF L, ext
    <3>2. L = KeyLimit BY <1>0, <1>00, <1>3, <2>1
    <3>3. L + 2 - KeyLimit = 2 BY <1>00, <3>2
    <3>4. next = SubSeq(ext, 2, L + 1) BY <3>1, <3>3
    <3>5. Len(next) = L /\ \A n \in 1 .. L : next[n] = ext[n + 1]
      <4>1. Len(SubSeq(ext, 2, L + 1)) = L BY <1>2, <1>00, SubSeqProperties
      <4>2. \A n \in 1 .. L : SubSeq(ext, 2, L + 1)[n] = ext[n + 1]
        BY <1>2, <1>00, <4>1, SubSeqProperties
      <4> QED BY <3>4, <4>1, <4>2
    <3>6. \A n \in 1 .. L : next[n] = all[Len(all) - L + n]
      <4> TAKE n \in 1 .. L
      <4>1. n + 1 \in 1 .. L + 1 /\ A - L + (n + 1) = (A + 1) - L + n BY <1>00
      <4>2. ext[n + 1] = all[A - L + (n + 1)] BY <1>4, <4>1
      <4>3. ext[n + 1] = all[(A + 1) - L + n] BY <4>1, <4>2
      <4> QED BY <1>1, <3>5, <4>3
    <3>7. L <= A + 1 /\ L <= KeyLimit BY <1>00, <1>3
    <3> QED BY <1>1, <3>2, <3>5, <3>6, <3>7 DEF LastKeys
  <2>2. CASE ~ (L + 1 > KeyLimit)
    <3>1. next = ext BY <2>2 DEF L, ext
    <3>2. L = A /\ L + 1 <= KeyLimit /\ L + 1 <= A + 1 BY <1>0, <1>00, <1>3, <2>2
    <3>3. \A n \in 1 .. L + 1 : ext[n] = all[Len(all) - Len(ext) + n]
      <4> TAKE n \in 1 .. L + 1
      <4>1. (A + 1) - (L + 1) + n = A - L + n BY <1>00
      <4>2. ext[n] = all[A - L + n] BY <1>4
      <4> QED BY <1>1, <1>2, <4>1, <4>2
    <3> QED BY <1>1, <1>2, <3>1, <3>2, <3>3 DEF LastKeys
  <2> QED BY <2>1, <2>2
<1>6. Apart(all)
  <2> SUFFICES ASSUME NEW m \in 1 .. A + 1, NEW n \in 1 .. A + 1, m < n, all[m] = all[n]
               PROVE  n - m > KeyLimit
    BY <1>1 DEF Apart
  <2>1. CASE n = A + 1
    <3>1. m \in 1 .. A BY <1>00, <2>1
    <3>2. applied[m] = k BY <1>1, <2>1, <3>1
    <3>3. ~ (m > A - L)
      <4> SUFFICES ASSUME m > A - L PROVE FALSE OBVIOUS
      <4>1. m - (A - L) \in 1 .. L /\ A - L + (m - (A - L)) = m BY <1>00, <1>3, <3>1
      <4> QED BY <1>3, <3>2, <4>1 DEF L
    <3>4. L = KeyLimit BY <1>0, <1>00, <1>3, <3>1, <3>3
    <3> QED BY <1>00, <2>1, <3>1, <3>3, <3>4
  <2>2. CASE n # A + 1
    <3>1. m \in 1 .. A /\ n \in 1 .. A BY <1>00, <2>2
    <3>2. applied[m] = applied[n] BY <1>1, <3>1
    <3> QED BY <3>1, <3>2 DEF Apart, A
  <2> QED BY <2>1, <2>2
<1> QED BY <1>5, <1>6 DEF all

-----------------------------------------------------------------------------
(* The tasks and the commands.                                             *)

LEMMA CallFacts ==
  ASSUME TaskTypes, NEW x \in Tasks
  PROVE  /\ call[x] # None => call[x] \in Operation
         /\ call[x] # None => call[x].inst \in Instances
BY WorkflowAssumption DEF TaskTypes, Operation

\* What the spawned task makes of the command whose job has ended.
LEMMA OutcomeFacts ==
  ASSUME NEW c \in CommandRecord, c.attempts >= 1, c.attempts <= 1 \/ c.attempts <= MaxAttempts,
         NEW result
  PROVE  /\ Outcome(c, result) \in CommandRecord
         /\ Outcome(c, result).what = c.what
         /\ Outcome(c, result).status # "Processing"
         /\ Outcome(c, result).attempts <= 1 \/ Outcome(c, result).attempts <= MaxAttempts
         /\ Outcome(c, result).status = "Pending" =>
              Outcome(c, result).attempts = 0 \/ Outcome(c, result).attempts < MaxAttempts
<1>0. MaxAttempts \in Nat /\ c.attempts \in Nat BY WorkflowAssumption DEF CommandRecord
<1>1. CASE result = "ok"
  <2>1. Outcome(c, result) = [c EXCEPT !.status = "Completed"] BY <1>1 DEF Outcome
  <2> QED BY <1>0, <2>1 DEF CommandRecord
<1>2. CASE result = "template"
  <2>1. Outcome(c, result) = [c EXCEPT !.status = "Pending", !.attempts = @ - 1] BY <1>2 DEF Outcome
  <2>2. c.attempts - 1 \in Nat /\ (c.attempts - 1 = 0 \/ c.attempts - 1 < MaxAttempts) BY <1>0
  <2>3. /\ Outcome(c, result) \in CommandRecord /\ Outcome(c, result).what = c.what
        /\ Outcome(c, result).status = "Pending" /\ Outcome(c, result).attempts = c.attempts - 1
    BY <2>1, <2>2 DEF CommandRecord
  <2> QED BY <1>0, <2>2, <2>3
<1>3. CASE result # "ok" /\ result # "template"
  <2>1. Outcome(c, result) =
          [c EXCEPT !.status = IF c.attempts >= MaxAttempts THEN "Failed" ELSE "Pending"]
    BY <1>3 DEF Outcome
  <2> QED BY <1>0, <2>1 DEF CommandRecord
<1> QED BY <1>1, <1>2, <1>3

\* A task that returns leaves the others alone and takes no command up.
LEMMA ReturnEffect ==
  ASSUME ControlOK, NEW x \in Tasks, pc[x] # "idle", NEW result, Return(x, result)
  PROVE  /\ \A y \in Tasks : pc'[y] # "idle" =>
              /\ y # x /\ pc'[y] = pc[y] /\ call'[y] = call[y]
              /\ slot'[y] = slot[y] /\ copy'[y] = copy[y]
         /\ \A c \in Commands : Underway(c)' => Underway(c) /\ cmd'[c].what = cmd[c].what
<1>1. \A y \in Tasks : pc'[y] # "idle" =>
              /\ y # x /\ pc'[y] = pc[y] /\ call'[y] = call[y]
              /\ slot'[y] = slot[y] /\ copy'[y] = copy[y]
  BY DEF ControlOK, TaskTypes, Return
<1>2. ASSUME NEW c \in Commands, Underway(c)' PROVE Underway(c) /\ cmd'[c].what = cmd[c].what
  <2>1. CASE c = x
    <3>1. cmd'[c] = Outcome(cmd[c], result) BY <2>1 DEF Return, ControlOK, TaskTypes
    <3>2. cmd[c] # None /\ cmd[c].status = "Processing" BY <2>1 DEF ControlOK, CommandOK
    <3>3. cmd[c] \in CommandRecord /\ cmd[c].attempts >= 1
          /\ (cmd[c].attempts <= 1 \/ cmd[c].attempts <= MaxAttempts)
      BY <3>2 DEF ControlOK, TaskTypes, CommandOK
    <3>4. cmd'[c].what = cmd[c].what BY <3>1, <3>3, OutcomeFacts
    <3> QED BY <3>2, <3>4 DEF Underway
  <2>2. CASE c # x
    <3>1. cmd'[c] = cmd[c] BY <2>2 DEF Return, ControlOK, TaskTypes
    <3> QED BY <1>2, <3>1 DEF Underway
  <2> QED BY <2>1, <2>2
<1> QED BY <1>1, <1>2

LEMMA ReturnControl ==
  ASSUME ControlOK, NEW x \in Tasks, pc[x] # "idle", NEW result, Return(x, result)
  PROVE  ControlOK'
<1>0. TaskTypes BY DEF ControlOK
<1>1. x \in Commands =>
        /\ cmd' = [cmd EXCEPT ![x] = Outcome(cmd[x], result)]
        /\ cmd[x] \in CommandRecord /\ cmd[x].attempts >= 1
        /\ cmd[x].attempts <= 1 \/ cmd[x].attempts <= MaxAttempts
  BY <1>0 DEF Return, ControlOK, TaskTypes, CommandOK
<1>2. TaskTypes'
  <2>1. cmd' \in [Commands -> CommandRecord \cup {None}]
    <3>1. CASE x \in Commands
      <4>1. Outcome(cmd[x], result) \in CommandRecord BY <1>1, <3>1, OutcomeFacts
      <4> QED BY <1>0, <1>1, <3>1, <4>1 DEF TaskTypes
    <3>2. CASE x \notin Commands BY <1>0, <3>2 DEF TaskTypes, Return
    <3> QED BY <3>1, <3>2
  <2>2. lock' \in [Instances -> Tasks \cup {None}] BY <1>0 DEF TaskTypes, Return
  <2>3. pc' \in [Tasks -> {"idle", "look", "policy", "create", "lock", "load", "save", "emit"}]
    BY <1>0 DEF TaskTypes, Return
  <2>4. call' \in [Tasks -> Inbound \cup Calls \cup {None}] BY <1>0 DEF TaskTypes, Return
  <2>5. slot' \in [Tasks -> Records \cup {None}] BY <1>0 DEF TaskTypes, Return
  <2>6. copy' \in [Tasks -> Record \cup {None}] BY <1>0 DEF TaskTypes, Return
  <2> QED BY <2>1, <2>2, <2>3, <2>4, <2>5, <2>6 DEF TaskTypes
<1>3. pc'[x] = "idle" /\ call'[x] = None /\ slot'[x] = None /\ copy'[x] = None
  BY <1>0 DEF TaskTypes, Return
<1>4. \A y \in Tasks \ {x} : /\ pc'[y] = pc[y] /\ call'[y] = call[y]
                             /\ slot'[y] = slot[y] /\ copy'[y] = copy[y]
  BY <1>0 DEF TaskTypes, Return
<1>5. ASSUME NEW y \in Tasks PROVE StageOK(y)'
  <2>1. CASE y = x BY <1>3, <2>1 DEF StageOK
  <2>2. CASE y # x BY <1>4, <2>2 DEF ControlOK, StageOK
  <2> QED BY <2>1, <2>2
<1>6. LockOK'
  <2> SUFFICES ASSUME NEW i \in Instances, NEW y \in Tasks PROVE lock'[i] = y <=> Holds(y, i)'
    BY DEF LockOK
  <2>1. lock'[i] = IF lock[i] = x THEN None ELSE lock[i] BY DEF Return
  <2>2. CASE y = x
    <3>1. ~ Holds(y, i)' BY <1>3, <2>2 DEF Holds
    <3>2. lock'[i] # x BY <2>1, NoneAssumption
    <3> QED BY <2>2, <3>1, <3>2
  <2>3. CASE y # x
    <3>1. Holds(y, i)' <=> Holds(y, i) BY <1>4, <2>3 DEF Holds
    <3>2. lock'[i] = y <=> lock[i] = y BY <2>1, <2>3, NoneAssumption
    <3> QED BY <3>1, <3>2 DEF ControlOK, LockOK
  <2> QED BY <2>2, <2>3
<1>7. ASSUME NEW c \in Commands PROVE CommandOK(c)'
  <2>1. CASE c = x
    <3>1. cmd'[c] = Outcome(cmd[x], result) BY <1>0, <1>1, <2>1 DEF TaskTypes
    <3>2. cmd'[c].status # "Processing"
          /\ (cmd'[c].attempts <= 1 \/ cmd'[c].attempts <= MaxAttempts)
          /\ (cmd'[c].status = "Pending" => cmd'[c].attempts = 0 \/ cmd'[c].attempts < MaxAttempts)
      BY <1>1, <2>1, <3>1, OutcomeFacts
    <3> QED BY <1>3, <2>1, <3>2 DEF CommandOK
  <2>2. CASE c # x
    <3>1. cmd'[c] = cmd[c] BY <1>0, <2>2 DEF Return, TaskTypes
    <3>2. pc'[c] = pc[c] BY <1>4, <2>2 DEF Tasks
    <3> QED BY <3>1, <3>2 DEF ControlOK, CommandOK
  <2> QED BY <2>1, <2>2
<1> QED BY <1>2, <1>5, <1>6, <1>7 DEF ControlOK

\* A task that goes on with its call.
LEMMA MoveControl ==
  ASSUME ControlOK, NEW x \in Tasks, NEW next, UNCHANGED <<lock, cmd, call>>,
         <<pc[x], next>> \in {<<"look", "policy">>, <<"policy", "create">>},
         pc' = [pc EXCEPT ![x] = next], UNCHANGED <<slot, copy>>
  PROVE  ControlOK'
<1>0. TaskTypes BY DEF ControlOK
<1>1. pc'[x] = next /\ (\A y \in Tasks \ {x} : pc'[y] = pc[y]) BY <1>0 DEF TaskTypes
<1>2. TaskTypes' BY <1>0 DEF TaskTypes
<1>3. \A y \in Tasks : StageOK(y)' BY <1>1 DEF ControlOK, StageOK
<1>4. LockOK'
  <2>1. \A i \in Instances, y \in Tasks : Holds(y, i)' <=> Holds(y, i) BY <1>1 DEF Holds
  <2> QED BY <2>1 DEF ControlOK, LockOK
<1>5. \A c \in Commands : CommandOK(c)' BY <1>1 DEF ControlOK, CommandOK, Tasks
<1> QED BY <1>2, <1>3, <1>4, <1>5 DEF ControlOK

LEMMA LockControl ==
  ASSUME ControlOK, NEW x \in Tasks, LockInstance(x)
  PROVE  ControlOK'
<1>0. TaskTypes BY DEF ControlOK
<1>1. pc[x] = "lock" /\ call[x].op = "advance" /\ call[x] # None
  BY DEF LockInstance, ControlOK, StageOK
<1>2. PICK j \in Instances : j = call[x].inst BY <1>0, <1>1, CallFacts
<1>3. lock[j] = None /\ lock' = [lock EXCEPT ![j] = x] BY <1>2 DEF LockInstance
<1>4. pc'[x] = "load" /\ (\A y \in Tasks \ {x} : pc'[y] = pc[y]) /\ UNCHANGED <<cmd, call, slot, copy>>
  BY <1>0 DEF TaskTypes, LockInstance
<1>5. TaskTypes' BY <1>0, <1>3 DEF TaskTypes, LockInstance
<1>6. \A y \in Tasks : StageOK(y)' BY <1>1, <1>4 DEF ControlOK, StageOK
<1>7. LockOK'
  <2> SUFFICES ASSUME NEW i \in Instances, NEW y \in Tasks PROVE lock'[i] = y <=> Holds(y, i)'
    BY DEF LockOK
  <2>1. CASE y = x
    <3>1. Holds(x, i)' <=> i = j BY <1>1, <1>2, <1>4 DEF Holds
    <3>2. ~ Holds(x, i) BY <1>1 DEF Holds
    <3>3. lock[i] # x BY <3>2 DEF ControlOK, LockOK
    <3>4. lock'[i] = x <=> i = j BY <1>0, <1>3, <3>3 DEF TaskTypes
    <3> QED BY <2>1, <3>1, <3>4
  <2>2. CASE y # x
    <3>1. Holds(y, i)' <=> Holds(y, i) BY <1>4, <2>2 DEF Holds
    <3>2. lock'[i] = y <=> lock[i] = y BY <1>0, <1>3, <2>2, NoneAssumption DEF TaskTypes
    <3> QED BY <3>1, <3>2 DEF ControlOK, LockOK
  <2> QED BY <2>1, <2>2
<1>8. \A c \in Commands : CommandOK(c)' BY <1>1, <1>4 DEF ControlOK, CommandOK, Tasks
<1> QED BY <1>5, <1>6, <1>7, <1>8 DEF ControlOK

\* A task that has loaded a record.
LEMMA LoadControl ==
  ASSUME ControlOK, NEW x \in Tasks, NEW r \in Records, NEW rec \in Record, pc[x] = "load",
         call[x].op \in Unlocked \cup {"advance"},
         slot' = [slot EXCEPT ![x] = r], copy' = [copy EXCEPT ![x] = rec],
         pc' = [pc EXCEPT ![x] = "save"], UNCHANGED <<lock, cmd, call>>
  PROVE  ControlOK'
<1>0. TaskTypes BY DEF ControlOK
<1>1. pc'[x] = "save" /\ slot'[x] = r /\ copy'[x] = rec BY <1>0 DEF TaskTypes
<1>2. \A y \in Tasks \ {x} : pc'[y] = pc[y] /\ slot'[y] = slot[y] /\ copy'[y] = copy[y]
  BY <1>0 DEF TaskTypes
<1>3. TaskTypes' BY <1>0 DEF TaskTypes
<1>4. ASSUME NEW y \in Tasks PROVE StageOK(y)'
  <2>1. CASE y = x BY <1>1, <2>1, NoneAssumption DEF ControlOK, StageOK
  <2>2. CASE y # x BY <1>2, <2>2 DEF ControlOK, StageOK
  <2> QED BY <2>1, <2>2
<1>5. LockOK'
  <2>1. \A i \in Instances, y \in Tasks : Holds(y, i)' <=> Holds(y, i) BY <1>1, <1>2 DEF Holds
  <2> QED BY <2>1 DEF ControlOK, LockOK
<1>6. \A c \in Commands : CommandOK(c)' BY <1>1, <1>2 DEF ControlOK, CommandOK, Tasks
<1> QED BY <1>3, <1>4, <1>5, <1>6 DEF ControlOK

\* A task that has written its record goes on to its events.
LEMMA SavedControl ==
  ASSUME ControlOK, NEW x \in Tasks, pc[x] \in {"create", "save"},
         pc' = [pc EXCEPT ![x] = "emit"], UNCHANGED <<lock, cmd, call>>,
         pc[x] = "create" => UNCHANGED <<slot, copy>>,
         pc[x] = "save" => /\ slot' = [slot EXCEPT ![x] = None]
                           /\ copy' = [copy EXCEPT ![x] = None]
  PROVE  /\ ControlOK'
         /\ \A y \in Tasks : pc'[y] \in {"create", "save"} =>
              /\ y # x /\ pc'[y] = pc[y] /\ call'[y] = call[y]
              /\ slot'[y] = slot[y] /\ copy'[y] = copy[y]
<1>0. TaskTypes BY DEF ControlOK
<1>1. pc'[x] = "emit" /\ slot'[x] = None BY <1>0 DEF TaskTypes, ControlOK, StageOK
<1>2. \A y \in Tasks \ {x} : pc'[y] = pc[y] /\ slot'[y] = slot[y] /\ copy'[y] = copy[y]
  BY <1>0 DEF TaskTypes
<1>3. TaskTypes' BY <1>0 DEF TaskTypes
<1>4. ASSUME NEW y \in Tasks PROVE StageOK(y)'
  <2>1. CASE y = x BY <1>1, <2>1 DEF ControlOK, StageOK
  <2>2. CASE y # x BY <1>2, <2>2 DEF ControlOK, StageOK
  <2> QED BY <2>1, <2>2
<1>5. LockOK'
  <2>1. ASSUME NEW i \in Instances, NEW y \in Tasks PROVE Holds(y, i)' <=> Holds(y, i)
    <3>1. CASE y = x
      <4>1. pc[x] = "create" => call[x].op = "start" BY DEF ControlOK, StageOK
      <4> QED BY <1>1, <3>1, <4>1 DEF Holds
    <3>2. CASE y # x BY <1>2, <3>2 DEF Holds
    <3> QED BY <3>1, <3>2
  <2> QED BY <2>1 DEF ControlOK, LockOK
<1>6. \A c \in Commands : CommandOK(c)' BY <1>1, <1>2 DEF ControlOK, CommandOK, Tasks
<1>7. \A y \in Tasks : pc'[y] \in {"create", "save"} => y # x BY <1>1
<1> QED BY <1>2, <1>3, <1>4, <1>5, <1>6, <1>7 DEF ControlOK

\* Idle tasks take up a call each.
LEMMA EntryControl ==
  ASSUME ControlOK, NEW B \in SUBSET Tasks, \A y \in B : pc[y] = "idle",
         pc' = [y \in Tasks |-> pc'[y]], call' = [y \in Tasks |-> call'[y]],
         \A y \in B : call'[y] \in Inbound \cup Calls /\ pc'[y] = Entry(call'[y]),
         \A y \in Tasks \ B : pc'[y] = pc[y] /\ call'[y] = call[y],
         UNCHANGED <<lock, slot, copy>>
  PROVE  /\ lock' \in [Instances -> Tasks \cup {None}]
         /\ pc' \in [Tasks -> {"idle", "look", "policy", "create", "lock", "load", "save", "emit"}]
         /\ call' \in [Tasks -> Inbound \cup Calls \cup {None}]
         /\ slot' \in [Tasks -> Records \cup {None}]
         /\ copy' \in [Tasks -> Record \cup {None}]
         /\ \A y \in B : pc'[y] \in {"look", "lock", "load"}
         /\ \A y \in Tasks : StageOK(y)'
         /\ LockOK'
<1>0. TaskTypes BY DEF ControlOK
<1>1. \A y \in B : call'[y] \in Operation /\ call'[y] # None BY WorkflowAssumption, NoneAssumption
<1>2. \A y \in B : /\ pc'[y] \in {"look", "lock", "load"}
                   /\ pc'[y] = "look" <=> call'[y].op = "start"
                   /\ pc'[y] = "lock" <=> call'[y].op = "advance"
  BY DEF Entry
<1>3. pc' \in [Tasks -> {"idle", "look", "policy", "create", "lock", "load", "save", "emit"}]
  <2>1. \A y \in Tasks : pc'[y] \in {"idle", "look", "policy", "create", "lock", "load", "save", "emit"}
    BY <1>0, <1>2 DEF TaskTypes
  <2> QED BY <2>1
<1>4. call' \in [Tasks -> Inbound \cup Calls \cup {None}]
  <2>1. \A y \in Tasks : call'[y] \in Inbound \cup Calls \cup {None} BY <1>0 DEF TaskTypes
  <2> QED BY <2>1
<1>5. ASSUME NEW y \in Tasks PROVE StageOK(y)'
  <2>1. CASE y \in B BY <1>1, <1>2, <2>1 DEF ControlOK, StageOK
  <2>2. CASE y \notin B BY <2>2 DEF ControlOK, StageOK
  <2> QED BY <2>1, <2>2
<1>6. LockOK'
  <2>1. ASSUME NEW i \in Instances, NEW y \in Tasks PROVE Holds(y, i)' <=> Holds(y, i)
    <3>1. CASE y \in B BY <1>2, <3>1 DEF Holds
    <3>2. CASE y \notin B BY <3>2 DEF Holds
    <3> QED BY <3>1, <3>2
  <2> QED BY <2>1 DEF ControlOK, LockOK
<1> QED BY <1>0, <1>2, <1>3, <1>4, <1>5, <1>6 DEF TaskTypes

LEMMA DispatchControl ==
  ASSUME ControlOK, NEW B \in SUBSET Commands, Dispatch(B)
  PROVE  /\ ControlOK'
         /\ \A d \in Commands : Underway(d)' => Underway(d) /\ cmd'[d].what = cmd[d].what
         /\ \A y \in Tasks : pc'[y] \in {"create", "save"} =>
              /\ pc'[y] = pc[y] /\ call'[y] = call[y]
              /\ slot'[y] = slot[y] /\ copy'[y] = copy[y]
<1>0. TaskTypes /\ B \subseteq Tasks /\ Commands \subseteq Tasks BY DEF ControlOK, Tasks
<1>1. ASSUME NEW c \in B
      PROVE  /\ cmd[c] # None /\ cmd[c].status = "Pending" /\ cmd[c] \in CommandRecord /\ pc[c] = "idle"
             /\ cmd[c].attempts = 0 \/ cmd[c].attempts < MaxAttempts
  <2>1. cmd[c] # None /\ cmd[c].status = "Pending" BY DEF Dispatch, Pending
  <2> QED BY <1>0, <2>1 DEF TaskTypes, ControlOK, CommandOK
<1>2. MaxAttempts \in Nat BY WorkflowAssumption
<1>3. ASSUME NEW c \in B
      PROVE  /\ cmd'[c] \in CommandRecord /\ cmd'[c].what = cmd[c].what
             /\ cmd'[c].status = "Processing" /\ cmd'[c].attempts >= 1
             /\ cmd'[c].attempts <= 1 \/ cmd'[c].attempts <= MaxAttempts
  <2>1. cmd'[c] = [cmd[c] EXCEPT !.status = "Processing", !.attempts = @ + 1] BY DEF Dispatch
  <2>2. cmd[c].attempts \in Nat /\ cmd[c].attempts + 1 \in Nat BY <1>1 DEF CommandRecord
  <2>3. /\ cmd'[c] \in CommandRecord /\ cmd'[c].what = cmd[c].what
        /\ cmd'[c].status = "Processing" /\ cmd'[c].attempts = cmd[c].attempts + 1
    BY <1>1, <2>1, <2>2 DEF CommandRecord
  <2> QED BY <1>1, <1>2, <2>2, <2>3
<1>4. \A d \in Commands \ B : cmd'[d] = cmd[d] BY DEF Dispatch
<1>5. pc' = [y \in Tasks |-> pc'[y]] /\ call' = [y \in Tasks |-> call'[y]]
      /\ \A y \in Tasks \ B : pc'[y] = pc[y] /\ call'[y] = call[y]
  BY DEF Dispatch
<1>6. \A y \in B : call'[y] \in Inbound \cup Calls /\ pc'[y] = Entry(call'[y])
  BY <1>0, <1>1 DEF Dispatch, CommandRecord
<1>7. UNCHANGED <<lock, slot, copy>> BY DEF Dispatch
<1>8. /\ lock' \in [Instances -> Tasks \cup {None}]
      /\ pc' \in [Tasks -> {"idle", "look", "policy", "create", "lock", "load", "save", "emit"}]
      /\ call' \in [Tasks -> Inbound \cup Calls \cup {None}]
      /\ slot' \in [Tasks -> Records \cup {None}]
      /\ copy' \in [Tasks -> Record \cup {None}]
      /\ \A y \in B : pc'[y] \in {"look", "lock", "load"}
      /\ \A y \in Tasks : StageOK(y)'
      /\ LockOK'
  <2>1. B \in SUBSET Tasks /\ \A y \in B : pc[y] = "idle" BY <1>0, <1>1
  <2> QED BY <1>5, <1>6, <1>7, <2>1, EntryControl
<1>9. cmd' \in [Commands -> CommandRecord \cup {None}]
  <2>1. \A c \in Commands : cmd'[c] \in CommandRecord \cup {None} BY <1>0, <1>3, <1>4 DEF TaskTypes
  <2>2. cmd' = [c \in Commands |-> cmd'[c]] BY DEF Dispatch
  <2> QED BY <2>1, <2>2
<1>10. TaskTypes' BY <1>8, <1>9 DEF TaskTypes
<1>11. ASSUME NEW d \in Commands PROVE CommandOK(d)'
  <2>1. CASE d \in B
    <3>1. cmd'[d] # None BY <1>3, <2>1, NoneAssumption
    <3>2. pc'[d] # "idle" BY <1>8, <2>1
    <3> QED BY <1>3, <2>1, <3>1, <3>2 DEF CommandOK
  <2>2. CASE d \notin B
    <3>1. pc'[d] = pc[d] /\ cmd'[d] = cmd[d] BY <1>0, <1>4, <1>5, <2>2
    <3> QED BY <3>1 DEF ControlOK, CommandOK
  <2> QED BY <2>1, <2>2
<1>12. \A d \in Commands : Underway(d)' => Underway(d) /\ cmd'[d].what = cmd[d].what
  BY <1>1, <1>3, <1>4 DEF Underway
<1>13. \A y \in Tasks : pc'[y] \in {"create", "save"} =>
              /\ pc'[y] = pc[y] /\ call'[y] = call[y]
              /\ slot'[y] = slot[y] /\ copy'[y] = copy[y]
  BY <1>5, <1>7, <1>8
<1> QED BY <1>8, <1>10, <1>11, <1>12, <1>13 DEF ControlOK

LEMMA CallControl ==
  ASSUME ControlOK, NEW x \in Operators, CallOperator(x)
  PROVE  /\ ControlOK'
         /\ \A y \in Tasks : pc'[y] \in {"create", "save"} =>
              /\ pc'[y] = pc[y] /\ call'[y] = call[y]
              /\ slot'[y] = slot[y] /\ copy'[y] = copy[y]
<1>0. TaskTypes /\ x \in Tasks BY DEF ControlOK, Tasks
<1>1. PICK m \in Calls : call' = [call EXCEPT ![x] = m] /\ pc' = [pc EXCEPT ![x] = Entry(m)]
  BY DEF CallOperator
<1>2. /\ lock' \in [Instances -> Tasks \cup {None}]
      /\ pc' \in [Tasks -> {"idle", "look", "policy", "create", "lock", "load", "save", "emit"}]
      /\ call' \in [Tasks -> Inbound \cup Calls \cup {None}]
      /\ slot' \in [Tasks -> Records \cup {None}]
      /\ copy' \in [Tasks -> Record \cup {None}]
      /\ \A y \in {x} : pc'[y] \in {"look", "lock", "load"}
      /\ \A y \in Tasks : StageOK(y)'
      /\ LockOK'
  <2>1. {x} \in SUBSET Tasks /\ (\A y \in {x} : pc[y] = "idle") /\ UNCHANGED <<lock, slot, copy>>
    BY <1>0 DEF CallOperator
  <2>2. pc' = [y \in Tasks |-> pc'[y]] /\ call' = [y \in Tasks |-> call'[y]]
    BY <1>0, <1>1 DEF TaskTypes
  <2>3. \A y \in {x} : call'[y] \in Inbound \cup Calls /\ pc'[y] = Entry(call'[y])
    BY <1>0, <1>1 DEF TaskTypes
  <2>4. \A y \in Tasks \ {x} : pc'[y] = pc[y] /\ call'[y] = call[y] BY <1>0, <1>1 DEF TaskTypes
  <2> QED BY <2>1, <2>2, <2>3, <2>4, EntryControl
<1>6. \A y \in Tasks \ {x} : pc'[y] = pc[y] /\ call'[y] = call[y] BY <1>0, <1>1 DEF TaskTypes
<1>3. TaskTypes' BY <1>0, <1>2 DEF TaskTypes, CallOperator
<1>4. ASSUME NEW c \in Commands PROVE CommandOK(c)'
  <2>1. c \in Tasks /\ c # x BY WorkflowAssumption DEF Tasks
  <2>2. pc'[c] = pc[c] /\ cmd'[c] = cmd[c] BY <1>6, <2>1 DEF CallOperator
  <2> QED BY <2>2 DEF ControlOK, CommandOK
<1>5. \A y \in Tasks : pc'[y] \in {"create", "save"} =>
              /\ pc'[y] = pc[y] /\ call'[y] = call[y]
              /\ slot'[y] = slot[y] /\ copy'[y] = copy[y]
  BY <1>2, <1>6 DEF CallOperator
<1> QED BY <1>2, <1>3, <1>4, <1>5 DEF ControlOK

\* The record of a command whose job does not run is written.
LEMMA CommandControl ==
  ASSUME ControlOK, NEW c \in Commands, pc[c] = "idle",
         NEW new \in CommandRecord \cup {None},
         new # None => new.status = "Pending" /\ new.attempts = 0,
         cmd' = [cmd EXCEPT ![c] = new], UNCHANGED <<lock, taskVars>>
  PROVE  ControlOK'
<1>0. TaskTypes BY DEF ControlOK
<1>1. UNCHANGED <<lock, pc, call, slot, copy>> BY DEF taskVars
<1>2. cmd'[c] = new /\ \A d \in Commands \ {c} : cmd'[d] = cmd[d] BY <1>0 DEF TaskTypes
<1>3. TaskTypes' BY <1>0, <1>1 DEF TaskTypes
<1>4. \A x \in Tasks : StageOK(x)' BY <1>1 DEF ControlOK, StageOK
<1>5. LockOK' BY <1>1 DEF ControlOK, LockOK, Holds
<1>6. ASSUME NEW d \in Commands PROVE CommandOK(d)'
  <2>1. CASE d = c BY <1>1, <1>2, <2>1, WorkflowAssumption DEF CommandOK
  <2>2. CASE d # c BY <1>1, <1>2, <2>2 DEF ControlOK, CommandOK
  <2> QED BY <2>1, <2>2
<1> QED BY <1>3, <1>4, <1>5, <1>6 DEF ControlOK

LEMMA SameControl ==
  ASSUME ControlOK, UNCHANGED <<lock, cmd, taskVars>>
  PROVE  ControlOK'
<1>1. UNCHANGED <<lock, cmd, pc, call, slot, copy>> BY DEF taskVars
<1>2. TaskTypes' BY <1>1 DEF ControlOK, TaskTypes
<1>3. \A x \in Tasks : StageOK(x)' BY <1>1 DEF ControlOK, StageOK
<1>4. LockOK' BY <1>1 DEF ControlOK, LockOK, Holds
<1>5. \A c \in Commands : CommandOK(c)' BY <1>1 DEF ControlOK, CommandOK
<1> QED BY <1>2, <1>3, <1>4, <1>5 DEF ControlOK

-----------------------------------------------------------------------------
(* The queue.                                                              *)

\* No command is taken up, and no handler looks.
LEMMA QueueSame ==
  ASSUME QueueOK, UNCHANGED <<hmsg, enqueuesRaced>>,
         \A c \in Commands : Underway(c)' => Underway(c) /\ cmd'[c].what = cmd[c].what
  PROVE  QueueOK'
<1>1. hmsg' \in [Handlers -> Inbound \cup {None}] BY DEF QueueOK
<1>2. CASE enqueuesRaced BY <1>1, <1>2 DEF QueueOK
<1>3. CASE ~ enqueuesRaced
  <2>1. ASSUME NEW c \in Commands, NEW d \in Commands, c # d, Underway(c)', Underway(d)'
        PROVE  ~ SameKind(cmd'[c].what, cmd'[d].what)
    <3>1. Underway(c) /\ Underway(d) /\ cmd'[c].what = cmd[c].what /\ cmd'[d].what = cmd[d].what
      BY <2>1
    <3> QED BY <1>3, <2>1, <3>1 DEF QueueOK
  <2>2. ASSUME NEW h \in Handlers, NEW c \in Commands, hmsg'[h] # None, Underway(c)'
        PROVE  ~ SameKind(cmd'[c].what, hmsg'[h])
    <3>1. Underway(c) /\ cmd'[c].what = cmd[c].what /\ hmsg[h] # None BY <2>2
    <3> QED BY <1>3, <3>1 DEF QueueOK
  <2>3. (\A c, d \in Commands : c # d /\ Underway(c) /\ Underway(d) => ~ SameKind(cmd[c].what, cmd[d].what))'
    BY <2>1 DEF SameKind
  <2>4. (\A h \in Handlers, c \in Commands : hmsg[h] # None /\ Underway(c) => ~ SameKind(cmd[c].what, hmsg[h]))'
    BY <2>2 DEF SameKind
  <2> QED BY <1>1, <2>3, <2>4 DEF QueueOK
<1> QED BY <1>2, <1>3

LEMMA HandleQueue ==
  ASSUME QueueOK, NEW h \in Handlers, HandleMessage(h)
  PROVE  QueueOK'
<1>1. PICK m \in Inbound : hmsg' = IF Duplicate(m) THEN hmsg ELSE [hmsg EXCEPT ![h] = m]
  BY DEF HandleMessage
<1>2. UNCHANGED <<cmd, enqueuesRaced>> BY DEF HandleMessage, historyVars
<1>3. CASE Duplicate(m)
  <2>1. \A c \in Commands : Underway(c)' => Underway(c) /\ cmd'[c].what = cmd[c].what
    BY <1>2 DEF Underway
  <2>2. UNCHANGED hmsg BY <1>1, <1>3
  <2> QED BY <1>2, <2>1, <2>2, QueueSame
<1>4. CASE ~ Duplicate(m)
  <2>1. hmsg' = [hmsg EXCEPT ![h] = m] BY <1>1, <1>4
  <2>2. hmsg' \in [Handlers -> Inbound \cup {None}] BY <2>1 DEF QueueOK
  <2>3. hmsg'[h] = m /\ \A g \in Handlers \ {h} : hmsg'[g] = hmsg[g] BY <2>1 DEF QueueOK
  <2>4. \A c \in Commands : Underway(c) => ~ SameKind(cmd[c].what, m)
    BY <1>4 DEF Duplicate, Underway, SameKind
  <2> QED BY <1>2, <2>2, <2>3, <2>4 DEF QueueOK, Underway
<1> QED BY <1>3, <1>4

LEMMA SaveQueue ==
  ASSUME ControlOK, QueueOK, NEW h \in Handlers, SaveCommand(h)
  PROVE  QueueOK' /\ ControlOK'
<1>0. TaskTypes BY DEF ControlOK
<1>1. PICK c \in Commands :
        /\ c = NewSlot(cmd)
        /\ cmd' = [cmd EXCEPT ![c] = [what |-> hmsg[h], status |-> "Pending", attempts |-> 0]]
  BY DEF SaveCommand
<1>2. cmd[c] = None
  <2>1. DOMAIN cmd = Commands /\ None \notin Commands BY <1>0, NoneAssumption DEF TaskTypes, Tasks
  <2> QED BY <1>1, <2>1, NewSlotIsFree
<1>3. hmsg[h] # None /\ hmsg[h] \in Inbound BY DEF SaveCommand, QueueOK
<1> DEFINE new == [what |-> hmsg[h], status |-> "Pending", attempts |-> 0]
<1>4. new \in CommandRecord /\ new.what = hmsg[h] /\ new.status = "Pending" /\ new.attempts = 0
  BY <1>3 DEF CommandRecord
<1> HIDE DEF new
<1>5. cmd' = [cmd EXCEPT ![c] = new] BY <1>1 DEF new
<1>6. cmd'[c] = new /\ \A d \in Commands \ {c} : cmd'[d] = cmd[d] BY <1>0, <1>5 DEF TaskTypes
<1>7. ControlOK'
  <2>1. pc[c] = "idle" BY <1>2 DEF ControlOK, CommandOK
  <2>2. UNCHANGED <<lock, taskVars>> BY DEF SaveCommand
  <2> QED BY <1>4, <1>5, <2>1, <2>2, CommandControl
<1>8. hmsg' = [hmsg EXCEPT ![h] = None] BY DEF SaveCommand
<1>9. hmsg' \in [Handlers -> Inbound \cup {None}] /\ hmsg'[h] = None /\ \A g \in Handlers \ {h} : hmsg'[g] = hmsg[g]
  BY <1>8 DEF QueueOK
<1> DEFINE race == \E g \in Handlers \ {h} :
                     hmsg[g] # None /\ hmsg[g].op = hmsg[h].op /\ hmsg[g].inst = hmsg[h].inst
<1>10. enqueuesRaced' = (enqueuesRaced \/ race) BY DEF SaveCommand
<1> HIDE DEF race
<1>13. hmsg' \in [Handlers -> Inbound \cup {None}] BY <1>9
<1>11. CASE enqueuesRaced \/ race
  <2>1. enqueuesRaced' BY <1>10, <1>11
  <2> QED BY <1>7, <1>13, <2>1 DEF QueueOK
<1>12. CASE ~ enqueuesRaced /\ ~ race
  <2>1. \A d \in Commands \ {c} : Underway(d)' => Underway(d) BY <1>6 DEF Underway
  <2>2. \A d \in Commands \ {c} : Underway(d)' => ~ SameKind(cmd'[d].what, new.what)
    <3> TAKE d \in Commands \ {c}
    <3> HAVE Underway(d)'
    <3>1. Underway(d) /\ cmd'[d] = cmd[d] BY <1>6, <2>1
    <3> QED BY <1>3, <1>4, <1>12, <3>1 DEF QueueOK
  <2>3. \A g \in Handlers : hmsg'[g] # None => ~ SameKind(new.what, hmsg'[g])
    BY <1>4, <1>9, <1>12 DEF SameKind, race
  <2>4. (\A b, d \in Commands : b # d /\ Underway(b) /\ Underway(d) => ~ SameKind(cmd[b].what, cmd[d].what))'
    <3> SUFFICES ASSUME NEW b \in Commands, NEW d \in Commands, b # d, Underway(b)', Underway(d)'
                 PROVE  ~ SameKind(cmd'[b].what, cmd'[d].what)
      BY DEF SameKind
    <3>1. CASE b = c BY <1>6, <2>2, <3>1 DEF SameKind
    <3>2. CASE d = c BY <1>6, <2>2, <3>2 DEF SameKind
    <3>3. CASE b # c /\ d # c
      <4>1. Underway(b) /\ Underway(d) /\ cmd'[b] = cmd[b] /\ cmd'[d] = cmd[d] BY <1>6, <2>1, <3>3
      <4> QED BY <1>12, <4>1 DEF QueueOK
    <3> QED BY <3>1, <3>2, <3>3
  <2>5. (\A g \in Handlers, d \in Commands : hmsg[g] # None /\ Underway(d) => ~ SameKind(cmd[d].what, hmsg[g]))'
    <3> SUFFICES ASSUME NEW g \in Handlers, NEW d \in Commands, hmsg'[g] # None, Underway(d)'
                 PROVE  ~ SameKind(cmd'[d].what, hmsg'[g])
      BY DEF SameKind
    <3>1. CASE d = c BY <1>6, <2>3, <3>1
    <3>2. CASE d # c
      <4>1. Underway(d) /\ cmd'[d] = cmd[d] /\ hmsg'[g] = hmsg[g] BY <1>6, <1>9, <2>1, <3>2
      <4> QED BY <1>12, <4>1 DEF QueueOK
    <3> QED BY <3>1, <3>2
  <2> QED BY <1>7, <1>13, <2>4, <2>5 DEF QueueOK
<1> QED BY <1>11, <1>12

-----------------------------------------------------------------------------
(* The records.                                                            *)

RecordVars == <<repo, advances, keyed, canceled, revived, raced, startsRaced>>

\* Nothing is written, and no task passes the policy check or loads a record.
LEMMA RecordsSame ==
  ASSUME RecordsOK, UNCHANGED RecordVars,
         \A y \in Tasks : pc'[y] \in {"create", "save"} =>
           /\ pc'[y] = pc[y] /\ call'[y] = call[y]
           /\ slot'[y] = slot[y] /\ copy'[y] = copy[y]
  PROVE  RecordsOK'
<1>0. UNCHANGED <<repo, advances, keyed, canceled, revived, raced, startsRaced>> BY DEF RecordVars
<1>1. RecordTypes' BY <1>0 DEF RecordsOK, RecordTypes
<1>2. ASSUME NEW y \in Tasks PROVE CopyOK(y)'
  <2> SUFFICES ASSUME pc'[y] = "save" PROVE CopyOK(y)' BY DEF CopyOK
  <2>1. pc'[y] = pc[y] /\ call'[y] = call[y] /\ slot'[y] = slot[y] /\ copy'[y] = copy[y] OBVIOUS
  <2> QED BY <1>0, <2>1 DEF RecordsOK, CopyOK
<1>3. \A r \in Records : HistoryOK(r)' /\ CancelOK(r)' BY <1>0 DEF RecordsOK, HistoryOK, CancelOK
<1>4. SingletonOK'
  <2>1. \A r \in Records : IsLive(r)' <=> IsLive(r) BY <1>0 DEF IsLive
  <2>2. \A y \in Tasks : pc'[y] = "create" => pc[y] = "create" OBVIOUS
  <2> QED BY <1>0, <2>1, <2>2 DEF RecordsOK, SingletonOK
<1> QED BY <1>1, <1>2, <1>3, <1>4 DEF RecordsOK

\* A start passes the policy check.
LEMMA CreateRecords ==
  ASSUME RecordsOK, UNCHANGED RecordVars, TaskTypes, NEW x \in Tasks,
         pc' = [pc EXCEPT ![x] = "create"], UNCHANGED <<call, slot, copy>>,
         \A r \in Records : ~ IsLive(r)
  PROVE  RecordsOK'
<1>0. UNCHANGED <<repo, advances, keyed, canceled, revived, raced, startsRaced>> BY DEF RecordVars
<1>1. RecordTypes' BY <1>0 DEF RecordsOK, RecordTypes
<1>2. ASSUME NEW y \in Tasks PROVE CopyOK(y)'
  <2> SUFFICES ASSUME pc'[y] = "save" PROVE CopyOK(y)' BY DEF CopyOK
  <2>1. pc'[y] = pc[y] BY DEF TaskTypes
  <2> QED BY <1>0, <2>1 DEF RecordsOK, CopyOK
<1>3. \A r \in Records : HistoryOK(r)' /\ CancelOK(r)' BY <1>0 DEF RecordsOK, HistoryOK, CancelOK
<1>4. SingletonOK'
  <2>1. \A r \in Records : ~ IsLive(r)' BY <1>0 DEF IsLive
  <2> QED BY <2>1 DEF SingletonOK
<1> QED BY <1>1, <1>2, <1>3, <1>4 DEF RecordsOK

\* A task loads a record and changes its copy.
LEMMA LoadRecords ==
  ASSUME RecordsOK, UNCHANGED RecordVars, TaskTypes, NEW x \in Tasks, NEW r \in Records,
         call[x] \in Operation, call[x].op \in Unlocked \cup {"advance"},
         repo[r] # None, repo[r].inst = call[x].inst,
         call[x].op = "advance" => Appliable(repo[r], call[x]),
         pc' = [pc EXCEPT ![x] = "save"], slot' = [slot EXCEPT ![x] = r],
         copy' = [copy EXCEPT ![x] = Changed(repo[r], call[x])], UNCHANGED call
  PROVE  RecordsOK'
<1>0. UNCHANGED <<repo, advances, keyed, canceled, revived, raced, startsRaced>> BY DEF RecordVars
<1>1. RecordTypes' BY <1>0 DEF RecordsOK, RecordTypes
<1>2. repo[r] \in Record BY DEF RecordsOK, RecordTypes
<1>3. Changed(repo[r], call[x]).inst = repo[r].inst
  BY <1>2, ChangedIsRecord DEF Appliable
<1>4. ASSUME NEW y \in Tasks PROVE CopyOK(y)'
  <2>1. CASE y = x
    <3>1. slot'[y] = r /\ copy'[y] = Changed(repo[r], call[x]) BY <2>1 DEF TaskTypes
    <3> QED BY <1>0, <1>3, <2>1, <3>1 DEF CopyOK
  <2>2. CASE y # x
    <3>1. pc'[y] = pc[y] /\ slot'[y] = slot[y] /\ copy'[y] = copy[y] /\ call'[y] = call[y]
      BY <2>2 DEF TaskTypes
    <3>2. CopyOK(y) BY DEF RecordsOK
    <3> HIDE DEF Changed, Appliable
    <3> QED BY <1>0, <3>1, <3>2 DEF CopyOK
  <2> QED BY <2>1, <2>2
<1>5. \A q \in Records : HistoryOK(q)' /\ CancelOK(q)' BY <1>0 DEF RecordsOK, HistoryOK, CancelOK
<1>6. SingletonOK'
  <2>1. \A q \in Records : IsLive(q)' <=> IsLive(q) BY <1>0 DEF IsLive
  <2>2. \A y \in Tasks : pc'[y] = "create" => pc[y] = "create" BY DEF TaskTypes
  <2> QED BY <1>0, <2>1, <2>2 DEF RecordsOK, SingletonOK
<1> QED BY <1>1, <1>4, <1>5, <1>6 DEF RecordsOK

\* A start is saved.
LEMMA StartRecords ==
  ASSUME RecordsOK, ControlOK, NEW x \in Tasks, SaveInstance(x)
  PROVE  RecordsOK'
<1>0. TaskTypes /\ RecordTypes BY DEF ControlOK, RecordsOK
<1>1. UNCHANGED <<advances, keyed, canceled, revived, raced>> BY DEF SaveInstance
<1>2. pc[x] = "create" BY DEF SaveInstance
<1> DEFINE new == [inst |-> call[x].inst, state |-> StartState, status |-> "Active",
                   context |-> FALSE, history |-> <<>>, keys |-> <<>>]
<1>3. PICK r \in Records : r = NewSlot(repo) /\ repo' = [repo EXCEPT ![r] = new] BY DEF SaveInstance
<1>4. repo[r] = None
  <2>1. DOMAIN repo = Records /\ None \notin Records BY <1>0, NoneAssumption DEF RecordTypes
  <2> QED BY <1>3, <2>1, NewSlotIsFree
<1>5. new \in Record /\ new # None /\ new.status = "Active" /\ new.history = <<>> /\ new.keys = <<>>
  <2>1. call[x] # None BY <1>2 DEF ControlOK, StageOK
  <2>2. call[x].inst \in Instances BY <1>0, <2>1, CallFacts
  <2>3. new \in Record BY <2>2, WorkflowAssumption DEF Record, Live
  <2> QED BY <2>3, NoneAssumption
<1> HIDE DEF new
<1>6. repo'[r] = new /\ \A q \in Records \ {r} : repo'[q] = repo[q] BY <1>0, <1>3 DEF RecordTypes
<1>7. \A y \in Tasks : pc'[y] \in {"create", "save"} =>
        /\ y # x /\ pc'[y] = pc[y] /\ call'[y] = call[y]
        /\ slot'[y] = slot[y] /\ copy'[y] = copy[y]
  BY <1>2, SavedControl DEF SaveInstance
<1>8. RecordTypes' BY <1>0, <1>1, <1>3, <1>5 DEF RecordTypes
<1>9. ASSUME NEW y \in Tasks PROVE CopyOK(y)'
  <2> SUFFICES ASSUME pc'[y] = "save" PROVE CopyOK(y)' BY DEF CopyOK
  <2>1. pc[y] = "save" /\ call'[y] = call[y] /\ slot'[y] = slot[y] /\ copy'[y] = copy[y] BY <1>7
  <2>2. slot[y] \in Records /\ slot[y] # r
    <3>1. slot[y] # None BY <2>1 DEF ControlOK, StageOK
    <3> QED BY <1>0, <1>4, <2>1, <3>1 DEF RecordsOK, CopyOK, TaskTypes
  <2>3. repo'[slot[y]] = repo[slot[y]] BY <1>6, <2>2
  <2> QED BY <1>1, <2>1, <2>3 DEF RecordsOK, CopyOK
<1>10. ASSUME NEW q \in Records PROVE HistoryOK(q)' /\ CancelOK(q)'
  <2>1. CASE q = r
    <3>1. r \notin raced => advances[r] = 0 /\ keyed[r] = <<>> BY <1>4 DEF RecordsOK, HistoryOK
    <3>2. LastKeys(<<>>, <<>>) /\ Apart(<<>>)
      <4>1. KeyLimit \in Nat /\ Len(<<>>) = 0 BY WorkflowAssumption
      <4>2. 1 .. 0 = {} OBVIOUS
      <4> QED BY <4>1, <4>2 DEF LastKeys, Apart
    <3>3. HistoryOK(q)' BY <1>1, <1>5, <1>6, <2>1, <3>1, <3>2 DEF HistoryOK
    <3>4. r \notin canceled BY <1>4 DEF RecordsOK, CancelOK
    <3> QED BY <1>1, <2>1, <3>3, <3>4 DEF CancelOK
  <2>2. CASE q # r BY <1>1, <1>6, <2>2 DEF RecordsOK, HistoryOK, CancelOK
  <2> QED BY <2>1, <2>2
<1>11. SingletonOK'
  <2>1. startsRaced' = (startsRaced \/ Starting # {x}) BY DEF SaveInstance
  <2>2. CASE startsRaced \/ Starting # {x}
    <3>1. startsRaced' BY <2>1, <2>2
    <3> QED BY <3>1 DEF SingletonOK
  <2>3. CASE revived \cup raced # {} BY <1>1, <2>3 DEF SingletonOK
  <2>4. CASE ~ startsRaced /\ Starting = {x} /\ revived \cup raced = {}
    <3>1. \A q \in Records : ~ IsLive(q) BY <1>2, <2>4 DEF RecordsOK, SingletonOK
    <3>2. \A q \in Records : IsLive(q)' => q = r BY <1>6, <3>1 DEF IsLive
    <3>3. \A y \in Tasks : pc'[y] # "create"
      <4> SUFFICES ASSUME NEW y \in Tasks, pc'[y] = "create" PROVE FALSE OBVIOUS
      <4>1. y # x /\ pc[y] = "create" BY <1>7
      <4> QED BY <2>4, <4>1 DEF Starting
    <3> QED BY <3>2, <3>3 DEF SingletonOK
  <2> QED BY <2>2, <2>3, <2>4
<1> QED BY <1>8, <1>9, <1>10, <1>11 DEF RecordsOK

\* The update of a record that no unlocked operation overtook.
LEMMA FreshSave ==
  ASSUME NEW old \in Record, NEW m \in Operation, m.op \in Unlocked \cup {"advance"},
         m.op = "advance" => Appliable(old, m), NEW new, new = Changed(old, m)
  PROVE  /\ m.op = "cancel" => new.status = "Canceled"
         /\ old.status = "Canceled" /\ m.op \notin {"pause", "resume"} => new.status = "Canceled"
         /\ new.status \in Live /\ m.op \notin {"pause", "resume"} => old.status \in Live
<1>1. CASE m.op = "advance"
  <2>1. old.status = "Active" BY <1>1 DEF Appliable
  <2> QED BY <1>1, <2>1 DEF Live
<1>2. CASE m.op \in Unlocked
  <2>1. new.status = CASE m.op = "pause" -> "Paused"
                       [] m.op = "resume" -> "Active"
                       [] m.op = "cancel" -> "Canceled"
                       [] m.op = "context" -> old.status
    BY <1>2, UnlockedFacts
  <2> QED BY <1>2, <2>1 DEF Unlocked, Live
<1> QED BY <1>1, <1>2

\* Two tasks that both hold the mutex are one.
LEMMA OneAdvance ==
  ASSUME ControlOK, NEW x \in Tasks, NEW y \in Tasks, pc[x] = "save", pc[y] = "save",
         call[x].op = "advance", call[y].op = "advance", call[x].inst = call[y].inst
  PROVE  x = y
<1>1. call[x] # None BY DEF ControlOK, StageOK
<1>2. call[x].inst \in Instances BY <1>1, CallFacts DEF ControlOK
<1>3. Holds(x, call[x].inst) /\ Holds(y, call[x].inst) BY DEF Holds
<1>4. lock[call[x].inst] = x /\ lock[call[x].inst] = y BY <1>2, <1>3 DEF ControlOK, LockOK
<1> QED BY <1>4

\* An operation writes its copy back.
LEMMA SaveRecords ==
  ASSUME RecordsOK, ControlOK, NEW x \in Tasks, Save(x)
  PROVE  RecordsOK'
<1>0. TaskTypes /\ RecordTypes BY DEF ControlOK, RecordsOK
<1>1. pc[x] = "save" BY DEF Save
<1>2. /\ call[x] # None /\ slot[x] # None /\ copy[x] # None
      /\ call[x].op \in Unlocked \cup {"advance"}
  BY <1>1 DEF ControlOK, StageOK
<1>3. PICK m \in Operation : m = call[x] BY <1>0, <1>2, CallFacts
<1>4. PICK r \in Records : r = slot[x] BY <1>0, <1>2 DEF TaskTypes
<1>5. PICK new \in Record : new = copy[x] BY <1>0, <1>2 DEF TaskTypes
<1>6. /\ repo' = [repo EXCEPT ![r] = new]
      /\ raced' = IF Overtaken(x) = {} THEN raced ELSE raced \cup {r}
      /\ advances' = IF m.op = "advance" THEN [advances EXCEPT ![r] = @ + 1] ELSE advances
      /\ keyed' = IF m.op = "advance" /\ m.key # None THEN [keyed EXCEPT ![r] = Append(@, m.key)]
                                                      ELSE keyed
      /\ canceled' = IF m.op = "cancel" THEN canceled \cup {r} ELSE canceled
      /\ revived' = IF m.op \in {"pause", "resume"} /\ repo[r].status \in Terminal
                      THEN revived \cup {r} ELSE revived
      /\ UNCHANGED startsRaced
  BY <1>3, <1>4, <1>5 DEF Save
<1>7. m.op \in Unlocked \cup {"advance"} BY <1>2, <1>3
<1>8. PICK old \in Record : old = repo[r]
  BY <1>0, <1>1, <1>4 DEF RecordsOK, CopyOK, RecordTypes
<1>9. /\ old.inst = m.inst /\ new.inst = m.inst
      /\ r \notin raced => /\ new = Changed(old, m)
                           /\ m.op = "advance" => Appliable(old, m)
  BY <1>1, <1>3, <1>4, <1>5, <1>8 DEF RecordsOK, CopyOK
<1>10. repo'[r] = new /\ new # None /\ \A q \in Records \ {r} : repo'[q] = repo[q]
  BY <1>0, <1>6, NoneAssumption DEF RecordTypes
<1>11. raced \subseteq raced' /\ raced' \subseteq raced \cup {r} BY <1>6
<1>12. \A y \in Tasks : pc'[y] \in {"create", "save"} =>
         /\ y # x /\ pc'[y] = pc[y] /\ call'[y] = call[y]
         /\ slot'[y] = slot[y] /\ copy'[y] = copy[y]
  BY <1>1, SavedControl DEF Save
<1>13. RecordTypes'
  <2>1. repo' \in [Records -> Record \cup {None}] BY <1>0, <1>6 DEF RecordTypes
  <2>2. advances' \in [Records -> Nat] BY <1>0, <1>6 DEF RecordTypes
  <2>3. keyed' \in [Records -> Seq(STRING)]
    <3>1. CASE m.op = "advance" /\ m.key # None
      <4>1. m.key \in STRING /\ keyed[r] \in Seq(STRING) BY <1>0, <3>1 DEF Operation, RecordTypes
      <4>2. Append(keyed[r], m.key) \in Seq(STRING) BY <4>1, Appended
      <4>3. keyed' = [keyed EXCEPT ![r] = Append(keyed[r], m.key)] BY <1>6, <3>1
      <4> QED BY <1>0, <4>2, <4>3 DEF RecordTypes
    <3>2. CASE ~ (m.op = "advance" /\ m.key # None) BY <1>0, <1>6, <3>2 DEF RecordTypes
    <3> QED BY <3>1, <3>2
  <2>4. canceled' \subseteq Records /\ revived' \subseteq Records /\ raced' \subseteq Records
    BY <1>0, <1>6 DEF RecordTypes
  <2> QED BY <2>1, <2>2, <2>3, <2>4 DEF RecordTypes
<1>14. ASSUME NEW y \in Tasks PROVE CopyOK(y)'
  <2> SUFFICES ASSUME pc'[y] = "save" PROVE CopyOK(y)' BY DEF CopyOK
  <2>1. y # x /\ pc[y] = "save" /\ call'[y] = call[y] /\ slot'[y] = slot[y] /\ copy'[y] = copy[y]
    BY <1>12
  <2>2. slot[y] \in Records /\ call[y].op \in Unlocked \cup {"advance"}
    BY <1>0, <2>1 DEF ControlOK, StageOK, TaskTypes
  <2>3. CopyOK(y) BY DEF RecordsOK
  <2>4. CASE slot[y] = r
    <3>1. repo[r].inst = call[y].inst /\ copy[y].inst = call[y].inst BY <2>1, <2>3, <2>4 DEF CopyOK
    <3>2. call[x].inst = call[y].inst BY <1>3, <1>8, <1>9, <3>1
    <3>3. y \in Overtaken(x)
      <4>1. {call[x].op, call[y].op} \cap Unlocked # {}
        BY <1>1, <1>2, <2>1, <2>2, <3>2, OneAdvance
      <4> QED BY <1>4, <2>1, <2>4, <4>1 DEF Overtaken
    <3>4. r \in raced' BY <1>6, <3>3
    <3> QED BY <1>3, <1>9, <1>10, <2>1, <2>4, <3>1, <3>2, <3>4 DEF CopyOK
  <2>5. CASE slot[y] # r
    <3>1. repo'[slot[y]] = repo[slot[y]] BY <1>10, <2>2, <2>5
    <3>2. slot[y] \notin raced' => slot[y] \notin raced BY <1>11
    <3> QED BY <2>1, <2>3, <3>1, <3>2 DEF CopyOK
  <2> QED BY <2>4, <2>5
<1>15. ASSUME NEW q \in Records, q # r PROVE HistoryOK(q)' /\ CancelOK(q)'
  <2>1. repo'[q] = repo[q] /\ advances'[q] = advances[q] /\ keyed'[q] = keyed[q]
    BY <1>0, <1>6, <1>15 DEF RecordTypes
  <2>2. q \in raced' <=> q \in raced BY <1>11, <1>15
  <2>3. (q \in canceled' <=> q \in canceled) /\ (q \in revived' <=> q \in revived) BY <1>6, <1>15
  <2> QED BY <2>1, <2>2, <2>3 DEF RecordsOK, HistoryOK, CancelOK
<1>16. HistoryOK(r)'
  <2> SUFFICES ASSUME r \notin raced' PROVE HistoryOK(r)' BY DEF HistoryOK
  <2>1. r \notin raced BY <1>11
  <2>2. /\ Len(old.history) = advances[r] /\ LastKeys(old.keys, keyed[r]) /\ Apart(keyed[r])
        /\ new = Changed(old, m) /\ (m.op = "advance" => Appliable(old, m))
    BY <1>8, <1>9, <2>1, NoneAssumption DEF RecordsOK, HistoryOK
  <2> SUFFICES Len(new.history) = advances'[r] /\ LastKeys(new.keys, keyed'[r]) /\ Apart(keyed'[r])
    BY <1>10 DEF HistoryOK
  <2>3. CASE m.op = "advance"
    <3>1. new = Advanced(old, m) /\ Enabled(old) # {} /\ ~ KeyIsKnown(m, old)
      BY <2>2, <2>3 DEF Changed, Appliable
    <3>2. Len(new.history) = advances'[r]
      <4>1. Len(new.history) = Len(old.history) + 1 BY <3>1, AdvancedFacts
      <4>2. advances'[r] = advances[r] + 1 BY <1>0, <1>6, <2>3 DEF RecordTypes
      <4> QED BY <2>2, <4>1, <4>2
    <3>3. CASE m.key = None
      <4>1. keyed'[r] = keyed[r] BY <1>6, <3>3
      <4>2. Len(old.keys) <= KeyLimit BY <2>2 DEF LastKeys
      <4>3. new.keys = old.keys BY <3>1, <3>3, <4>2, AdvancedFacts
      <4> QED BY <2>2, <3>2, <4>1, <4>3
    <3>4. CASE m.key # None
      <4>1. keyed'[r] = Append(keyed[r], m.key) BY <1>0, <1>6, <2>3, <3>4 DEF RecordTypes
      <4>2. m.key \in STRING /\ keyed[r] \in Seq(STRING) /\ old.keys \in Seq(STRING)
        BY <1>0, <3>4 DEF Operation, RecordTypes, Record
      <4>3. \A n \in 1 .. Len(old.keys) : old.keys[n] # m.key BY <3>1, <3>4 DEF KeyIsKnown
      <4>4. new.keys = IF Len(old.keys) + 1 > KeyLimit
                         THEN SubSeq(Append(old.keys, m.key), Len(old.keys) + 2 - KeyLimit, Len(old.keys) + 1)
                         ELSE Append(old.keys, m.key)
        BY <3>1, <3>4, AdvancedFacts
      <4>5. LastKeys(new.keys, Append(keyed[r], m.key)) /\ Apart(Append(keyed[r], m.key))
        BY <2>2, <4>2, <4>3, <4>4, KeyedOn
      <4> QED BY <3>2, <4>1, <4>5
    <3> QED BY <3>3, <3>4
  <2>4. CASE m.op # "advance"
    <3>1. m.op \in Unlocked BY <1>7, <2>4
    <3>2. new.history = old.history /\ new.keys = old.keys BY <2>2, <3>1, UnlockedFacts
    <3>3. advances'[r] = advances[r] /\ keyed'[r] = keyed[r] BY <1>6, <2>4
    <3> QED BY <2>2, <3>2, <3>3
  <2> QED BY <2>3, <2>4
<1>17. r \notin raced =>
         /\ m.op = "cancel" => new.status = "Canceled"
         /\ old.status = "Canceled" /\ m.op \notin {"pause", "resume"} => new.status = "Canceled"
         /\ new.status \in Live /\ m.op \notin {"pause", "resume"} => old.status \in Live
  BY <1>7, <1>9, FreshSave
<1>18. CancelOK(r)'
  <2> SUFFICES ASSUME r \in canceled', r \notin raced' \cup revived' PROVE new.status = "Canceled"
    BY <1>10 DEF CancelOK
  <2>1. r \notin raced /\ r \notin revived BY <1>6, <1>11
  <2>2. CASE m.op = "cancel" BY <1>17, <2>1, <2>2
  <2>3. CASE m.op # "cancel"
    <3>1. r \in canceled BY <1>6, <2>3
    <3>2. old.status = "Canceled" BY <1>8, <2>1, <3>1 DEF RecordsOK, CancelOK
    <3>3. m.op \notin {"pause", "resume"} BY <1>6, <1>8, <3>2 DEF Terminal
    <3> QED BY <1>17, <2>1, <3>2, <3>3
  <2> QED BY <2>2, <2>3
<1>19. SingletonOK'
  <2>1. CASE startsRaced \/ revived' \cup raced' # {} BY <1>6, <2>1 DEF SingletonOK
  <2>2. CASE ~ startsRaced /\ revived' \cup raced' = {}
    <3>1. revived \cup raced = {} /\ r \notin raced /\ r \notin revived'
      BY <1>6, <1>11, <2>2
    <3>2. ASSUME NEW q \in Records, IsLive(q)' PROVE IsLive(q)
      <4>1. CASE q = r
        <5>1. new.status \in Live BY <1>10, <3>2, <4>1 DEF IsLive
        <5>2. old.status \in Live
          <6>1. CASE m.op \in {"pause", "resume"}
            <7>1. old.status \notin Terminal BY <1>6, <1>8, <3>1, <6>1
            <7>2. old.status \in Live \cup Terminal BY DEF Record
            <7> QED BY <7>1, <7>2
          <6>2. CASE m.op \notin {"pause", "resume"} BY <1>17, <3>1, <5>1, <6>2
          <6> QED BY <6>1, <6>2
        <5> QED BY <1>8, <4>1, <5>2, NoneAssumption DEF IsLive
      <4>2. CASE q # r BY <1>10, <3>2, <4>2 DEF IsLive
      <4> QED BY <4>1, <4>2
    <3>3. \A y \in Tasks : pc'[y] = "create" => pc[y] = "create" BY <1>12
    <3>4. /\ \A p, q \in Records : IsLive(p) /\ IsLive(q) => p = q
          /\ \A y \in Tasks, q \in Records : pc[y] = "create" => ~ IsLive(q)
      BY <2>2, <3>1 DEF RecordsOK, SingletonOK
    <3>5. \A p, q \in Records : IsLive(p)' /\ IsLive(q)' => p = q BY <3>2, <3>4
    <3>6. \A y \in Tasks, q \in Records : pc'[y] = "create" => ~ IsLive(q)' BY <3>2, <3>3, <3>4
    <3> QED BY <3>5, <3>6 DEF SingletonOK
  <2> QED BY <2>1, <2>2
<1>20. \A q \in Records : HistoryOK(q)' /\ CancelOK(q)' BY <1>15, <1>16, <1>18
<1> QED BY <1>13, <1>14, <1>19, <1>20 DEF RecordsOK

-----------------------------------------------------------------------------
(* The steps.                                                              *)

StateOK == ControlOK /\ QueueOK /\ RecordsOK

\* A task returns and nothing is written.
LEMMA ReturnOnly ==
  ASSUME StateOK, NEW x \in Tasks, pc[x] # "idle", NEW result, Return(x, result),
         UNCHANGED <<repo, hmsg, historyVars>>
  PROVE  StateOK'
<1>0. ControlOK /\ QueueOK /\ RecordsOK BY DEF StateOK
<1>1. UNCHANGED RecordVars /\ UNCHANGED <<hmsg, enqueuesRaced>> BY DEF historyVars, RecordVars
<1>2. ControlOK' BY <1>0, ReturnControl
<1>3. /\ \A y \in Tasks : pc'[y] # "idle" =>
           /\ y # x /\ pc'[y] = pc[y] /\ call'[y] = call[y]
           /\ slot'[y] = slot[y] /\ copy'[y] = copy[y]
      /\ \A c \in Commands : Underway(c)' => Underway(c) /\ cmd'[c].what = cmd[c].what
  BY <1>0, ReturnEffect
<1>4. QueueOK' BY <1>0, <1>1, <1>3, QueueSame
<1>5. RecordsOK' BY <1>0, <1>1, <1>3, RecordsSame
<1> QED BY <1>2, <1>4, <1>5 DEF StateOK

\* Commands that are not touched.
LEMMA CommandsSame ==
  ASSUME QueueOK, UNCHANGED <<cmd, hmsg, enqueuesRaced>>
  PROVE  QueueOK'
<1>1. \A c \in Commands : Underway(c)' => Underway(c) /\ cmd'[c].what = cmd[c].what BY DEF Underway
<1> QED BY <1>1, QueueSame

\* Tasks that are not touched.
LEMMA TasksSame ==
  ASSUME RecordsOK, UNCHANGED RecordVars, UNCHANGED taskVars
  PROVE  RecordsOK'
<1>1. \A y \in Tasks : pc'[y] \in {"create", "save"} =>
        /\ pc'[y] = pc[y] /\ call'[y] = call[y]
        /\ slot'[y] = slot[y] /\ copy'[y] = copy[y]
  BY DEF taskVars
<1> QED BY <1>1, RecordsSame

LEMMA StutterStep ==
  ASSUME StateOK, UNCHANGED <<repo, lock, cmd, hmsg, taskVars, historyVars>>
  PROVE  StateOK'
<1>1. UNCHANGED RecordVars /\ UNCHANGED <<cmd, hmsg, enqueuesRaced>> /\ UNCHANGED <<lock, cmd, taskVars>>
  BY DEF RecordVars, historyVars
<1> QED BY <1>1, SameControl, CommandsSame, TasksSame DEF StateOK

LEMMA HandleStep ==
  ASSUME StateOK, NEW h \in Handlers, HandleMessage(h)
  PROVE  StateOK'
<1>1. UNCHANGED RecordVars /\ UNCHANGED <<lock, cmd, taskVars>>
  BY DEF RecordVars, historyVars, HandleMessage
<1> QED BY <1>1, SameControl, HandleQueue, TasksSame DEF StateOK

LEMMA SaveCommandStep ==
  ASSUME StateOK, NEW h \in Handlers, SaveCommand(h)
  PROVE  StateOK'
<1>1. UNCHANGED RecordVars /\ UNCHANGED taskVars BY DEF RecordVars, SaveCommand
<1> QED BY <1>1, SaveQueue, TasksSame DEF StateOK

LEMMA DispatchStep ==
  ASSUME StateOK, NEW B \in SUBSET Commands, Dispatch(B)
  PROVE  StateOK'
<1>1. UNCHANGED RecordVars /\ UNCHANGED <<hmsg, enqueuesRaced>> BY DEF RecordVars, historyVars, Dispatch
<1> QED BY <1>1, DispatchControl, QueueSame, RecordsSame DEF StateOK

LEMMA CleanupStep ==
  ASSUME StateOK, NEW c \in Commands, Cleanup(c)
  PROVE  StateOK'
<1>0. ControlOK /\ QueueOK /\ RecordsOK /\ TaskTypes BY DEF StateOK, ControlOK
<1>1. UNCHANGED RecordVars /\ UNCHANGED <<hmsg, enqueuesRaced>> /\ UNCHANGED taskVars /\ UNCHANGED <<lock, taskVars>>
  BY DEF RecordVars, historyVars, Cleanup
<1>2. pc[c] = "idle" BY <1>0 DEF ControlOK, CommandOK, Cleanup
<1>3. cmd' = [cmd EXCEPT ![c] = None] BY DEF Cleanup
<1>4. ControlOK' BY <1>0, <1>1, <1>2, <1>3, CommandControl
<1>5. \A d \in Commands : Underway(d)' => Underway(d) /\ cmd'[d].what = cmd[d].what
  BY <1>0, <1>3 DEF Underway, TaskTypes
<1>6. QueueOK' BY <1>0, <1>1, <1>5, QueueSame
<1>7. RecordsOK' BY <1>0, <1>1, TasksSame
<1> QED BY <1>4, <1>6, <1>7 DEF StateOK

LEMMA CallStep ==
  ASSUME StateOK, NEW x \in Operators, CallOperator(x)
  PROVE  StateOK'
<1>1. UNCHANGED RecordVars /\ UNCHANGED <<cmd, hmsg, enqueuesRaced>>
  BY DEF RecordVars, historyVars, CallOperator
<1> QED BY <1>1, CallControl, CommandsSame, RecordsSame DEF StateOK

LEMMA StartLookStep ==
  ASSUME StateOK, NEW x \in Tasks, StartLook(x)
  PROVE  StateOK'
<1>0. ControlOK /\ QueueOK /\ RecordsOK /\ TaskTypes BY DEF StateOK, ControlOK
<1>1. pc[x] = "look" /\ UNCHANGED <<repo, hmsg, historyVars>> BY DEF StartLook
<1>2. CASE \E result : Return(x, result) BY <1>1, <1>2, ReturnOnly
<1>3. CASE pc' = [pc EXCEPT ![x] = "policy"] /\ UNCHANGED <<lock, cmd, call, slot, copy>>
  <2>1. ControlOK' BY <1>0, <1>1, <1>3, MoveControl
  <2>2. UNCHANGED RecordVars /\ UNCHANGED <<cmd, hmsg, enqueuesRaced>>
    BY <1>1, <1>3 DEF RecordVars, historyVars
  <2>3. \A y \in Tasks : pc'[y] \in {"create", "save"} =>
          /\ pc'[y] = pc[y] /\ call'[y] = call[y]
          /\ slot'[y] = slot[y] /\ copy'[y] = copy[y]
    BY <1>0, <1>3 DEF TaskTypes
  <2> QED BY <1>0, <2>1, <2>2, <2>3, CommandsSame, RecordsSame DEF StateOK
<1> QED BY <1>2, <1>3 DEF StartLook

LEMMA CheckPolicyStep ==
  ASSUME StateOK, NEW x \in Tasks, CheckPolicy(x)
  PROVE  StateOK'
<1>0. ControlOK /\ QueueOK /\ RecordsOK /\ TaskTypes BY DEF StateOK, ControlOK
<1>1. pc[x] = "policy" /\ UNCHANGED <<repo, hmsg, historyVars>> BY DEF CheckPolicy
<1>2. CASE \E r \in Records : IsLive(r)
  <2>1. Return(x, "policy") BY <1>2 DEF CheckPolicy, IsLive
  <2> QED BY <1>1, <2>1, ReturnOnly
<1>3. CASE \A r \in Records : ~ IsLive(r)
  <2>1. pc' = [pc EXCEPT ![x] = "create"] /\ UNCHANGED <<lock, cmd, call, slot, copy>>
    BY <1>3 DEF CheckPolicy, IsLive
  <2>2. ControlOK' BY <1>0, <1>1, <2>1, MoveControl
  <2>3. UNCHANGED RecordVars /\ UNCHANGED <<cmd, hmsg, enqueuesRaced>>
    BY <1>1, <2>1 DEF RecordVars, historyVars
  <2>4. RecordsOK' BY <1>0, <1>3, <2>1, <2>3, CreateRecords
  <2> QED BY <1>0, <2>2, <2>3, <2>4, CommandsSame DEF StateOK
<1> QED BY <1>2, <1>3

LEMMA SaveInstanceStep ==
  ASSUME StateOK, NEW x \in Tasks, SaveInstance(x)
  PROVE  StateOK'
<1>0. ControlOK /\ QueueOK /\ RecordsOK BY DEF StateOK
<1>1. UNCHANGED <<cmd, hmsg, enqueuesRaced>> BY DEF SaveInstance
<1>2. ControlOK' BY <1>0, SavedControl DEF SaveInstance
<1> QED BY <1>0, <1>1, <1>2, CommandsSame, StartRecords DEF StateOK

LEMMA LockStep ==
  ASSUME StateOK, NEW x \in Tasks, LockInstance(x)
  PROVE  StateOK'
<1>0. ControlOK /\ QueueOK /\ RecordsOK /\ TaskTypes BY DEF StateOK, ControlOK
<1>1. UNCHANGED RecordVars /\ UNCHANGED <<cmd, hmsg, enqueuesRaced>>
  BY DEF RecordVars, historyVars, LockInstance
<1>2. \A y \in Tasks : pc'[y] \in {"create", "save"} =>
        /\ pc'[y] = pc[y] /\ call'[y] = call[y]
        /\ slot'[y] = slot[y] /\ copy'[y] = copy[y]
  BY <1>0 DEF TaskTypes, LockInstance
<1> QED BY <1>0, <1>1, <1>2, LockControl, CommandsSame, RecordsSame DEF StateOK

LEMMA LoadStep ==
  ASSUME StateOK, NEW x \in Tasks, Load(x)
  PROVE  StateOK'
<1>0. ControlOK /\ QueueOK /\ RecordsOK /\ TaskTypes BY DEF StateOK, ControlOK
<1>1. pc[x] = "load" /\ UNCHANGED <<repo, hmsg, historyVars>> BY DEF Load
<1>2. CASE \E result : Return(x, result) BY <1>1, <1>2, ReturnOnly
<1>3. ASSUME NEW r \in Found(call[x].inst),
             call[x].op \in Unlocked \/ (call[x].op = "advance" /\ Refusal(repo[r], call[x]) = None),
             slot' = [slot EXCEPT ![x] = r],
             copy' = [copy EXCEPT ![x] = Changed(repo[r], call[x])],
             pc' = [pc EXCEPT ![x] = "save"], UNCHANGED <<lock, cmd, call>>
      PROVE  StateOK'
  <2>1. r \in Records /\ repo[r] # None /\ repo[r].inst = call[x].inst /\ repo[r] \in Record
    BY <1>0 DEF Found, RecordsOK, RecordTypes
  <2>2. call[x] # None BY <1>0, <1>1 DEF ControlOK, StageOK
  <2>3. call[x] \in Operation /\ call[x].op \in Unlocked \cup {"advance"} BY <1>0, <1>3, <2>2, CallFacts
  <2>4. call[x].op = "advance" => Appliable(repo[r], call[x])
    <3> SUFFICES ASSUME call[x].op = "advance" PROVE Appliable(repo[r], call[x]) OBVIOUS
    <3>1. Refusal(repo[r], call[x]) = None BY <1>3 DEF Unlocked
    <3>2. None # "status" /\ None # "ok" /\ None # "template" /\ None # "transition"
      BY NoneAssumption DEF Refusals
    <3> QED BY <3>1, <3>2 DEF Refusal, Appliable
  <2>5. Changed(repo[r], call[x]) \in Record
    BY <2>1, <2>3, <2>4, ChangedIsRecord DEF Appliable
  <2>6. ControlOK' BY <1>0, <1>1, <1>3, <2>1, <2>3, <2>5, LoadControl
  <2>7. UNCHANGED RecordVars /\ UNCHANGED <<cmd, hmsg, enqueuesRaced>>
    BY <1>1, <1>3 DEF RecordVars, historyVars
  <2>8. RecordsOK' BY <1>0, <1>3, <2>1, <2>3, <2>4, <2>7, LoadRecords
  <2> QED BY <1>0, <2>6, <2>7, <2>8, CommandsSame DEF StateOK
<1> QED BY <1>2, <1>3 DEF Load

LEMMA SaveStep ==
  ASSUME StateOK, NEW x \in Tasks, Save(x)
  PROVE  StateOK'
<1>0. ControlOK /\ QueueOK /\ RecordsOK BY DEF StateOK
<1>1. UNCHANGED <<cmd, hmsg, enqueuesRaced>> BY DEF Save
<1>2. ControlOK' BY <1>0, SavedControl DEF Save
<1> QED BY <1>0, <1>1, <1>2, CommandsSame, SaveRecords DEF StateOK

LEMMA EmitStep ==
  ASSUME StateOK, NEW x \in Tasks, Emit(x)
  PROVE  StateOK'
<1>1. pc[x] # "idle" /\ Return(x, "ok") /\ UNCHANGED <<repo, hmsg, historyVars>> BY DEF Emit
<1> QED BY <1>1, ReturnOnly

\* A counted fault, a counter, a flag: what no other part depends on.
LEMMA SmallParts ==
  ASSUME Bounds, Flags, [Next]_vars
  PROVE  Bounds' /\ Flags'
<1>1. ASSUME NEW h \in Handlers, HandleMessage(h) PROVE Bounds' /\ Flags'
  BY <1>1 DEF HandleMessage, Bounds, Flags, historyVars
<1>2. ASSUME NEW h \in Handlers, SaveCommand(h) PROVE Bounds' /\ Flags'
  <2>1. Bounds' BY <1>2 DEF SaveCommand, Bounds, boundVars
  <2>2. enqueuesRaced' \in BOOLEAN BY <1>2 DEF SaveCommand
  <2> QED BY <1>2, <2>1, <2>2 DEF SaveCommand, Flags
<1>3. ASSUME NEW B \in SUBSET Commands, Dispatch(B) PROVE Bounds' /\ Flags'
  BY <1>3 DEF Dispatch, Bounds, Flags, boundVars, historyVars
<1>4. ASSUME NEW c \in Commands, JobTimeout(c) PROVE Bounds' /\ Flags'
  BY <1>4 DEF JobTimeout, Fault, Bounds, Flags, historyVars
<1>5. ASSUME NEW c \in Commands, Cleanup(c) PROVE Bounds' /\ Flags'
  BY <1>5 DEF Cleanup, Bounds, Flags, boundVars, historyVars
<1>6. ASSUME NEW x \in Operators, CallOperator(x) PROVE Bounds' /\ Flags'
  BY <1>6 DEF CallOperator, Bounds, Flags, historyVars
<1>7. ASSUME NEW x \in Tasks, StartLook(x) \/ CheckPolicy(x) \/ LockInstance(x) \/ Load(x) \/ Emit(x)
      PROVE Bounds' /\ Flags'
  BY <1>7 DEF StartLook, CheckPolicy, LockInstance, Load, Emit, Bounds, Flags, boundVars, historyVars
<1>8. ASSUME NEW x \in Tasks, SaveInstance(x) PROVE Bounds' /\ Flags'
  <2>1. Bounds' BY <1>8 DEF SaveInstance, Bounds, boundVars
  <2>2. startsRaced' \in BOOLEAN BY <1>8 DEF SaveInstance
  <2> QED BY <1>8, <2>1, <2>2 DEF SaveInstance, Flags
<1>9. ASSUME NEW x \in Tasks, Save(x) PROVE Bounds' /\ Flags'
  BY <1>9 DEF Save, Bounds, Flags, boundVars
<1>10. ASSUME NEW x \in Tasks, ActionFails(x) PROVE Bounds' /\ Flags'
  BY <1>10 DEF ActionFails, Fault, Bounds, Flags, historyVars
<1>11. CASE PublishTemplate BY <1>11 DEF PublishTemplate, Bounds, Flags, boundVars, historyVars
<1>12. CASE DeleteTemplate
  <2>1. Bounds' BY <1>12 DEF DeleteTemplate, Fault, Bounds
  <2>2. template' \in BOOLEAN BY <1>12 DEF DeleteTemplate
  <2> QED BY <1>12, <2>1, <2>2 DEF DeleteTemplate, Flags, historyVars
<1>13. CASE UNCHANGED vars BY <1>13 DEF vars, Bounds, Flags, boundVars, historyVars
<1> QED BY <1>1, <1>2, <1>3, <1>4, <1>5, <1>6, <1>7, <1>8, <1>9, <1>10, <1>11, <1>12, <1>13
        DEF Next, Step

LEMMA StateStep ==
  ASSUME StateOK, [Next]_vars
  PROVE  StateOK'
<1>1. ASSUME NEW h \in Handlers, HandleMessage(h) \/ SaveCommand(h) PROVE StateOK'
  BY <1>1, HandleStep, SaveCommandStep
<1>2. ASSUME NEW B \in SUBSET Commands, Dispatch(B) PROVE StateOK' BY <1>2, DispatchStep
<1>10. ASSUME NEW c \in Commands, Cleanup(c) PROVE StateOK' BY <1>10, CleanupStep
<1>3. ASSUME NEW c \in Commands, JobTimeout(c) PROVE StateOK'
  BY <1>3, ReturnOnly DEF JobTimeout, Tasks
<1>4. ASSUME NEW x \in Tasks, Step(x) PROVE StateOK'
  BY <1>4, StartLookStep, CheckPolicyStep, SaveInstanceStep, LockStep, LoadStep, SaveStep, EmitStep DEF Step
<1>5. ASSUME NEW x \in Tasks, ActionFails(x) PROVE StateOK'
  <2>1. pc[x] # "idle" BY <1>5 DEF ActionFails
  <2> QED BY <1>5, <2>1, ReturnOnly DEF ActionFails
<1>6. ASSUME NEW x \in Operators, CallOperator(x) PROVE StateOK' BY <1>6, CallStep
<1>7. CASE PublishTemplate BY <1>7, StutterStep DEF PublishTemplate
<1>8. CASE DeleteTemplate BY <1>8, StutterStep DEF DeleteTemplate
<1>9. CASE UNCHANGED vars BY <1>9, StutterStep DEF vars
<1> QED BY <1>1, <1>2, <1>3, <1>4, <1>5, <1>6, <1>7, <1>8, <1>9, <1>10 DEF Next

LEMMA WorkflowInit == Init => WorkflowInv
<1> SUFFICES ASSUME Init PROVE WorkflowInv OBVIOUS
<1>1. Bounds BY DEF Init, Bounds
<1>2. Flags BY DEF Init, Flags
<1>3. ControlOK
  <2>1. TaskTypes BY DEF Init, TaskTypes
  <2>2. \A x \in Tasks : StageOK(x) BY DEF Init, StageOK
  <2>3. LockOK BY NoneAssumption DEF Init, LockOK, Holds
  <2>4. \A c \in Commands : CommandOK(c) BY DEF Init, CommandOK, Tasks
  <2> QED BY <2>1, <2>2, <2>3, <2>4 DEF ControlOK
<1>4. QueueOK
  <2>1. \A c \in Commands : ~ Underway(c) BY DEF Init, Underway
  <2>2. hmsg \in [Handlers -> Inbound \cup {None}] BY DEF Init
  <2> QED BY <2>1, <2>2 DEF QueueOK
<1>5. RecordsOK
  <2>1. RecordTypes BY DEF Init, RecordTypes
  <2>2. \A x \in Tasks : CopyOK(x) BY DEF Init, CopyOK
  <2>3. Apart(<<>>) BY DEF Apart
  <2>4. \A r \in Records : HistoryOK(r) /\ CancelOK(r) BY <2>3 DEF Init, HistoryOK, CancelOK
  <2>5. SingletonOK BY DEF Init, SingletonOK, IsLive
  <2> QED BY <2>1, <2>2, <2>4, <2>5 DEF RecordsOK
<1> QED BY <1>1, <1>2, <1>3, <1>4, <1>5 DEF WorkflowInv

\* The invariant holds in every behaviour.
THEOREM WorkflowInvariant == Spec => []WorkflowInv
<1>1. WorkflowInv /\ [Next]_vars => WorkflowInv'
  BY SmallParts, StateStep DEF WorkflowInv, StateOK
<1> QED BY <1>1, WorkflowInit, PTL DEF Spec

\* Every variable keeps its type; the lock of an instance is held by the advance of
\* it that is past its lock and by nobody else, a command is Processing exactly while
\* its job runs, and no job is tried more than max_attempts times.
THEOREM TypeCorrect == Spec => []TypeOK
<1>1. WorkflowInv => TypeOK
  <2> SUFFICES ASSUME WorkflowInv PROVE TypeOK OBVIOUS
  <2>1. {template, startsRaced, enqueuesRaced} \subseteq BOOLEAN BY DEF WorkflowInv, Flags
  <2>2. {messages, calls, faults} \subseteq Nat BY DEF WorkflowInv, Bounds
  <2>3. \A i \in Instances, x \in Tasks :
          lock[i] = x <=> /\ pc[x] \in {"load", "save", "emit"}
                          /\ call[x].op = "advance" /\ call[x].inst = i
    BY DEF WorkflowInv, ControlOK, LockOK, Holds
  <2>4. \A c \in Commands :
          /\ pc[c] # "idle" <=> cmd[c] # None /\ cmd[c].status = "Processing"
          /\ cmd[c] # None => cmd[c].attempts <= 1 \/ cmd[c].attempts <= MaxAttempts
    BY DEF WorkflowInv, ControlOK, CommandOK
  <2>5. TaskTypes /\ RecordTypes /\ hmsg \in [Handlers -> Inbound \cup {None}]
    BY DEF WorkflowInv, ControlOK, RecordsOK, QueueOK
  <2>6. canceled \cup revived \cup raced \subseteq Records BY <2>5 DEF RecordTypes
  <2> QED BY <2>1, <2>2, <2>3, <2>4, <2>5, <2>6 DEF TypeOK, TaskTypes, RecordTypes
<1> QED BY <1>1, WorkflowInvariant, PTL

\* An advance that was reported as done is in the history of its record, unless
\* pause, resume, cancel or update_context, which do not take the instance's lock,
\* overlapped with an operation on the same record.
THEOREM AdvancesAreKept == Spec => []NoAdvanceLost
<1>1. WorkflowInv => NoAdvanceLost
  BY DEF WorkflowInv, RecordsOK, HistoryOK, NoAdvanceLost
<1> QED BY <1>1, WorkflowInvariant, PTL

\* Of the last IDEMPOTENCY_HISTORY_LIMIT keys applied to a record no two are equal,
\* however often an advance is sent again or its command is retried.
THEOREM KeysAppliedOnce == Spec => []KeyAppliedOnce
<1>1. WorkflowInv => KeyAppliedOnce
  BY DEF WorkflowInv, RecordsOK, HistoryOK, Apart, KeyAppliedOnce
<1> QED BY <1>1, WorkflowInvariant, PTL

\* A cancelled instance stays cancelled until it is paused or resumed, or a copy
\* taken before the cancel is written over it.
THEOREM CancelIsKept == Spec => []CancelSticks
<1>1. WorkflowInv => CancelSticks
  BY DEF WorkflowInv, RecordsOK, RecordTypes, CancelOK, CancelSticks
<1> QED BY <1>1, WorkflowInvariant, PTL

\* The connection has at most one live instance, unless two starts were under way
\* together or a terminal instance was revived or overwritten.
THEOREM OneLiveInstance == Spec => []SingletonPerConnection
<1>1. WorkflowInv => SingletonPerConnection
  <2> SUFFICES ASSUME WorkflowInv, ~ startsRaced, revived \cup raced = {}
               PROVE  Cardinality({r \in Records : repo[r] # None /\ repo[r].status \in Live}) <= 1
    BY DEF SingletonPerConnection
  <2> DEFINE S == {r \in Records : repo[r] # None /\ repo[r].status \in Live}
  <2>1. \A r, q \in S : r = q BY DEF WorkflowInv, RecordsOK, SingletonOK, IsLive
  <2> HIDE DEF S
  <2>2. CASE S = {}
    <3>1. Cardinality(S) = 0 BY <2>2, FS_EmptySet
    <3> QED BY <3>1 DEF S
  <2>3. CASE S # {}
    <3>1. PICK r : S = {r} BY <2>1, <2>3
    <3>2. Cardinality(S) = 1 BY <3>1, FS_Singleton
    <3> QED BY <3>2 DEF S
  <2> QED BY <2>2, <2>3
<1> QED BY <1>1, WorkflowInvariant, PTL

\* No two commands of one kind for one instance are under way together, unless two
\* handlers looked for duplicates before either had saved its command.
THEOREM CommandsAreDistinct == Spec => []NoDuplicateCommand
<1>1. WorkflowInv => NoDuplicateCommand
  BY DEF WorkflowInv, QueueOK, Underway, SameKind, NoDuplicateCommand
<1> QED BY <1>1, WorkflowInvariant, PTL
=============================================================================
