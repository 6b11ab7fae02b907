--------------------------- MODULE SigningCounter ----------------------------
(***************************************************************************)
(* The counter of one subject and device that MonotonicCounterManager      *)
(* (protocols/signing/src/counter.rs) keeps in memory and in storage:      *)
(* next issues values, accept spends values a peer issued, current and     *)
(* verify read.  next and accept hold the write lock across their storage  *)
(* awaits; current does not.                                               *)
(***************************************************************************)
EXTENDS Integers

CONSTANTS
  Callers,    \* tasks that use the counter
  MaxValue,   \* u64::MAX
  MaxCounterFaults, \* bound: storage failures and crashes
  Absent            \* nothing cached, nobody at the lock

ASSUME CounterAssumption ==
  MaxValue \in Nat \ {0} /\ MaxCounterFaults \in Nat /\ Absent \notin Nat \cup Callers

VARIABLES
  stored,     \* the value in storage; 0 is no record
  cached,     \* the entry of `counters`
  lock,       \* who holds the write lock of `counters`
  pc,         \* where each caller is
  value,      \* the value it was given or has computed
  found,      \* what current read from storage
  counterFaults,
  spent,      \* history: the largest value issued or accepted
  repeated,   \* history: a value was issued or accepted that was not larger
  excuses     \* history: what can make that happen

counterVars == <<stored, cached, lock, pc, value, found, counterFaults, spent, repeated, excuses>>

Values == 0 .. MaxValue

CounterInit ==
  /\ stored = 0 /\ cached = Absent /\ lock = Absent
  /\ pc = [c \in Callers |-> "idle"]
  /\ value = [c \in Callers |-> 0]
  /\ found = [c \in Callers |-> 0]
  /\ counterFaults = 0 /\ spent = 0 /\ repeated = FALSE /\ excuses = {}

CounterFault == counterFaults < MaxCounterFaults /\ counterFaults' = counterFaults + 1

At(c, where) == pc' = [pc EXCEPT ![c] = where]

CounterReturn(c) ==
  /\ At(c, "idle")
  /\ value' = [value EXCEPT ![c] = 0]
  /\ found' = [found EXCEPT ![c] = 0]

\* The value is handed to the caller, to be used as a new one.
Spend(v) ==
  /\ spent' = IF v > spent THEN v ELSE spent
  /\ repeated' = (repeated \/ v <= spent)

-----------------------------------------------------------------------------
(* verify(v): current, and the comparison.  The caller accepts v next.     *)

\* A cached value answers at once.
Verify(c) ==
  /\ pc[c] = "idle" /\ lock = Absent
  /\ \E v \in 1 .. MaxValue :
       /\ cached # Absent => v > cached
       /\ value' = [value EXCEPT ![c] = v]
  /\ At(c, IF cached = Absent THEN "find" ELSE "accept")
  /\ UNCHANGED <<stored, cached, lock, found, counterFaults, spent, repeated, excuses>>

Find(c) ==
  /\ pc[c] = "find"
  /\ found' = [found EXCEPT ![c] = stored]
  /\ At(c, "insert")
  /\ UNCHANGED <<stored, cached, lock, value, counterFaults, spent, repeated, excuses>>

FindFails(c) ==
  /\ pc[c] = "find"
  /\ CounterFault
  /\ CounterReturn(c)
  /\ UNCHANGED <<stored, cached, lock, spent, repeated, excuses>>

\* What was found goes into the cache, whatever the cache holds by now.
Insert(c) ==
  /\ pc[c] = "insert" /\ lock = Absent
  /\ cached' = found[c]
  /\ excuses' = IF cached # Absent /\ cached > found[c] THEN excuses \cup {"stale"} ELSE excuses
  /\ IF value[c] > found[c] THEN At(c, "accept") /\ UNCHANGED <<value, found>> ELSE CounterReturn(c)
  /\ UNCHANGED <<stored, lock, counterFaults, spent, repeated>>

-----------------------------------------------------------------------------
(* accept(v)                                                               *)

\* A caller that does not verify first.
AcceptUnverified(c) ==
  /\ pc[c] = "idle"
  /\ \E v \in 1 .. MaxValue : value' = [value EXCEPT ![c] = v]
  /\ At(c, "accept")
  /\ UNCHANGED <<stored, cached, lock, found, counterFaults, spent, repeated, excuses>>

\* entry().or_insert(0)
Entry == IF cached = Absent THEN 0 ELSE cached

\* Mutant of Accept: the value is not compared again.
AcceptUnchecked(c) ==
  /\ pc[c] = "accept" /\ lock = Absent
  /\ excuses' = IF cached = Absent /\ stored > 0 THEN excuses \cup {"unverified"} ELSE excuses
  /\ cached' = value[c] /\ lock' = c /\ At(c, "persistAccept")
  /\ UNCHANGED <<stored, value, found, counterFaults, spent, repeated>>

Accept(c) ==
  /\ pc[c] = "accept" /\ lock = Absent
  /\ excuses' = IF cached = Absent /\ stored > 0 THEN excuses \cup {"unverified"} ELSE excuses
  /\ IF value[c] <= Entry
       THEN cached' = Entry /\ CounterReturn(c) /\ UNCHANGED lock
       ELSE /\ cached' = value[c] /\ lock' = c /\ At(c, "persistAccept")
            /\ UNCHANGED <<value, found>>
  /\ UNCHANGED <<stored, counterFaults, spent, repeated>>

-----------------------------------------------------------------------------
(* next                                                                    *)

\* `*current += 1` on a u64; the release profile has no overflow checks, so
\* u64::MAX, which a peer may have had accepted, is followed by 0.
Increment(v) == IF v = MaxValue THEN 0 ELSE v + 1

\* The incremented value is the entry and is what will be written.
Issue(c, v) ==
  /\ cached' = Increment(v)
  /\ value' = [value EXCEPT ![c] = Increment(v)]
  /\ At(c, "persistNext")
  /\ excuses' = IF v = MaxValue THEN excuses \cup {"wrapped"} ELSE excuses

NextValue(c) ==
  /\ pc[c] = "idle" /\ lock = Absent
  /\ lock' = c
  /\ IF Entry = 0
       THEN cached' = 0 /\ At(c, "load") /\ UNCHANGED <<value, excuses>>
       ELSE Issue(c, Entry)
  /\ UNCHANGED <<stored, found, counterFaults, spent, repeated>>

\* The first access reads storage.
LoadNext(c) ==
  /\ pc[c] = "load"
  /\ Issue(c, stored)
  /\ UNCHANGED <<stored, lock, found, counterFaults, spent, repeated>>

\* An error of that read is taken for an absent record.
LoadNextFails(c) ==
  /\ pc[c] = "load"
  /\ CounterFault
  /\ cached' = 1
  /\ value' = [value EXCEPT ![c] = 1]
  /\ At(c, "persistNext")
  /\ excuses' = IF stored > 0 THEN excuses \cup {"blind"} ELSE excuses
  /\ UNCHANGED <<stored, lock, found, spent, repeated>>

-----------------------------------------------------------------------------
(* persist, the end of next and of accept                                  *)

\* Mutant of Persist: the value is returned without being written.
PersistLater(c) ==
  /\ pc[c] \in {"persistNext", "persistAccept"}
  /\ lock' = Absent
  /\ Spend(value[c])
  /\ CounterReturn(c)
  /\ UNCHANGED <<stored, cached, counterFaults, excuses>>

Persist(c) ==
  /\ pc[c] \in {"persistNext", "persistAccept"}
  /\ stored' = value[c]
  /\ lock' = Absent
  /\ Spend(value[c])
  /\ CounterReturn(c)
  /\ UNCHANGED <<cached, counterFaults, excuses>>

\* The cache keeps the value that was not written.
PersistFails(c) ==
  /\ pc[c] \in {"persistNext", "persistAccept"}
  /\ CounterFault
  /\ lock' = Absent
  /\ CounterReturn(c)
  /\ UNCHANGED <<stored, cached, spent, repeated, excuses>>

CounterCrash ==
  /\ CounterFault
  /\ cached' = Absent /\ lock' = Absent
  /\ pc' = [c \in Callers |-> "idle"]
  /\ value' = [c \in Callers |-> 0]
  /\ found' = [c \in Callers |-> 0]
  /\ UNCHANGED <<stored, spent, repeated, excuses>>

CounterNext ==
  \/ \E c \in Callers :
       \/ Verify(c) \/ Find(c) \/ FindFails(c) \/ Insert(c)
       \/ AcceptUnverified(c) \/ Accept(c)
       \/ NextValue(c) \/ LoadNext(c) \/ LoadNextFails(c)
       \/ Persist(c) \/ PersistFails(c)
  \/ CounterCrash

CounterSpec == CounterInit /\ [][CounterNext]_counterVars

-----------------------------------------------------------------------------
(* Properties.                                                             *)

Locked == {"load", "persistNext", "persistAccept"}

\* Type invariant; the write lock is held exactly by the caller that is
\* between its first access and the end of persist.
CounterTypeOK ==
  /\ stored \in Values /\ spent \in Values
  /\ cached \in Values \cup {Absent}
  /\ pc \in [Callers -> {"idle", "find", "insert", "accept"} \cup Locked]
  /\ value \in [Callers -> Values]
  /\ found \in [Callers -> Values]
  /\ \A c \in Callers : lock = c <=> pc[c] \in Locked
  /\ lock \in Callers \cup {Absent}
  /\ counterFaults \in Nat
  /\ repeated \in BOOLEAN
  /\ excuses \subseteq {"stale", "unverified", "blind", "wrapped"}

\* No value is issued or accepted twice, across crashes and failing writes,
\* except by way of the four holes in the code: current puts a value into
\* the cache that next or accept has meanwhile passed, accept is called after
\* a restart without verify, next takes a failing read for no record, or next
\* increments u64::MAX.
NeverRepeated == repeated => excuses # {}

\* What was handed out is in storage first, so a restart goes on above it.
SpentIsStored == excuses = {} => spent <= stored
=============================================================================
