---------------------------- MODULE MessageQueue ----------------------------
(***************************************************************************)
(* The mediator's pickup queue, StorageBackedMessageQueueRepository        *)
(* (protocols/pickup/src/repository/storage_backed_message_queue.rs): rows *)
(* in durable storage, and two in-memory maps, each behind its own RwLock, *)
(* that are filled on first use.  Calls of different tasks interleave at   *)
(* every await; each stretch of code between two awaits is one action.     *)
(*                                                                         *)
(* `messages` is always locked before `by_connection`, and by_connection   *)
(* is never held alone across an await, so one lock stands for both.  The  *)
(* fields of a QueuedMessage that never change are constants; a message is *)
(* named by its place in the order of received_at.                         *)
(***************************************************************************)
EXTENDS Integers, FiniteSets

CONSTANTS
  Messages,         \* the messages, numbered by received_at
  Connections,      \* connection ids
  connection_id,    \* connection_id[m]
  Keys,             \* recipient keys
  recipient_keys,   \* recipient_keys[m]
  Takers,           \* calls of take_from_queue
  Removers,         \* calls that delete: ACK, TTL sweep, cap relief, clear
  Limits,           \* the limits a delivery request may carry
  MaxFaults,        \* bound: storage operations that fail
  MaxCrashes,       \* bound: mediator crashes
  None              \* "no key filter", "lock is free"

ASSUME MessagesAssumption ==
  /\ Messages \subseteq Nat
  /\ connection_id \in [Messages -> Connections]
  /\ recipient_keys \in [Messages -> SUBSET Keys]

ASSUME CallersAssumption ==
  /\ None \notin Keys \cup Takers \cup Removers
  /\ Takers \cap Removers = {}

ASSUME BoundsAssumption ==
  /\ Limits \subseteq Nat
  /\ MaxFaults \in Nat
  /\ MaxCrashes \in Nat

VARIABLES
  disk,       \* the state of each message's row, or Absent
  loaded,     \* `messages` is Some
  indexed,    \* `by_connection` is Some
  booted,     \* warm_up returned and the mediator serves requests
  cache,      \* the state of each message in `messages`, or Absent
  index,      \* the ids `by_connection` lists for each connection
  lock,       \* the call that holds the write locks across an await
  apc,        \* where the add_message call of each message is
  tpc,        \* where each take_from_queue call is
  got,        \* the messages a take call took
  upd,        \* those whose row it has not updated yet
  rpc,        \* where each removing call is
  todo,       \* the ids it still has to delete
  cutoff,     \* messages numbered up to here are older than max_age
  released,   \* the ids an ACK or clear_connection named
  faults,
  crashes

memVars == <<loaded, indexed, booted, cache, index>>
addVars == <<apc, cutoff>>
takeVars == <<tpc, got, upd>>
removeVars == <<rpc, todo, released>>
budget == <<faults, crashes>>
vars == <<disk, memVars, lock, addVars, takeVars, removeVars, budget>>

Absent == "absent"
States == {"pending", "sending"}
Rows == States \cup {Absent}

Init ==
  /\ disk = [m \in Messages |-> Absent]
  /\ loaded = FALSE
  /\ indexed = FALSE
  /\ booted = FALSE
  /\ cache = [m \in Messages |-> Absent]
  /\ index = [c \in Connections |-> {}]
  /\ lock = None
  /\ apc = [m \in Messages |-> "idle"]
  /\ tpc = [t \in Takers |-> "idle"]
  /\ got = [t \in Takers |-> {}]
  /\ upd = [t \in Takers |-> {}]
  /\ rpc = [r \in Removers |-> "idle"]
  /\ todo = [r \in Removers |-> {}]
  /\ cutoff = 0
  /\ released = {}
  /\ faults = 0
  /\ crashes = 0

\* Mutant of UpdateRow: an upsert.
UpsertRow(rows, m, s) == [rows EXCEPT ![m] = s]

\* StorageProvider::update replaces a row and fails if there is none.
UpdateRow(rows, m, s) == [rows EXCEPT ![m] = IF @ = Absent THEN Absent ELSE s]

\* A storage operation fails; the caller logs it or returns the error.
Fault ==
  /\ faults < MaxFaults
  /\ faults' = faults + 1
  /\ UNCHANGED crashes

Cached == {m \in Messages : cache[m] # Absent}

-----------------------------------------------------------------------------
(* ensure_loaded.  While `messages` is None and its write lock is held     *)
(* every other call waits in ensure_loaded, so only a crash can see how    *)
(* far the resets in storage got: `reset` is the set of rows that were.    *)

ResetToPending(rows) ==
  [m \in Messages |-> IF rows[m] = Absent THEN Absent ELSE "pending"]

\* Mutant of LoadMessages: the rows are loaded in the state they have.
LoadWithoutReset ==
  /\ ~loaded
  /\ cache' = disk
  /\ loaded' = TRUE
  /\ UNCHANGED <<disk, indexed, booted, index, lock,
                 addVars, takeVars, removeVars, budget>>

LoadMessages ==
  /\ ~loaded
  /\ cache' = ResetToPending(disk)
  /\ \E reset \in SUBSET {m \in Messages : disk[m] = "sending"} :
       disk' = [m \in Messages |-> IF m \in reset THEN "pending" ELSE disk[m]]
  /\ loaded' = TRUE
  /\ UNCHANGED <<indexed, booted, index, lock,
                 addVars, takeVars, removeVars, budget>>

\* The second half, after `messages` has been unlocked.
IndexConnections ==
  /\ loaded
  /\ ~indexed
  /\ index' = [c \in Connections |-> {m \in Cached : connection_id[m] = c}]
  /\ indexed' = TRUE
  /\ booted' = TRUE
  /\ UNCHANGED <<disk, loaded, cache, lock,
                 addVars, takeVars, removeVars, budget>>

\* find_all fails at start; the mediator serves all the same, and the first
\* call that needs the queue loads it.
WarmUpFails ==
  /\ ~loaded
  /\ ~booted
  /\ Fault
  /\ booted' = TRUE
  /\ UNCHANGED <<disk, loaded, indexed, cache, index, lock,
                 addVars, takeVars, removeVars>>

\* What a call finds once ensure_loaded has returned.
Ready == booted /\ loaded /\ indexed /\ lock = None

\* The window between the two halves of ensure_loaded, in which
\* by_connection.as_mut().unwrap() panics.
Unindexed == booted /\ loaded /\ ~indexed

-----------------------------------------------------------------------------
(* add_message.                                                            *)

\* Mutant of StartAdd: goes to the caches first.
StartAddInCache(m) ==
  /\ apc[m] = "idle"
  /\ booted /\ loaded
  /\ \A k \in Messages : k < m => apc[k] # "idle"
  /\ apc' = [apc EXCEPT ![m] = "cache"]
  /\ UNCHANGED <<disk, memVars, lock, cutoff, takeVars, removeVars, budget>>

StartAdd(m) ==
  /\ apc[m] = "idle"
  /\ booted /\ loaded
  /\ \A k \in Messages : k < m => apc[k] # "idle"
  /\ apc' = [apc EXCEPT ![m] = "persist"]
  /\ UNCHANGED <<disk, memVars, lock, cutoff, takeVars, removeVars, budget>>

PersistMessage(m) ==
  /\ apc[m] = "persist"
  /\ disk' = [disk EXCEPT ![m] = "pending"]
  /\ apc' = [apc EXCEPT ![m] = "cache"]
  /\ UNCHANGED <<memVars, lock, cutoff, takeVars, removeVars, budget>>

PersistFails(m) ==
  /\ apc[m] = "persist"
  /\ Fault
  /\ apc' = [apc EXCEPT ![m] = "failed"]
  /\ UNCHANGED <<disk, memVars, lock, cutoff, takeVars, removeVars>>

InsertMessage(m) ==
  /\ apc[m] = "cache"
  /\ Ready
  /\ cache' = [cache EXCEPT ![m] = "pending"]
  /\ index' = [index EXCEPT ![connection_id[m]] = @ \cup {m}]
  /\ apc' = [apc EXCEPT ![m] = "done"]
  /\ UNCHANGED <<disk, loaded, indexed, booted, lock,
                 cutoff, takeVars, removeVars, budget>>

\* The row is stored, but the caller is not told.
InsertPanics(m) ==
  /\ apc[m] = "cache"
  /\ Unindexed
  /\ apc' = [apc EXCEPT ![m] = "unconfirmed"]
  /\ UNCHANGED <<disk, memVars, lock, cutoff, takeVars, removeVars, budget>>

-----------------------------------------------------------------------------
(* take_from_queue and return_to_pending.                                  *)

MatchesRecipientKey(m, key) == key = None \/ key \in recipient_keys[m]

\* sort_by_key(received_at), take(limit)
Oldest(S, limit) ==
  {m \in S : Cardinality({k \in S : k < m}) < limit}

Matching(c, key) ==
  {m \in index[c] : cache[m] = "pending" /\ MatchesRecipientKey(m, key)}

\* Mutant of MarkSending: the messages are not marked under the lock.
MarkNothing(rows, S) == rows

MarkSending(rows, S) ==
  [m \in Messages |-> IF m \in S THEN "sending" ELSE rows[m]]

TakeFromQueue(t) ==
  /\ tpc[t] = "idle"
  /\ Ready
  /\ \E c \in Connections, key \in Keys \cup {None}, limit \in Limits :
       LET taken == Oldest(Matching(c, key), limit)
       IN  /\ cache' = MarkSending(cache, taken)
           /\ got' = [got EXCEPT ![t] = taken]
           /\ upd' = [upd EXCEPT ![t] = taken]
           /\ tpc' = [tpc EXCEPT ![t] = IF taken = {} THEN "done" ELSE "update"]
  /\ UNCHANGED <<disk, loaded, indexed, booted, index, lock,
                 addVars, removeVars, budget>>

TakePanics(t) ==
  /\ tpc[t] = "idle"
  /\ Unindexed
  /\ tpc' = [tpc EXCEPT ![t] = "failed"]
  /\ UNCHANGED <<disk, memVars, lock, addVars, got, upd, removeVars, budget>>

UpdatePC(t, m) ==
  tpc' = [tpc EXCEPT ![t] = IF upd[t] = {m} THEN "done" ELSE "update"]

\* The locks were dropped: this races with removals.
UpdateTaken(t) ==
  /\ tpc[t] = "update"
  /\ \E m \in upd[t] :
       /\ disk' = UpdateRow(disk, m, "sending")
       /\ upd' = [upd EXCEPT ![t] = @ \ {m}]
       /\ UpdatePC(t, m)
  /\ UNCHANGED <<memVars, lock, addVars, got, removeVars, budget>>

UpdateTakenFails(t) ==
  /\ tpc[t] = "update"
  /\ Fault
  /\ \E m \in upd[t] :
       /\ upd' = [upd EXCEPT ![t] = @ \ {m}]
       /\ UpdatePC(t, m)
  /\ UNCHANGED <<disk, memVars, lock, addVars, got, removeVars>>

\* return_to_pending for what a take returned (delivery failed).  It locks
\* `messages` only.
StartReturn(t) ==
  /\ tpc[t] = "done"
  /\ got[t] # {}
  /\ booted /\ loaded /\ lock = None
  /\ lock' = t
  /\ tpc' = [tpc EXCEPT ![t] = "return"]
  /\ UNCHANGED <<disk, memVars, addVars, got, upd, removeVars, budget>>

\* Mutant of ReturnToPending: the section that holds the lock never ends.
ReturnKeepsLock(t) ==
  /\ tpc[t] = "return"
  /\ \E m \in got[t] :
       /\ cache' = [cache EXCEPT ![m] = IF @ = Absent THEN Absent ELSE "pending"]
       /\ disk' = IF cache[m] = Absent THEN disk
                                       ELSE UpdateRow(disk, m, "pending")
       /\ got' = [got EXCEPT ![t] = @ \ {m}]
  /\ UNCHANGED <<loaded, indexed, booted, index, lock, addVars, tpc, upd,
                 removeVars, budget>>

ReturnToPending(t) ==
  /\ tpc[t] = "return"
  /\ \E m \in got[t] :
       /\ cache' = [cache EXCEPT ![m] = IF @ = Absent THEN Absent ELSE "pending"]
       /\ disk' = IF cache[m] = Absent THEN disk
                                       ELSE UpdateRow(disk, m, "pending")
       /\ got' = [got EXCEPT ![t] = @ \ {m}]
       /\ IF got[t] = {m}
            THEN tpc' = [tpc EXCEPT ![t] = "returned"] /\ lock' = None
            ELSE UNCHANGED <<tpc, lock>>
  /\ UNCHANGED <<loaded, indexed, booted, index, addVars, upd,
                 removeVars, budget>>

\* A failing write is logged: the message is Pending in memory and Sending in
\* its row.
ReturnToPendingFails(t) ==
  /\ tpc[t] = "return"
  /\ Fault
  /\ \E m \in got[t] :
       /\ cache[m] # Absent
       /\ cache' = [cache EXCEPT ![m] = "pending"]
       /\ got' = [got EXCEPT ![t] = @ \ {m}]
       /\ IF got[t] = {m}
            THEN tpc' = [tpc EXCEPT ![t] = "returned"] /\ lock' = None
            ELSE UNCHANGED <<tpc, lock>>
  /\ UNCHANGED <<disk, loaded, indexed, booted, index, addVars, upd, removeVars>>

-----------------------------------------------------------------------------
(* remove_messages, delete_expired, delete_expired_for_connection and      *)
(* clear_connection.                                                       *)

\* Mutant of Expired: the comparison with the cutoff is turned round.
Fresh(S) == {m \in S : m > cutoff}

Expired(S) == {m \in S : m <= cutoff}

Accepted == {m \in Messages : apc[m] = "done"}

\* The messages the mediator may have handed out.
Known == {m \in Messages : apc[m] \in {"done", "unconfirmed"}}

BeginDelete(r, ids) ==
  /\ todo' = [todo EXCEPT ![r] = ids]
  /\ rpc' = [rpc EXCEPT ![r] = IF ids = {} THEN "done" ELSE "delete"]
  /\ lock' = IF ids = {} THEN None ELSE r

\* An ACK lists ids the mediator has handed out before, to anyone.
RemoveMessages(r) ==
  /\ rpc[r] = "idle"
  /\ Ready
  /\ \E ids \in SUBSET Known :
       /\ ids # {}
       /\ released' = released \cup ids
       /\ BeginDelete(r, ids)
  /\ UNCHANGED <<disk, memVars, addVars, takeVars, budget>>

\* conn_map.remove comes first, the deletes after it.
ClearConnection(r) ==
  /\ rpc[r] = "idle"
  /\ Ready
  /\ \E c \in Connections :
       /\ released' = released \cup index[c]
       /\ index' = [index EXCEPT ![c] = {}]
       /\ BeginDelete(r, index[c])
  /\ UNCHANGED <<disk, loaded, indexed, booted, cache,
                 addVars, takeVars, budget>>

\* The expired ids are collected under a read lock, which is then released.
CollectExpired(r) ==
  /\ rpc[r] = "idle"
  /\ booted /\ loaded /\ lock = None
  /\ \E S \in {Cached} \cup {index[c] \cap Cached : c \in Connections} :
       /\ todo' = [todo EXCEPT ![r] = Expired(S)]
       /\ rpc' = [rpc EXCEPT ![r] = IF Expired(S) = {} THEN "done" ELSE "collected"]
  /\ UNCHANGED <<disk, memVars, lock, addVars, takeVars, released, budget>>

DeleteExpired(r) ==
  /\ rpc[r] = "collected"
  /\ Ready
  /\ BeginDelete(r, todo[r])
  /\ UNCHANGED <<disk, memVars, addVars, takeVars, released, budget>>

RemovePanics(r) ==
  /\ rpc[r] \in {"idle", "collected"}
  /\ Unindexed
  /\ rpc' = [rpc EXCEPT ![r] = "failed"]
  /\ todo' = [todo EXCEPT ![r] = {}]
  /\ UNCHANGED <<disk, memVars, lock, addVars, takeVars, released, budget>>

ForgetMessage(r, m) ==
  /\ cache' = [cache EXCEPT ![m] = Absent]
  /\ index' = [index EXCEPT ![connection_id[m]] = @ \ {m}]
  /\ todo' = [todo EXCEPT ![r] = @ \ {m}]
  /\ IF todo[r] = {m}
       THEN rpc' = [rpc EXCEPT ![r] = "done"] /\ lock' = None
       ELSE UNCHANGED <<rpc, lock>>
  /\ UNCHANGED <<loaded, indexed, booted>>

DeleteMessage(r) ==
  /\ rpc[r] = "delete"
  /\ \E m \in todo[r] :
       /\ disk' = [disk EXCEPT ![m] = Absent]
       /\ ForgetMessage(r, m)
  /\ UNCHANGED <<addVars, takeVars, released, budget>>

\* The row stays; the caches forget the message all the same.
DeleteMessageFails(r) ==
  /\ rpc[r] = "delete"
  /\ Fault
  /\ \E m \in todo[r] : ForgetMessage(r, m)
  /\ UNCHANGED <<disk, addVars, takeVars, released>>

-----------------------------------------------------------------------------
(* Time and crashes.                                                       *)

\* One more message becomes older than max_age.
Age ==
  /\ \E m \in Messages :
       /\ apc[m] # "idle"
       /\ m > cutoff
       /\ \A k \in Messages : k > cutoff => m <= k
       /\ cutoff' = m
  /\ UNCHANGED <<disk, memVars, lock, apc, takeVars, removeVars, budget>>

Fail(p) == IF p \in {"idle", "done", "returned"} THEN p ELSE "failed"

Crash ==
  /\ crashes < MaxCrashes
  /\ crashes' = crashes + 1
  /\ loaded' = FALSE
  /\ indexed' = FALSE
  /\ booted' = FALSE
  /\ cache' = [m \in Messages |-> Absent]
  /\ index' = [c \in Connections |-> {}]
  /\ lock' = None
  /\ apc' = [m \in Messages |-> CASE apc[m] = "persist" -> "failed"
                                  [] apc[m] = "cache" -> "unconfirmed"
                                  [] OTHER -> apc[m]]
  /\ tpc' = [t \in Takers |-> Fail(tpc[t])]
  /\ got' = [t \in Takers |-> {}]
  /\ upd' = [t \in Takers |-> {}]
  /\ rpc' = [r \in Removers |-> Fail(rpc[r])]
  /\ todo' = [r \in Removers |-> {}]
  /\ UNCHANGED <<disk, cutoff, released, faults>>

LoadStep == LoadMessages \/ IndexConnections

AddStep(m) ==
  \/ PersistMessage(m)
  \/ PersistFails(m)
  \/ InsertMessage(m)
  \/ InsertPanics(m)

TakeStep(t) ==
  \/ UpdateTaken(t)
  \/ UpdateTakenFails(t)
  \/ ReturnToPending(t)
  \/ ReturnToPendingFails(t)

RemoveStep(r) ==
  \/ DeleteExpired(r)
  \/ DeleteMessage(r)
  \/ DeleteMessageFails(r)

Next ==
  \/ LoadStep
  \/ WarmUpFails
  \/ \E m \in Messages : StartAdd(m) \/ AddStep(m)
  \/ \E t \in Takers :
       TakeFromQueue(t) \/ TakePanics(t) \/ StartReturn(t) \/ TakeStep(t)
  \/ \E r \in Removers :
       \/ RemoveMessages(r) \/ ClearConnection(r) \/ CollectExpired(r)
       \/ RemovePanics(r) \/ RemoveStep(r)
  \/ Age
  \/ Crash

Spec == Init /\ [][Next]_vars

\* A call that was started is polled until it returns; nobody has to start
\* one, and time and crashes are free.
Fairness ==
  /\ WF_vars(LoadStep)
  /\ \A m \in Messages : WF_vars(AddStep(m))
  /\ \A t \in Takers : WF_vars(TakeStep(t))
  /\ \A r \in Removers : WF_vars(RemoveStep(r))

FairSpec == Spec /\ Fairness

-----------------------------------------------------------------------------
(* Properties.                                                             *)

\* Type invariant; the write locks belong to a call inside its critical
\* section.
TypeOK ==
  /\ disk \in [Messages -> Rows]
  /\ loaded \in BOOLEAN /\ indexed \in BOOLEAN /\ booted \in BOOLEAN
  /\ cache \in [Messages -> Rows]
  /\ index \in [Connections -> SUBSET Messages]
  /\ lock \in {t \in Takers : tpc[t] = "return"}
             \cup {r \in Removers : rpc[r] = "delete"} \cup {None}
  /\ apc \in [Messages -> {"idle", "persist", "cache", "done",
                           "unconfirmed", "failed"}]
  /\ tpc \in [Takers -> {"idle", "update", "done", "return", "returned",
                         "failed"}]
  /\ got \in [Takers -> SUBSET Messages]
  /\ upd \in [Takers -> SUBSET Messages]
  /\ rpc \in [Removers -> {"idle", "collected", "delete", "done", "failed"}]
  /\ todo \in [Removers -> SUBSET Messages]
  /\ cutoff \in Nat
  /\ released \subseteq Messages
  /\ faults \in Nat /\ crashes \in Nat

\* A message add_message answered Ok for is in storage until it is released
\* or too old, and a mediator that has loaded its queue can hand it out.
AcceptedIsKept ==
  \A m \in Accepted :
    \/ m \in released
    \/ m <= cutoff
    \/ /\ disk[m] # Absent
       /\ indexed => cache[m] # Absent /\ m \in index[connection_id[m]]

\* No message is handed out from memory that a crash would lose.
CacheIsBacked == \A m \in Messages : cache[m] # Absent => disk[m] # Absent

\* A message in state Sending is in the hands of a take call of this run of
\* the mediator: ensure_loaded leaves no message stuck by a crash.
SendingIsHeld ==
  \A m \in Messages : cache[m] = "sending" => \E t \in Takers : m \in got[t]

\* Two deliveries never hold the same message, which is what the Sending
\* state is for ("prevents duplicate delivery").
TakesAreDisjoint ==
  \A t1, t2 \in Takers : t1 # t2 => got[t1] \cap got[t2] = {}

\* Both maps list the same messages whenever a call may look at them.
IndexAgrees ==
  indexed /\ lock = None =>
    \A c \in Connections :
      index[c] = {m \in Cached : connection_id[m] = c}

\* A message that was stored and removed never comes back, neither by the
\* late update of a take that raced with the ACK nor by a restart.
NoResurrection ==
  [][\A m \in Known :
       disk[m] = Absent => disk'[m] = Absent /\ cache'[m] = Absent]_vars

\* Every removal ends, although it holds both write locks while it waits for
\* the storage and others wait for it.
RemovalsEnd ==
  \A r \in Removers :
    rpc[r] \in {"collected", "delete"} ~> rpc[r] \in {"done", "failed"}

\* Refinement: the repository implements the queue its callers rely on.
Queue == INSTANCE DurableQueue WITH
  entered <- {m \in Messages : apc[m] \in {"cache", "done", "unconfirmed"}},
  stored  <- {m \in Messages : disk[m] # Absent},
  out     <- {m \in Messages : cache[m] = "sending"}

\* The whole repository behaves like a DurableQueue.
ImplementsQueue == Queue!Spec
=============================================================================
