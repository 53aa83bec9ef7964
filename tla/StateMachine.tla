---------------------------- MODULE StateMachine ----------------------------
(***************************************************************************)
(* The key-value state machine of tasks/raft/state_machine.py: the         *)
(* dictionary, the list of results, process_new_entries, which the Raft    *)
(* node calls with the entries it commits, and the threads that wait in    *)
(* get_operation_result for a result.                                      *)
(*                                                                         *)
(* process_new_entries holds self.lock from its first entry to its         *)
(* notify_all; each of its iterations is an action.  Calls of it do not    *)
(* overlap, because the node makes them under its own lock.  A reader is a *)
(* thread that calls get_operation_result once.                            *)
(***************************************************************************)
EXTENDS Handlers, Integers, Sequences

CONSTANTS Reader,     \* the threads that call get_operation_result
          MaxEntries, \* bound: entries that are processed
          MaxBatch    \* bound: entries in one call of process_new_entries

ASSUME BoundsAssumption == {MaxEntries, MaxBatch} \subseteq Nat

VARIABLES
  kv_storage,          \* the dictionary, None where a key is missing
  log_entry_op_result, \* the results, by position
  entries,             \* the entries they belong to (a history variable)
  batch,               \* what process_new_entries still has to process
  locked,              \* process_new_entries holds self.lock
  reader               \* the threads in get_operation_result

store == <<kv_storage, log_entry_op_result, entries>>
vars  == <<store, batch, locked, reader>>

Call == [at : {"outside", "waiting", "notified", "returned"},
         entry_id : Nat, result : Result \cup {None}]

Init ==
  /\ kv_storage = [k \in Key |-> None]
  /\ log_entry_op_result = <<>>
  /\ entries = <<>>
  /\ batch = <<>>
  /\ locked = FALSE
  /\ reader = [r \in Reader |-> [at |-> "outside", entry_id |-> 0, result |-> None]]

-----------------------------------------------------------------------------
(* process_new_entries.                                                    *)

\* The node commits the entries of new and gets the lock.
Begin(new) ==
  /\ ~locked
  /\ Len(entries) + Len(new) <= MaxEntries
  /\ locked' = TRUE
  /\ batch' = new
  /\ UNCHANGED <<store, reader>>

\* One iteration of the loop.
HandleEntry ==
  LET o == Head(batch)
      outcome == handler(o, kv_storage[o.key])
  IN /\ locked /\ batch # <<>>
     /\ kv_storage' = [kv_storage EXCEPT ![o.key] = outcome.new]
     /\ log_entry_op_result' = Append(log_entry_op_result, outcome.result)
     /\ entries' = Append(entries, o)
     /\ batch' = Tail(batch)
     /\ UNCHANGED <<locked, reader>>

\* Mutant of Notified: one thread is woken instead of all.
Notified_One ==
  LET waiting == {r \in Reader : reader[r].at = "waiting"}
  IN IF waiting = {} THEN reader
     ELSE [reader EXCEPT ![CHOOSE r \in waiting : TRUE].at = "notified"]

\* self.lock.notify_all()
Notified ==
  [r \in Reader |-> IF reader[r].at = "waiting"
                    THEN [reader[r] EXCEPT !.at = "notified"] ELSE reader[r]]

Finish ==
  /\ locked /\ batch = <<>>
  /\ locked' = FALSE
  /\ reader' = Notified
  /\ UNCHANGED <<store, batch>>

-----------------------------------------------------------------------------
(* get_operation_result.                                                   *)

\* The condition of the while loop, negated.
IsThere(id) == ~(id > Len(log_entry_op_result))

\* Mutant of ResultOf: the last result is taken, whatever the position.
ResultOf_Last(id) == log_entry_op_result[Len(log_entry_op_result)]

ResultOf(id) == log_entry_op_result[id]

\* The thread has the lock: it takes the result, or waits and lets the lock go.
Test(r, id) ==
  reader' = [reader EXCEPT ![r] =
    IF IsThere(id) THEN [at |-> "returned", entry_id |-> id, result |-> ResultOf(id)]
    ELSE [at |-> "waiting", entry_id |-> id, result |-> None]]

get_operation_result(r, id) ==
  /\ reader[r].at = "outside"
  /\ ~locked
  /\ Test(r, id)
  /\ UNCHANGED <<store, batch, locked>>

WakeUp(r) ==
  /\ reader[r].at = "notified"
  /\ ~locked
  /\ Test(r, reader[r].entry_id)
  /\ UNCHANGED <<store, batch, locked>>

-----------------------------------------------------------------------------
Next ==
  \/ \E n \in 0..MaxBatch : \E new \in [1..n -> Operation] : Begin(new)
  \/ HandleEntry
  \/ Finish
  \/ \E r \in Reader : \/ \E id \in 1..MaxEntries : get_operation_result(r, id)
                       \/ WakeUp(r)

Spec == Init /\ [][Next]_vars

\* process_new_entries ends, and a notified thread gets the lock in the end,
\* however often the node takes it in between.
FairSpec ==
  /\ Spec
  /\ WF_vars(HandleEntry) /\ WF_vars(Finish)
  /\ \A r \in Reader : SF_vars(WakeUp(r))

-----------------------------------------------------------------------------
(* Properties.                                                             *)

\* Every variable has its type.
TypeOK ==
  /\ kv_storage \in [Key -> Value \cup {None}]
  /\ log_entry_op_result \in Seq(Result)
  /\ entries \in Seq(Operation)
  /\ batch \in Seq(Operation)
  /\ locked \in BOOLEAN
  /\ reader \in [Reader -> Call]

\* Entry i wrote key k, according to its own result.
Wrote(i, k) ==
  /\ entries[i].key = k
  /\ entries[i].type # "read"
  /\ log_entry_op_result[i].status = "OK"

\* What an entry that wrote left behind.
Written(o) ==
  IF o.type = "delete" THEN None
  ELSE IF o.type = "cas" THEN o.newValue ELSE o.value

\* v is the value of k after the first n entries: what the last of them that
\* wrote k left behind.
HasValue(k, n, v) ==
  \/ v = None /\ \A i \in 1..n : ~Wrote(i, k)
  \/ \E i \in 1..n : /\ Wrote(i, k) /\ v = Written(entries[i])
                     /\ \A j \in (i + 1)..n : ~Wrote(j, k)

\* Which operations succeed on a key with value old.
Accepts(o, old) ==
  /\ (o.type = "create") = (old = None)
  /\ o.type = "cas" => old = o.expectedValue

\* The results agree with each other, without the dictionary: each entry
\* succeeds or fails, and a read returns, what the last successful write of
\* its key among the earlier results makes it.
ResultsAreSequential ==
  /\ Len(entries) = Len(log_entry_op_result)
  /\ \A i \in 1..Len(entries) : \E old \in Value \cup {None} :
       LET o == entries[i]
           result == log_entry_op_result[i]
       IN /\ HasValue(o.key, i - 1, old)
          /\ (result.status = "OK") = Accepts(o, old)
          /\ o.type = "read" => result.value = old

\* A thread gets the result of the entry it asked for, and that result stays
\* what it is.
AnswersAreFinal ==
  \A r \in Reader : reader[r].at = "returned" =>
    /\ reader[r].entry_id \in 1..Len(log_entry_op_result)
    /\ reader[r].result = log_entry_op_result[reader[r].entry_id]

\* No thread sleeps on when its result is there and the lock is free: no
\* wake-up is lost.
NobodySleepsOver ==
  \A r \in Reader :
    reader[r].at = "waiting" /\ ~locked =>
      reader[r].entry_id > Len(log_entry_op_result)

\* A thread that waits for an entry returns once the entry is processed.
ReadersReturn ==
  \A r \in Reader :
    reader[r].at = "waiting" /\ reader[r].entry_id <= Len(entries)
      ~> reader[r].at = "returned"

=============================================================================
