------------------------- MODULE StateMachine_proofs -------------------------
(***************************************************************************)
(* Theorems about StateMachine, for any keys, values, threads and bounds.  *)
(***************************************************************************)
EXTENDS StateMachine, SequenceTheorems, TLAPS

(***************************************************************************)
(* The handlers, all at once: when an operation succeeds, what it leaves   *)
(* behind, what it returns.                                                *)
(***************************************************************************)
LEMMA HandlerEffect ==
  ASSUME NEW o \in Operation, NEW old \in Value \cup {None}
  PROVE  /\ handler(o, old).new \in Value \cup {None}
         /\ handler(o, old).result \in Result
         /\ (handler(o, old).result.status = "OK") = Accepts(o, old)
         /\ IF o.type # "read" /\ Accepts(o, old)
            THEN handler(o, old).new = Written(o)
            ELSE handler(o, old).new = old
         /\ o.type = "read" => handler(o, old).result.value = old
<1>1. CASE o.type = "create"
  BY <1>1, NoneAssumption, BoundsAssumption
  DEF handler, handle_create, Outcome, successful, Accepts, Written, Result, Operation
<1>2. CASE o.type = "read"
  BY <1>2, NoneAssumption, BoundsAssumption
  DEF handler, handle_read, Outcome, successful, Accepts, Written, Result, Operation
<1>3. CASE o.type = "update"
  BY <1>3, NoneAssumption, BoundsAssumption
  DEF handler, handle_update, Outcome, successful, Accepts, Written, Result, Operation
<1>4. CASE o.type = "cas"
  BY <1>4, NoneAssumption, BoundsAssumption
  DEF handler, handle_cas, Outcome, successful, Accepts, Written, Result, Operation
<1>5. CASE o.type = "delete"
  BY <1>5, NoneAssumption, BoundsAssumption
  DEF handler, handle_delete, Outcome, successful, Accepts, Written, Result, Operation
<1>6. o.type \in {"create", "read", "update", "cas", "delete"}
  BY DEF Operation
<1> QED
  BY <1>1, <1>2, <1>3, <1>4, <1>5, <1>6

LEMMA TypeInit == Init => TypeOK
<1> SUFFICES ASSUME Init PROVE TypeOK
  OBVIOUS
<1>1. reader \in [Reader -> Call]
  BY DEF Init, Call
<1> QED
  <2>1. kv_storage \in [Key -> Value \cup {None}] /\ locked \in BOOLEAN
    BY DEF Init
  <2>2. log_entry_op_result \in Seq(Result)
    BY DEF Init
  <2>3. entries \in Seq(Operation) /\ batch \in Seq(Operation)
    BY DEF Init
  <2> QED
    BY <1>1, <2>1, <2>2, <2>3 DEF TypeOK

LEMMA TestTyped ==
  ASSUME TypeOK, NEW r \in Reader, NEW id \in Nat \ {0}, Test(r, id)
  PROVE  reader' \in [Reader -> Call]
<1>1. IsThere(id) => ResultOf(id) \in Result
  BY DEF IsThere, ResultOf, TypeOK
<1> QED
  BY <1>1 DEF Test, TypeOK, Call

\* A thread that has called asks for a position from 1 on.
Asks == \A r \in Reader : reader[r].at # "outside" => reader[r].entry_id \in Nat \ {0}

Typed == TypeOK /\ Asks

LEMMA TypedNext == Typed /\ [Next]_vars => Typed'
<1> SUFFICES ASSUME Typed, [Next]_vars PROVE Typed'
  OBVIOUS
<1>1. ASSUME NEW n \in 0..MaxBatch, NEW new \in [1..n -> Operation], Begin(new)
      PROVE  Typed'
  <2>1. new \in Seq(Operation)
    BY NoneAssumption, BoundsAssumption
  <2> QED
    BY <1>1, <2>1 DEF Begin, Typed, TypeOK, Asks, store
<1>2. CASE HandleEntry
  <2> DEFINE o == Head(batch)
             outcome == handler(o, kv_storage[o.key])
  <2>1. o \in Operation /\ Tail(batch) \in Seq(Operation)
    BY <1>2 DEF HandleEntry, Typed, TypeOK
  <2>2. o.key \in Key
    BY <2>1 DEF Operation
  <2>3. outcome.new \in Value \cup {None} /\ outcome.result \in Result
    BY <2>1, <2>2, HandlerEffect DEF Typed, TypeOK
  <2> HIDE DEF outcome
  <2>4. /\ kv_storage' = [kv_storage EXCEPT ![o.key] = outcome.new]
        /\ log_entry_op_result' = Append(log_entry_op_result, outcome.result)
        /\ entries' = Append(entries, o)
        /\ batch' = Tail(batch)
        /\ UNCHANGED <<locked, reader>>
    BY <1>2 DEF HandleEntry, outcome
  <2> QED
    BY <2>1, <2>2, <2>3, <2>4 DEF Typed, TypeOK, Asks
<1>3. CASE Finish
  BY <1>3 DEF Finish, Notified, Typed, TypeOK, Asks, Call, store
<1>4. ASSUME NEW r \in Reader, NEW id \in 1..MaxEntries, get_operation_result(r, id)
      PROVE  Typed'
  <2>1. reader' \in [Reader -> Call]
    BY <1>4, TestTyped, NoneAssumption, BoundsAssumption DEF get_operation_result, Typed
  <2> QED
    BY <1>4, <2>1, NoneAssumption, BoundsAssumption
    DEF get_operation_result, Test, Typed, TypeOK, Asks, store
<1>5. ASSUME NEW r \in Reader, WakeUp(r)
      PROVE  Typed'
  <2>1. reader[r].entry_id \in Nat \ {0}
    BY <1>5 DEF WakeUp, Typed, Asks
  <2>2. reader' \in [Reader -> Call]
    BY <1>5, <2>1, TestTyped DEF WakeUp, Typed
  <2> QED
    BY <1>5, <2>1, <2>2 DEF WakeUp, Test, Typed, TypeOK, Asks, store
<1>6. CASE UNCHANGED vars
  BY <1>6 DEF vars, store, Typed, TypeOK, Asks
<1> QED
  BY <1>1, <1>2, <1>3, <1>4, <1>5, <1>6 DEF Next

LEMMA TypedInit == Init => Typed
  BY TypeInit DEF Typed, Asks, Init

\* Every variable keeps its type: whatever the operations, a handler appends
\* a result and leaves a value or nothing under its key.
THEOREM TypeCorrect == Spec => []TypeOK
<1>1. Typed => TypeOK
  BY DEF Typed
<1> QED
  BY <1>1, TypedInit, TypedNext, PTL DEF Spec

-----------------------------------------------------------------------------
(* The results and the dictionary.                                         *)

\* The dictionary holds what the last successful writes left.
StorageIsWritten == \A k \in Key : HasValue(k, Len(entries), kv_storage[k])

Sequential == StorageIsWritten /\ ResultsAreSequential

\* Another entry at the end does not change what the earlier ones wrote.
LEMMA EarlierWrites ==
  ASSUME NEW n \in Nat, NEW m \in 0..n, NEW k \in Key, NEW v, HasValue(k, m, v),
         \A i \in 1..n : /\ entries'[i] = entries[i]
                         /\ log_entry_op_result'[i] = log_entry_op_result[i]
  PROVE  HasValue(k, m, v)'
<1>1. \A i \in 1..m : Wrote(i, k)' = Wrote(i, k) /\ entries'[i] = entries[i]
  BY DEF Wrote
<1> QED
  BY <1>1 DEF HasValue

LEMMA SequentialStep ==
  ASSUME Typed, Sequential, HandleEntry
  PROVE  Sequential'
<1> PICK o : o = Head(batch)
  OBVIOUS
<1> PICK old : old = kv_storage[o.key]
  OBVIOUS
<1> PICK outcome : outcome = handler(o, old)
  OBVIOUS
<1> PICK n : n = Len(entries)
  OBVIOUS
<1>1. o \in Operation
  BY DEF HandleEntry, Typed, TypeOK
<1>2. o.key \in Key /\ old \in Value \cup {None}
  BY <1>1 DEF Operation, Typed, TypeOK
<1>3. /\ outcome.new \in Value \cup {None} /\ outcome.result \in Result
      /\ (outcome.result.status = "OK") = Accepts(o, old)
      /\ IF o.type # "read" /\ Accepts(o, old)
         THEN outcome.new = Written(o) ELSE outcome.new = old
      /\ o.type = "read" => outcome.result.value = old
  BY <1>1, <1>2, HandlerEffect
<1>4. /\ kv_storage' = [kv_storage EXCEPT ![o.key] = outcome.new]
      /\ log_entry_op_result' = Append(log_entry_op_result, outcome.result)
      /\ entries' = Append(entries, o)
  BY DEF HandleEntry
<1>5. n \in Nat /\ n = Len(entries) /\ n = Len(log_entry_op_result)
  BY DEF Typed, TypeOK, Sequential, ResultsAreSequential
<1>6. /\ \A i \in 1..n : /\ entries'[i] = entries[i]
                         /\ log_entry_op_result'[i] = log_entry_op_result[i]
      /\ entries'[n + 1] = o /\ log_entry_op_result'[n + 1] = outcome.result
      /\ Len(entries') = n + 1 /\ Len(log_entry_op_result') = n + 1
  <2>1. entries \in Seq(Operation) /\ log_entry_op_result \in Seq(Result)
    BY DEF Typed, TypeOK
  <2>2. /\ entries' = Append(entries, o)
        /\ log_entry_op_result' = Append(log_entry_op_result, outcome.result)
    BY <1>4
  <2>3. /\ Len(entries') = n + 1 /\ entries'[n + 1] = o
        /\ \A i \in 1..n : entries'[i] = entries[i]
    <3>1. o \in Operation /\ entries \in Seq(Operation) /\ entries' = Append(entries, o)
      BY <1>1, <2>1, <2>2
    <3>2. /\ Len(entries') = Len(entries) + 1
          /\ entries'[Len(entries) + 1] = o
          /\ \A i \in 1..Len(entries) : entries'[i] = entries[i]
      BY <3>1, AppendProperties
    <3> QED
      BY <1>5, <3>2
  <2>4. /\ Len(log_entry_op_result') = n + 1
        /\ log_entry_op_result'[n + 1] = outcome.result
        /\ \A i \in 1..n : log_entry_op_result'[i] = log_entry_op_result[i]
    BY <1>3, <1>5, <2>1, <2>2, AppendProperties
  <2> QED
    BY <2>3, <2>4
<1>7. ASSUME NEW k \in Key, NEW m \in 0..n, NEW v, HasValue(k, m, v)
      PROVE  HasValue(k, m, v)'
  BY <1>5, <1>6, <1>7, EarlierWrites
<1>8. ResultsAreSequential'
  <2> DEFINE Fits(i, w) ==
        /\ HasValue(entries[i].key, i - 1, w)
        /\ (log_entry_op_result[i].status = "OK") = Accepts(entries[i], w)
        /\ entries[i].type = "read" => log_entry_op_result[i].value = w
  <2>1. ASSUME NEW i \in 1..n
        PROVE  \E w \in Value \cup {None} : Fits(i, w)'
    <3>1. PICK w \in Value \cup {None} : Fits(i, w)
      BY <1>5 DEF Sequential, ResultsAreSequential
    <3>2. entries[i].key \in Key
      <4>1. entries \in Seq(Operation) /\ i \in 1..Len(entries)
        BY DEF Typed, TypeOK
      <4>2. entries[i] \in Operation
        BY <4>1
      <4> QED
        BY <4>2 DEF Operation
    <3>3. HasValue(entries[i].key, i - 1, w)'
      BY <1>5, <1>6, <1>7, <3>1, <3>2
    <3> QED
      BY <1>6, <3>1, <3>3 DEF Accepts
  <2>2. Fits(n + 1, old)'
    <3>1. HasValue(o.key, n, old)
      BY <1>2 DEF Sequential, StorageIsWritten
    <3>2. HasValue(o.key, n, old)'
      BY <1>2, <1>5, <1>7, <3>1
    <3>3. entries'[n + 1] = o /\ (n + 1) - 1 = n
      BY <1>5, <1>6
    <3> QED
      BY <1>3, <1>6, <3>2, <3>3 DEF Accepts
  <2>3. \A i \in 1..(n + 1) : \E w \in Value \cup {None} : Fits(i, w)'
    <3> SUFFICES ASSUME NEW i \in 1..(n + 1)
                 PROVE  \E w \in Value \cup {None} : Fits(i, w)'
      OBVIOUS
    <3>1. i \in 1..n \/ i = n + 1
      BY <1>5
    <3> QED
      BY <1>2, <2>1, <2>2, <3>1
  <2> QED
    BY <1>6, <2>3 DEF ResultsAreSequential
<1>9. StorageIsWritten'
  <2> SUFFICES ASSUME NEW k \in Key
               PROVE  HasValue(k, Len(entries), kv_storage[k])'
    BY DEF StorageIsWritten
  <2> PICK v : v = kv_storage[k]
    OBVIOUS
  <2>1. HasValue(k, n, v)'
    BY <1>5, <1>7 DEF Sequential, StorageIsWritten
  <2>2. CASE Wrote(n + 1, k)'
    <3>1. o.key = k /\ o.type # "read" /\ Accepts(o, old)
      BY <1>3, <1>6, <2>2 DEF Wrote
    <3>2. kv_storage'[k] = Written(o)
      BY <1>3, <1>4, <3>1 DEF Typed, TypeOK
    <3> QED
      BY <1>5, <1>6, <2>2, <3>2 DEF HasValue
  <2>3. CASE ~Wrote(n + 1, k)'
    <3>1. ~(o.key = k /\ o.type # "read" /\ Accepts(o, old))
      BY <1>3, <1>6, <2>3 DEF Wrote
    <3>2. kv_storage'[k] = v
      BY <1>2, <1>3, <1>4, <3>1 DEF Typed, TypeOK
    <3>3. HasValue(k, n + 1, v)'
      BY <1>5, <1>6, <2>1, <2>3 DEF HasValue
    <3> QED
      BY <1>6, <3>2, <3>3
  <2> QED
    BY <2>2, <2>3
<1> QED
  BY <1>8, <1>9 DEF Sequential

\* Results are sequential: each operation succeeds or fails, and a read
\* returns, what the last successful write of its key before it makes it.
THEOREM ResultsSequential == Spec => []ResultsAreSequential
<1>1. Init => Typed /\ Sequential
  BY TypedInit DEF Init, Sequential, StorageIsWritten, ResultsAreSequential, HasValue
<1>2. Typed /\ Sequential /\ [Next]_vars => (Typed /\ Sequential)'
  <2> SUFFICES ASSUME Typed, Sequential, [Next]_vars PROVE Sequential'
    BY TypedNext
  <2>1. CASE HandleEntry
    BY <2>1, SequentialStep
  <2>2. CASE UNCHANGED store
    BY <2>2 DEF store, Sequential, StorageIsWritten, ResultsAreSequential,
                HasValue, Wrote
  <2> QED
    BY <2>1, <2>2 DEF Next, vars, Begin, Finish, get_operation_result, WakeUp
<1>3. Sequential => ResultsAreSequential
  BY DEF Sequential
<1> QED
  BY <1>1, <1>2, <1>3, PTL DEF Spec

-----------------------------------------------------------------------------
(* The threads in get_operation_result.                                    *)

\* Results are only appended.
LEMMA ResultsGrow ==
  ASSUME Typed, [Next]_vars, NEW i \in 1..Len(log_entry_op_result)
  PROVE  /\ i \in 1..Len(log_entry_op_result')
         /\ log_entry_op_result'[i] = log_entry_op_result[i]
<1>1. CASE UNCHANGED log_entry_op_result
  BY <1>1
<1>2. CASE HandleEntry
  BY <1>2 DEF HandleEntry, Typed, TypeOK
<1> QED
  BY <1>1, <1>2 DEF Next, vars, store, Begin, Finish, get_operation_result, WakeUp

\* What becomes of one thread in a step.
LEMMA ReaderSteps ==
  ASSUME Typed, [Next]_vars, NEW r \in Reader
  PROVE  \/ reader'[r] = reader[r]
         \/ /\ reader'[r] = [reader[r] EXCEPT !.at = "notified"]
            /\ reader[r].at = "waiting"
         \/ \E id \in Nat \ {0} :
              /\ ~locked /\ UNCHANGED <<log_entry_op_result, locked>>
              /\ reader'[r] = IF IsThere(id)
                   THEN [at |-> "returned", entry_id |-> id, result |-> ResultOf(id)]
                   ELSE [at |-> "waiting", entry_id |-> id, result |-> None]
<1>1. CASE UNCHANGED reader
  BY <1>1
<1>2. CASE Finish
  BY <1>2 DEF Finish, Notified, Typed, TypeOK
<1>3. ASSUME NEW q \in Reader, NEW id \in Nat \ {0}, Test(q, id), ~locked,
             UNCHANGED <<log_entry_op_result, locked>>
      PROVE  \/ reader'[r] = reader[r]
             \/ \E i \in Nat \ {0} :
                  /\ ~locked /\ UNCHANGED <<log_entry_op_result, locked>>
                  /\ reader'[r] = IF IsThere(i)
                       THEN [at |-> "returned", entry_id |-> i, result |-> ResultOf(i)]
                       ELSE [at |-> "waiting", entry_id |-> i, result |-> None]
  BY <1>3 DEF Test, Typed, TypeOK
<1>4. ASSUME NEW q \in Reader, NEW id \in 1..MaxEntries, get_operation_result(q, id)
      PROVE  Test(q, id) /\ ~locked /\ UNCHANGED <<log_entry_op_result, locked>>
  BY <1>4 DEF get_operation_result, store
<1>5. ASSUME NEW q \in Reader, WakeUp(q)
      PROVE  /\ Test(q, reader[q].entry_id) /\ reader[q].entry_id \in Nat \ {0}
             /\ ~locked /\ UNCHANGED <<log_entry_op_result, locked>>
  BY <1>5 DEF WakeUp, store, Typed, Asks
<1>6. 1..MaxEntries \subseteq Nat \ {0}
  BY NoneAssumption, BoundsAssumption
<1> QED
  <2>1. CASE \E n \in 0..MaxBatch : \E new \in [1..n -> Operation] : Begin(new)
    BY <1>1, <2>1 DEF Begin
  <2>2. CASE HandleEntry
    BY <1>1, <2>2 DEF HandleEntry
  <2>3. CASE UNCHANGED vars
    BY <1>1, <2>3 DEF vars
  <2>4. CASE \E q \in Reader : \E id \in 1..MaxEntries : get_operation_result(q, id)
    BY <1>3, <1>4, <1>6, <2>4
  <2>5. CASE \E q \in Reader : WakeUp(q)
    <3>1. PICK q \in Reader : WakeUp(q)
      BY <2>5
    <3>2. PICK id : id = reader[q].entry_id
      OBVIOUS
    <3> QED
      BY <1>3, <1>5, <3>1, <3>2
  <2> QED
    BY <1>2, <2>1, <2>2, <2>3, <2>4, <2>5 DEF Next

\* A thread that returned has the result at its position, for good: results
\* are appended only, so none changes after it was handed out.
THEOREM AnswersFinal == Spec => []AnswersAreFinal
<1>1. Init => Typed /\ AnswersAreFinal
  BY TypedInit DEF Init, AnswersAreFinal
<1>2. Typed /\ AnswersAreFinal /\ [Next]_vars => (Typed /\ AnswersAreFinal)'
  <2> SUFFICES ASSUME Typed, AnswersAreFinal, [Next]_vars,
                      NEW r \in Reader, reader'[r].at = "returned"
               PROVE  /\ reader'[r].entry_id \in 1..Len(log_entry_op_result')
                      /\ reader'[r].result = log_entry_op_result'[reader'[r].entry_id]
    BY TypedNext DEF AnswersAreFinal
  <2>1. CASE reader'[r] = reader[r]
    BY <2>1, ResultsGrow DEF AnswersAreFinal
  <2>2. ASSUME NEW id \in Nat \ {0}, UNCHANGED log_entry_op_result,
               reader'[r] = IF IsThere(id)
                 THEN [at |-> "returned", entry_id |-> id, result |-> ResultOf(id)]
                 ELSE [at |-> "waiting", entry_id |-> id, result |-> None]
        PROVE  /\ reader'[r].entry_id \in 1..Len(log_entry_op_result')
               /\ reader'[r].result = log_entry_op_result'[reader'[r].entry_id]
    <3>1. IsThere(id) /\ reader'[r].entry_id = id /\ reader'[r].result = ResultOf(id)
      BY <2>2
    <3>2. Len(log_entry_op_result) \in Nat
      BY DEF Typed, TypeOK
    <3> QED
      BY <2>2, <3>1, <3>2 DEF IsThere, ResultOf
  <2>3. CASE reader'[r] = [reader[r] EXCEPT !.at = "notified"]
    BY <2>3 DEF Typed, TypeOK, Call
  <2> QED
    BY <2>1, <2>2, <2>3, ReaderSteps
<1> QED
  BY <1>1, <1>2, PTL DEF Spec

\* No wake-up is lost: while the lock is free, whoever sleeps waits for an
\* entry that is not processed yet.
THEOREM NobodySleeps == Spec => []NobodySleepsOver
<1>1. Init => Typed /\ NobodySleepsOver
  BY TypedInit DEF Init, NobodySleepsOver
<1>2. Typed /\ NobodySleepsOver /\ [Next]_vars => (Typed /\ NobodySleepsOver)'
  <2> SUFFICES ASSUME Typed, NobodySleepsOver, [Next]_vars,
                      NEW r \in Reader, reader'[r].at = "waiting", ~locked'
               PROVE  reader'[r].entry_id > Len(log_entry_op_result')
    BY TypedNext DEF NobodySleepsOver
  <2>1. CASE reader'[r] = reader[r]
    <3>1. ~Finish
      BY <2>1 DEF Finish, Notified, Typed, TypeOK, Call
    <3>2. ~locked /\ UNCHANGED log_entry_op_result
      BY <3>1 DEF Next, vars, store, Begin, HandleEntry, get_operation_result, WakeUp
    <3> QED
      BY <2>1, <3>2 DEF NobodySleepsOver
  <2>2. ASSUME NEW id \in Nat \ {0}, UNCHANGED log_entry_op_result,
               reader'[r] = IF IsThere(id)
                 THEN [at |-> "returned", entry_id |-> id, result |-> ResultOf(id)]
                 ELSE [at |-> "waiting", entry_id |-> id, result |-> None]
        PROVE  reader'[r].entry_id > Len(log_entry_op_result')
    BY <2>2 DEF IsThere
  <2>3. CASE reader'[r] = [reader[r] EXCEPT !.at = "notified"]
    BY <2>3 DEF Typed, TypeOK, Call
  <2> QED
    BY <2>1, <2>2, <2>3, ReaderSteps
<1> QED
  BY <1>1, <1>2, PTL DEF Spec
=============================================================================
