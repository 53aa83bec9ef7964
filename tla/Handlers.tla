------------------------------ MODULE Handlers ------------------------------
(***************************************************************************)
(* The operations of a log entry (raft.proto) and what the handlers of     *)
(* tasks/raft/state_machine.py do with them, one key at a time: a handler  *)
(* looks at the value of its key, or None if the dictionary has none,      *)
(* leaves a new one and appends a result.                                  *)
(***************************************************************************)
CONSTANTS Key, Value,
          None \* a key that is not in the dictionary; no value

ASSUME NoneAssumption == None \notin Value

\* The operations of a LogEntry; a cas has an expected value, too.
Operation ==
  [type : {"create", "update"}, key : Key, value : Value]
    \cup [type : {"read", "delete"}, key : Key]
    \cup [type : {"cas"}, key : Key, expectedValue : Value, newValue : Value]

\* An HTTP status, and the value that a read returns.  The wordings of the
\* errors follow from status and operation.
Result == [status : {"OK"}, value : Value \cup {None}]
            \cup [status : {"BAD_REQUEST", "NOT_FOUND"}, value : {None}]

\* What one handler does: the value of its key afterwards and its result.
Outcome(new, status, value) ==
  [new |-> new, result |-> [status |-> status, value |-> value]]

successful(new) == Outcome(new, "OK", None)

handle_create(o, old) ==
  IF old # None THEN Outcome(old, "BAD_REQUEST", None) ELSE successful(o.value)

handle_read(o, old) ==
  IF old # None THEN Outcome(old, "OK", old) ELSE Outcome(old, "NOT_FOUND", None)

handle_update(o, old) ==
  IF old # None THEN successful(o.value) ELSE Outcome(old, "NOT_FOUND", None)

\* Mutant of handle_cas: the value is set although it does not match.
handle_cas_SetsFirst(o, old) ==
  IF old = None THEN Outcome(old, "NOT_FOUND", None)
  ELSE IF old # o.expectedValue THEN Outcome(o.newValue, "BAD_REQUEST", None)
  ELSE successful(o.newValue)

\* Mutant of handle_cas: the error carries the value that did not match.
handle_cas_Tells(o, old) ==
  IF old = None THEN Outcome(old, "NOT_FOUND", None)
  ELSE IF old # o.expectedValue THEN Outcome(old, "BAD_REQUEST", old)
  ELSE successful(o.newValue)

handle_cas(o, old) ==
  IF old = None THEN Outcome(old, "NOT_FOUND", None)
  ELSE IF old # o.expectedValue THEN Outcome(old, "BAD_REQUEST", None)
  ELSE successful(o.newValue)

handle_delete(o, old) ==
  IF old # None THEN successful(None) ELSE Outcome(old, "NOT_FOUND", None)

\* self.handlers, by entry.WhichOneof("operation")
handler(o, old) ==
  CASE o.type = "create" -> handle_create(o, old)
    [] o.type = "read"   -> handle_read(o, old)
    [] o.type = "update" -> handle_update(o, old)
    [] o.type = "cas"    -> handle_cas(o, old)
    [] o.type = "delete" -> handle_delete(o, old)

=============================================================================
