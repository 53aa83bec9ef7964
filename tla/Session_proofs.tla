---------------------------- MODULE Session_proofs ----------------------------
(***************************************************************************)
(* Theorems about Session, for any nodes, clients, operations and bounds:  *)
(* what a call returns is a result of the state machine, comes after       *)
(* everything answered before the call, and is that of the call's own      *)
(* entry as long as the answering node stays in office; and what a call    *)
(* leaves in the log was paid for by failures and changes of office.       *)
(***************************************************************************)
EXTENDS Session, TLAPS, NaturalLemmas, SequenceTheorems, FiniteSetTheorems

-----------------------------------------------------------------------------
(* The invariant.                                                          *)

\* Some node has processed the log up to p: no change of office takes it back.
Reached(p) == p = 0 \/ \E n \in Node : applied[n] >= p

\* The entry at p is one of the call's.
EntryOf(p, call) == p \in DOMAIN log /\ log[p].call = call

LogInv == \A n \in Node : applied[n] <= Len(log)

\* A client waits for at most one thread, that of its call.
LiveInv ==
  /\ \A t \in threads : t.live =>
       LET s == client[t.client]
       IN s.at = "requesting" /\ s.call = t.call /\ s.op = t.op
  /\ \A t, u \in threads : t.live /\ u.live /\ t.client = u.client => t = u

\* An entry comes after everything that was answered before its call, and as
\* long as nobody else takes office it stays where its node has put it.
EntryInv ==
  \A t \in threads : t.at = "appended" =>
    /\ t.live /\ t.entry_id > 0
    /\ t.entry_id > client[t.client].since
    /\ t.office <= spent.elections
    /\ t.office = spent.elections => t.node = leader /\ EntryOf(t.entry_id, t.call)

\* s is a client's state.
CallInv(s) ==
  /\ Reached(s.since)
  /\ s.at # "idle" => s.op \in Operations /\ s.call \in CallId
  /\ s.at = "fetching" =>
       /\ s.node_id \in Node
       /\ s.operation_id > s.since /\ Reached(s.operation_id)
       /\ s.kept => EntryOf(s.operation_id, s.call)

\* a is an answer.
AnswerInv(a) ==
  /\ Reached(a.position) /\ a.position > a.since
  /\ a.kept => EntryOf(a.position, a.call)

SessionInv ==
  /\ TypeOK
  /\ LogInv /\ LiveInv /\ EntryInv
  /\ \A c \in Client : CallInv(client[c])
  /\ \A i \in DOMAIN finished : AnswerInv(finished[i])

-----------------------------------------------------------------------------
(* The dictionary after the first entries of the log.                      *)

\* The dictionary after entry i, when it was s before.
Processed(i, s) == [s EXCEPT ![log[i].op.key] = handler(log[i].op, @).new]

Empty == [k \in Key |-> None]
Dictionary == [Key -> Value \cup {None}]

\* g is the beginning of StoreAfter, up to n.
Beginning(g, n) ==
  /\ g[0] = Empty
  /\ \A i \in 1..n : g[i] = Processed(i, g[i - 1])

LEMMA BeginningExists ==
  ASSUME NEW n \in Nat PROVE \E g : Beginning(g, n)
<1>. DEFINE S == {m \in Nat : \E g : Beginning(g, m)}
<1>1. 0 \in S
  <2>. DEFINE g == [i \in {0} |-> Empty]
  <2>1. Beginning(g, 0)
    BY DEF Beginning
  <2>. QED  BY <2>1
<1>2. ASSUME NEW m \in Nat, m \in S PROVE m + 1 \in S
  <2>1. PICK g : Beginning(g, m)
    BY <1>2
  <2>. DEFINE h == [i \in 0..(m + 1) |-> IF i = m + 1 THEN Processed(i, g[m]) ELSE g[i]]
  <2>2. h[0] = Empty
    BY <2>1 DEF Beginning
  <2>3. ASSUME NEW i \in 1..(m + 1) PROVE h[i] = Processed(i, h[i - 1])
    <3>1. CASE i = m + 1
      <4>1. h[i] = Processed(i, g[m])
        BY <3>1
      <4>2. h[i - 1] = g[m]
        BY <3>1
      <4>. QED  BY <4>1, <4>2
    <3>2. CASE i # m + 1
      <4>1. i \in 1..m /\ i \in 0..(m + 1) /\ i - 1 \in 0..(m + 1) /\ i - 1 # m + 1
        BY <3>2
      <4>2. h[i] = g[i] /\ h[i - 1] = g[i - 1]
        BY <3>2, <4>1
      <4>. QED  BY <4>1, <4>2, <2>1 DEF Beginning
    <3>. QED  BY <3>1, <3>2
  <2>. HIDE DEF h
  <2>4. Beginning(h, m + 1)
    BY <2>2, <2>3 DEF Beginning
  <2>. QED  BY <2>4
<1>. HIDE DEF S
<1>3. Nat \subseteq S
  BY <1>1, <1>2, SetInduction
<1>. QED  BY <1>3 DEF S

LEMMA BeginningUnique ==
  ASSUME NEW g, NEW h, NEW m \in Nat, NEW n \in Nat, Beginning(g, m), Beginning(h, n)
  PROVE  \A i \in Nat : i <= m /\ i <= n => g[i] = h[i]
<1>. DEFINE S == {i \in Nat : i <= m /\ i <= n => g[i] = h[i]}
<1>1. 0 \in S
  BY DEF Beginning
<1>2. ASSUME NEW i \in Nat, i \in S PROVE i + 1 \in S
  <2>1. CASE i + 1 <= m /\ i + 1 <= n
    <3>1. g[i] = h[i]
      BY <1>2, <2>1
    <3>2. i + 1 \in 1..m /\ i + 1 \in 1..n /\ (i + 1) - 1 = i
      BY <2>1
    <3>3. g[i + 1] = Processed(i + 1, g[i]) /\ h[i + 1] = Processed(i + 1, h[i])
      BY <3>2 DEF Beginning
    <3>. QED  BY <3>1, <3>3
  <2>2. CASE ~(i + 1 <= m /\ i + 1 <= n)
    BY <2>2
  <2>. QED  BY <2>1, <2>2
<1>. HIDE DEF S
<1>3. Nat \subseteq S
  BY <1>1, <1>2, SetInduction
<1>. QED  BY <1>3 DEF S

\* StoreAfter obeys its equation.
LEMMA StoreAfterDef ==
  /\ StoreAfter[0] = Empty
  /\ \A i \in Nat \ {0} : StoreAfter[i] = Processed(i, StoreAfter[i - 1])
<1>. DEFINE G(n) == CHOOSE g : Beginning(g, n)
            f == [n \in Nat |-> G(n)[n]]
            Equation(s) ==
              s = [i \in Nat |-> IF i = 0 THEN Empty ELSE Processed(i, s[i - 1])]
<1>1. ASSUME NEW n \in Nat PROVE Beginning(G(n), n)
  BY BeginningExists
<1>. HIDE DEF G
<1>2. f[0] = Empty
  <2>1. f[0] = G(0)[0]
    OBVIOUS
  <2>. QED  BY <2>1, <1>1 DEF Beginning
<1>3. ASSUME NEW i \in Nat \ {0} PROVE f[i] = Processed(i, f[i - 1])
  <2>1. i - 1 \in Nat /\ i \in 1..i /\ i - 1 <= i
    OBVIOUS
  <2>2. G(i)[i] = Processed(i, G(i)[i - 1])
    BY <1>1, <2>1 DEF Beginning
  <2>3. G(i)[i - 1] = G(i - 1)[i - 1]
    BY <1>1, <2>1, BeginningUnique
  <2>4. f[i] = G(i)[i] /\ f[i - 1] = G(i - 1)[i - 1]
    BY <2>1
  <2>. QED  BY <2>2, <2>3, <2>4
<1>4. Equation(f)
  <2>. DEFINE e == [i \in Nat |-> IF i = 0 THEN Empty ELSE Processed(i, f[i - 1])]
  <2>1. \A i \in Nat : e[i] = f[i]
    <3>. HIDE DEF f
    <3>. QED  BY <1>2, <1>3
  <2>2. e = f
    BY <2>1
  <2>. QED  BY <2>2
<1>. HIDE DEF f
<1>5. StoreAfter = CHOOSE s : Equation(s)
  BY DEF StoreAfter, Processed, Empty
<1>6. Equation(StoreAfter)
  <2>. HIDE DEF Equation
  <2>. QED  BY <1>4, <1>5
<1>. HIDE DEF Equation
<1>7. /\ StoreAfter[0] = Empty
      /\ \A i \in Nat \ {0} : StoreAfter[i] = Processed(i, StoreAfter[i - 1])
  <2>. DEFINE e == [i \in Nat |-> IF i = 0 THEN Empty
                                  ELSE Processed(i, StoreAfter[i - 1])]
  <2>1. StoreAfter = e
    BY <1>6 DEF Equation
  <2>2. /\ e[0] = Empty
        /\ \A i \in Nat \ {0} : e[i] = Processed(i, StoreAfter[i - 1])
    OBVIOUS
  <2>. HIDE DEF e
  <2>. QED  BY <2>1, <2>2
<1>. QED  BY <1>7

LEMMA LogEntryType ==
  ASSUME log \in Seq(LogEntry), NEW p \in 1..Len(log)
  PROVE  log[p].op \in Operations /\ log[p].op \in Operation /\ log[p].call \in CallId
<1>1. log[p] \in LogEntry
  BY ElementOfSeq
<1>. QED  BY <1>1, SessionAssumption DEF LogEntry

LEMMA HandlerType ==
  ASSUME NEW o \in Operation, NEW old \in Value \cup {None}
  PROVE  /\ handler(o, old).new \in Value \cup {None}
         /\ handler(o, old).result \in Result
         /\ o.key \in Key
<1>1. CASE o.type = "create"
  BY <1>1 DEF handler, handle_create, Operation, Outcome, successful, Result
<1>2. CASE o.type = "read"
  BY <1>2 DEF handler, handle_read, Operation, Outcome, Result
<1>3. CASE o.type = "update"
  BY <1>3 DEF handler, handle_update, Operation, Outcome, successful, Result
<1>4. CASE o.type = "cas"
  BY <1>4 DEF handler, handle_cas, Operation, Outcome, successful, Result
<1>5. CASE o.type = "delete"
  BY <1>5 DEF handler, handle_delete, Operation, Outcome, successful, Result
<1>. QED  BY <1>1, <1>2, <1>3, <1>4, <1>5 DEF Operation

\* As far as the log goes, StoreAfter is a dictionary.
LEMMA StoreAfterType ==
  ASSUME log \in Seq(LogEntry)
  PROVE  \A i \in 0..Len(log) : StoreAfter[i] \in Dictionary
<1>. DEFINE S == {i \in Nat : i <= Len(log) => StoreAfter[i] \in Dictionary}
<1>1. 0 \in S
  BY StoreAfterDef DEF Empty, Dictionary
<1>2. ASSUME NEW i \in Nat, i \in S PROVE i + 1 \in S
  <2>. SUFFICES ASSUME i + 1 <= Len(log) PROVE StoreAfter[i + 1] \in Dictionary
    OBVIOUS
  <2>1. Len(log) \in Nat /\ i <= Len(log) /\ i + 1 \in 1..Len(log) /\ (i + 1) - 1 = i
    OBVIOUS
  <2>2. StoreAfter[i] \in Dictionary
    BY <1>2, <2>1
  <2>. DEFINE o == log[i + 1].op
              s == StoreAfter[i]
  <2>3. o \in Operation
    BY <2>1, LogEntryType
  <2>4. StoreAfter[i + 1] = Processed(i + 1, s)
    BY StoreAfterDef, <2>1
  <2>5. Processed(i + 1, s) = [s EXCEPT ![o.key] = handler(o, s[o.key]).new]
    BY DEF Processed
  <2>. HIDE DEF o, s
  <2>6. s \in Dictionary
    BY <2>2 DEF s
  <2>7. o.key \in Key
    BY <2>3, HandlerType, None \in Value \cup {None}
  <2>8. s[o.key] \in Value \cup {None}
    BY <2>6, <2>7 DEF Dictionary
  <2>9. handler(o, s[o.key]).new \in Value \cup {None}
    BY <2>3, <2>8, HandlerType
  <2>. QED  BY <2>4, <2>5, <2>6, <2>7, <2>9 DEF Dictionary
<1>. HIDE DEF S
<1>3. Nat \subseteq S
  BY <1>1, <1>2, SetInduction
<1>. QED  BY <1>3 DEF S

\* What a call returns is what a handler may append to the results.
LEMMA ResultAtType ==
  ASSUME log \in Seq(LogEntry), NEW p \in 1..Len(log)
  PROVE  ResultAt(p) \in Result
<1>. DEFINE o == log[p].op
            s == StoreAfter[p - 1]
<1>1. o \in Operation
  BY LogEntryType
<1>2. s \in Dictionary
  <2>1. p - 1 \in 0..Len(log)
    OBVIOUS
  <2>. QED  BY <2>1, StoreAfterType
<1>3. ResultAt(p) = handler(o, s[o.key]).result
  BY DEF ResultAt
<1>. HIDE DEF o, s
<1>4. o.key \in Key
  BY <1>1, HandlerType, None \in Value \cup {None}
<1>5. s[o.key] \in Value \cup {None}
  BY <1>2, <1>4 DEF Dictionary
<1>. QED  BY <1>1, <1>3, <1>5, HandlerType

-----------------------------------------------------------------------------
(* The cluster's steps.                                                    *)

LEMMA ReachedInLog ==
  ASSUME TypeOK, LogInv, NEW p \in Nat, Reached(p)
  PROVE  p <= Len(log)
<1>1. Len(log) \in Nat /\ \A n \in Node : applied[n] \in Nat
  BY DEF TypeOK
<1>. QED  BY <1>1 DEF Reached, LogInv

LEMMA CommittedIsGreatest ==
  ASSUME TypeOK, LogInv, Node # {}
  PROVE  /\ Committed \in Nat /\ Committed <= Len(log)
         /\ \A n \in Node : applied[n] <= Committed
<1>. DEFINE T == {applied[n] : n \in Node}
<1>1. T \subseteq Nat /\ T # {} /\ Len(log) \in Nat /\ \A x \in T : x <= Len(log)
  BY DEF TypeOK, LogInv
<1>2. \E x \in T : \A y \in T : y <= x
  <2>. HIDE DEF T
  <2>. QED  BY <1>1, GreatestNatural
<1>3. Committed \in T /\ \A n \in Node : applied[n] <= Committed
  BY <1>2 DEF Committed
<1>. QED  BY <1>1, <1>3

\* Whatever was answered before, some node has processed.
LEMMA AcknowledgedIsReached ==
  ASSUME SessionInv
  PROVE  Acknowledged \in Nat /\ Reached(Acknowledged)
<1>. DEFINE T == {finished[i].position : i \in DOMAIN finished} \cup {0}
<1>1. ASSUME NEW i \in DOMAIN finished
      PROVE  finished[i].position \in Nat /\ Reached(finished[i].position)
  <2>1. finished[i] \in Answer
    BY DEF SessionInv, TypeOK
  <2>. QED  BY <2>1 DEF Answer, SessionInv, AnswerInv
<1>2. Len(log) \in Nat
  BY DEF SessionInv, TypeOK
<1>3. T \subseteq Nat /\ T # {} /\ \A x \in T : Reached(x)
  BY <1>1 DEF Reached
<1>. HIDE DEF T
<1>4. \A x \in T : x <= Len(log)
  BY <1>3, ReachedInLog DEF SessionInv
<1>5. \E x \in T : \A y \in T : y <= x
  BY <1>2, <1>3, <1>4, GreatestNatural
<1>6. Acknowledged \in T
  BY <1>5 DEF Acknowledged, T
<1>. QED  BY <1>3, <1>6

\* What no step takes back.
Stays ==
  \A p \in Nat : Reached(p) =>
    Reached(p)' /\ \A call : EntryOf(p, call) => EntryOf(p, call)'

\* As long as nobody else takes office, the log is only appended to.
SameOffice ==
  /\ leader' = leader /\ spent'.elections = spent.elections
  /\ \A p \in Nat : \A call : EntryOf(p, call) => EntryOf(p, call)'

ClusterType ==
  /\ log \in Seq(LogEntry)
  /\ applied \in [Node -> Nat]
  /\ leader \in Node \cup {None}
  /\ current_leader \in [Node -> Node \cup {None}]

\* A step of applied, the log staying as it is.
LEMMA AppliedGrows ==
  ASSUME SessionInv, NEW n \in Node, NEW i \in Nat, applied[n] <= i, i <= Len(log),
         applied' = [applied EXCEPT ![n] = i], UNCHANGED <<log, leader>>,
         spent'.elections = spent.elections
  PROVE  applied' \in [Node -> Nat] /\ LogInv' /\ Stays /\ SameOffice
<1>1. applied \in [Node -> Nat]
  BY DEF SessionInv, TypeOK
<1>2. \A m \in Node : applied'[m] = IF m = n THEN i ELSE applied[m]
  BY <1>1
<1>3. \A p \in Nat : Reached(p) => Reached(p)'
  BY <1>1, <1>2 DEF Reached
<1>4. LogInv'
  BY <1>2 DEF SessionInv, LogInv
<1>5. \A p, call : EntryOf(p, call) => EntryOf(p, call)'
  BY DEF EntryOf
<1>6. applied' \in [Node -> Nat]
  BY <1>1
<1>. QED  BY <1>3, <1>4, <1>5, <1>6 DEF Stays, SameOffice

LEMMA ElectStep ==
  ASSUME SessionInv, NEW n \in Node, Elect(n)
  PROVE  ClusterType' /\ LogInv' /\ Stays /\ spent'.elections = spent.elections + 1
<1>1. /\ log \in Seq(LogEntry) /\ Len(log) \in Nat
      /\ applied \in [Node -> Nat]
      /\ spent \in [calls : Nat, failures : Nat, elections : Nat]
      /\ current_leader \in [Node -> Node \cup {None}]
  BY DEF SessionInv, TypeOK
<1>2. /\ Committed \in Nat /\ Committed <= Len(log)
      /\ \A m \in Node : applied[m] <= Committed
  BY CommittedIsGreatest DEF SessionInv
<1>3. PICK i \in Committed..Len(log) : log' = SubSeq(log, 1, i)
  BY DEF Elect
<1>4. i \in Nat /\ Committed <= i /\ i <= Len(log)
  BY <1>1, <1>2
<1>5. \A j \in 1..i : log[j] \in LogEntry
  <2>1. \A j \in 1..i : j \in 1..Len(log)
    BY <1>1, <1>4
  <2>. QED  BY <2>1, <1>1, ElementOfSeq
<1>6. /\ log' \in Seq(LogEntry) /\ Len(log') = i
      /\ \A j \in 1..i : log'[j] = log[j]
  <2>1. 1 \in 1..(i + 1) /\ i \in 0..i
    BY <1>4
  <2>2. /\ SubSeq(log, 1, i) \in Seq(LogEntry)
        /\ Len(SubSeq(log, 1, i)) = IF 1 <= i THEN i - 1 + 1 ELSE 0
        /\ \A j \in 1..(i - 1 + 1) : SubSeq(log, 1, i)[j] = log[1 + j - 1]
    BY <2>1, <1>5, <1>1, <1>4, SubSeqProperties
  <2>. QED  BY <2>2, <1>3, <1>4
<1>7. applied' = applied /\ leader' = n
  BY DEF Elect
<1>8. LogInv'
  BY <1>1, <1>2, <1>4, <1>6, <1>7 DEF LogInv
<1>9. Stays
  <2>. SUFFICES ASSUME NEW p \in Nat, Reached(p)
                PROVE  Reached(p)' /\ \A call : EntryOf(p, call) => EntryOf(p, call)'
    BY DEF Stays
  <2>1. Reached(p)'
    BY <1>7 DEF Reached
  <2>2. p <= i
    BY <1>1, <1>2, <1>4 DEF Reached
  <2>3. ASSUME NEW call, EntryOf(p, call) PROVE EntryOf(p, call)'
    <3>1. p \in 1..i /\ log[p].call = call
      BY <2>2, <2>3, <1>1 DEF EntryOf
    <3>. QED  BY <3>1, <1>6 DEF EntryOf
  <2>. QED  BY <2>1, <2>3
<1>10. current_leader' \in [Node -> Node \cup {None}]
  BY <1>1 DEF Elect
<1>11. spent'.elections = spent.elections + 1
  BY <1>1 DEF Elect
<1>. QED  BY <1>1, <1>6, <1>7, <1>8, <1>9, <1>10, <1>11 DEF ClusterType

LEMMA CommitStep ==
  ASSUME SessionInv, Commit
  PROVE  ClusterType' /\ LogInv' /\ Stays /\ SameOffice
<1>1. /\ leader \in Node /\ applied[leader] \in Nat /\ Len(log) \in Nat
      /\ UNCHANGED <<log, leader, current_leader, spent>>
  BY DEF SessionInv, TypeOK, Commit
<1>2. PICK i \in (applied[leader] + 1)..Len(log) :
        applied' = [applied EXCEPT ![leader] = i]
  BY DEF Commit
<1>3. i \in Nat /\ applied[leader] <= i /\ i <= Len(log)
  BY <1>1
<1>4. applied' \in [Node -> Nat] /\ LogInv' /\ Stays /\ SameOffice
  BY <1>1, <1>2, <1>3, AppliedGrows
<1>. QED  BY <1>1, <1>4 DEF SessionInv, TypeOK, ClusterType

LEMMA FollowStep ==
  ASSUME SessionInv, NEW n \in Node, Follow(n)
  PROVE  ClusterType' /\ LogInv' /\ Stays /\ SameOffice
<1>1. /\ leader \in Node /\ applied[leader] \in Nat /\ applied[n] \in Nat
      /\ Len(log) \in Nat /\ UNCHANGED <<log, leader, spent>>
      /\ applied[leader] <= Len(log)
      /\ current_leader' \in [Node -> Node \cup {None}]
      /\ applied[n] <= Len(log)
  BY DEF SessionInv, TypeOK, Follow, LogInv
<1>2. PICK i \in {applied[n]} \cup applied[n]..applied[leader] :
        applied' = [applied EXCEPT ![n] = i]
  BY DEF Follow
<1>3. i \in Nat /\ applied[n] <= i /\ i <= Len(log)
  BY <1>1
<1>4. applied' \in [Node -> Nat] /\ LogInv' /\ Stays /\ SameOffice
  BY <1>1, <1>2, <1>3, AppliedGrows
<1>. QED  BY <1>1, <1>4 DEF SessionInv, TypeOK, ClusterType

LEMMA AppendStep ==
  ASSUME SessionInv, NEW t \in threads, AppendEntry(t)
  PROVE  /\ ClusterType' /\ LogInv' /\ Stays /\ SameOffice
         /\ Len(log) + 1 \in DOMAIN log' /\ log'[Len(log) + 1].call = t.call
<1>. DEFINE e == [term |-> spent.elections, op |-> t.op, call |-> t.call]
<1>1. /\ log \in Seq(LogEntry) /\ Len(log) \in Nat
      /\ applied \in [Node -> Nat] /\ t \in Thread /\ spent.elections \in Nat
      /\ UNCHANGED <<applied, leader, current_leader, spent>>
  BY DEF SessionInv, TypeOK, AppendEntry
<1>2. e \in LogEntry
  BY <1>1 DEF Thread, LogEntry
<1>3. log' = Append(log, e)
  BY DEF AppendEntry
<1>4. e.call = t.call
  OBVIOUS
<1>. HIDE DEF e
<1>5. /\ log' \in Seq(LogEntry) /\ Len(log') = Len(log) + 1
      /\ \A i \in 1..Len(log) : log'[i] = log[i]
      /\ log'[Len(log) + 1] = e
  BY <1>1, <1>2, <1>3, AppendProperties
<1>6. ClusterType'
  BY <1>1, <1>5 DEF SessionInv, TypeOK, ClusterType
<1>7. LogInv'
  BY <1>1, <1>5 DEF SessionInv, LogInv
<1>8. ASSUME NEW p \in Nat, NEW call, EntryOf(p, call) PROVE EntryOf(p, call)'
  BY <1>1, <1>5, <1>8 DEF EntryOf
<1>9. \A p \in Nat : Reached(p) => Reached(p)'
  BY <1>1 DEF Reached
<1>10. Len(log) + 1 \in DOMAIN log'
  BY <1>1, <1>5
<1>12. Stays
  BY <1>8, <1>9 DEF Stays
<1>13. SameOffice
  BY <1>1, <1>8 DEF SameOffice
<1>. QED  BY <1>4, <1>5, <1>6, <1>7, <1>10, <1>12, <1>13

\* All other steps leave the cluster alone.
LEMMA OtherStep ==
  ASSUME SessionInv, UNCHANGED cluster, spent'.elections = spent.elections
  PROVE  ClusterType' /\ LogInv' /\ Stays /\ SameOffice
BY DEF cluster, SessionInv, TypeOK, ClusterType, LogInv, Stays, SameOffice, Reached,
       EntryOf

-----------------------------------------------------------------------------
(* The steps of clients and threads.                                       *)

\* Whatever happens to the cluster, what is said of the calls stays true.
LEMMA CallStays ==
  ASSUME Stays, NEW s \in ClientState, CallInv(s)
  PROVE  CallInv(s)'
<1>1. s.since \in Nat /\ s.operation_id \in Nat
  BY DEF ClientState
<1>. QED  BY <1>1 DEF CallInv, Stays

LEMMA AnswerStays ==
  ASSUME Stays, NEW a \in Answer, AnswerInv(a)
  PROVE  AnswerInv(a)'
<1>1. a.position \in Nat
  BY DEF Answer
<1>. QED  BY <1>1 DEF AnswerInv, Stays

\* The threads that a request leaves as they were, or dead.
LEMMA RequestStep ==
  ASSUME SessionInv, Stays, SameOffice, UNCHANGED finished, spent'.failures \in Nat,
         NEW c \in Client, NEW s \in ClientState, CallInv(s), s.op \in Operations,
         s.call \in CallId, NEW n \in Node, NEW rest,
         \A t \in rest : \/ t \in threads /\ (t.live => t.client # c)
                         \/ \E u \in threads : /\ u.at = "arrived"
                                               /\ t = [u EXCEPT !.live = FALSE],
         Request(c, s, n, rest)
  PROVE  /\ threads' \subseteq Thread /\ client' \in [Client -> ClientState]
         /\ LiveInv' /\ EntryInv' /\ (\A d \in Client : CallInv(client[d]))'
<1>. DEFINE new == [client |-> c, call |-> s.call, op |-> s.op, node |-> n,
                    attempt |-> spent'.failures, at |-> "arrived",
                    entry_id |-> 0, office |-> 0, live |-> TRUE]
            z == [s EXCEPT !.at = "requesting", !.current_leader_address = n,
                           !.node_id = None, !.operation_id = 0, !.kept = FALSE]
<1>1. threads' = rest \cup {new} /\ client' = [client EXCEPT ![c] = z]
  BY DEF Request
<1>2. threads \subseteq Thread /\ client \in [Client -> ClientState]
  BY DEF SessionInv, TypeOK
<1>3. /\ new \in Thread /\ new.live /\ new.client = c /\ new.call = s.call
      /\ new.op = s.op /\ new.at = "arrived"
  BY DEF Thread
<1>4. /\ z \in ClientState /\ z.at = "requesting" /\ z.call = s.call /\ z.op = s.op
      /\ z.since = s.since
  BY DEF ClientState
<1>. HIDE DEF new, z
<1>5. ASSUME NEW t \in rest
      PROVE  /\ t \in Thread
             /\ t.live => t \in threads /\ t.client # c
             /\ t.at = "appended" => t \in threads
  <2>1. CASE t \in threads /\ (t.live => t.client # c)
    BY <1>2, <2>1
  <2>2. ASSUME NEW u \in threads, u.at = "arrived", t = [u EXCEPT !.live = FALSE]
        PROVE  t \in Thread /\ ~t.live /\ t.at = "arrived"
    BY <1>2, <2>2 DEF Thread
  <2>. QED  BY <2>1, <2>2
<1>6. threads' \subseteq Thread
  BY <1>1, <1>3, <1>5
<1>7. client' \in [Client -> ClientState]
  BY <1>1, <1>2, <1>4
<1>8. client'[c] = z /\ \A d \in Client \ {c} : client'[d] = client[d]
  BY <1>1, <1>2
<1>9. LiveInv'
  <2>1. ASSUME NEW t \in threads', t.live
        PROVE  /\ client'[t.client].at = "requesting"
               /\ client'[t.client].call = t.call /\ client'[t.client].op = t.op
    <3>1. CASE t = new
      BY <3>1, <1>3, <1>4, <1>8
    <3>2. CASE t \in rest
      <4>1. t \in threads /\ t.client # c /\ t.client \in Client
        BY <2>1, <3>2, <1>5 DEF Thread
      <4>2. client'[t.client] = client[t.client]
        BY <4>1, <1>8
      <4>. QED  BY <4>1, <4>2, <2>1 DEF SessionInv, LiveInv
    <3>. QED  BY <1>1, <3>1, <3>2
  <2>2. ASSUME NEW t \in threads', NEW u \in threads', t.live, u.live,
               t.client = u.client
        PROVE  t = u
    <3>1. t = new <=> t.client = c
      BY <1>1, <1>3, <1>5, <2>2
    <3>2. u = new <=> u.client = c
      BY <1>1, <1>3, <1>5, <2>2
    <3>3. CASE t \in rest /\ u \in rest
      <4>1. t \in threads /\ u \in threads
        BY <1>5, <2>2, <3>3
      <4>. QED  BY <4>1, <2>2 DEF SessionInv, LiveInv
    <3>. QED  BY <1>1, <2>2, <3>1, <3>2, <3>3
  <2>. QED  BY <2>1, <2>2 DEF LiveInv
<1>10. EntryInv'
  <2>. SUFFICES ASSUME NEW t \in threads', t.at = "appended"
                PROVE  /\ t.live /\ t.entry_id > 0
                       /\ t.entry_id > client'[t.client].since
                       /\ t.office <= spent'.elections
                       /\ t.office = spent'.elections =>
                            t.node = leader' /\ EntryOf(t.entry_id, t.call)'
    BY DEF EntryInv
  <2>1. t \in rest /\ t \in threads
    BY <1>1, <1>3, <1>5
  <2>2. /\ t.live /\ t.entry_id > 0 /\ t.entry_id > client[t.client].since
        /\ t.office <= spent.elections
        /\ t.office = spent.elections => t.node = leader /\ EntryOf(t.entry_id, t.call)
    BY <2>1 DEF SessionInv, EntryInv
  <2>3. t.client \in Client /\ t.client # c /\ t.entry_id \in Nat
    BY <2>1, <2>2, <1>2, <1>5 DEF Thread
  <2>4. client'[t.client] = client[t.client]
    BY <2>3, <1>8
  <2>. QED  BY <2>2, <2>3, <2>4 DEF SameOffice
<1>11. ASSUME NEW d \in Client PROVE CallInv(client[d])'
  <2>1. CASE d = c
    <3>1. CallInv(s)'
      BY CallStays
    <3>2. CallInv(z)'
      BY <3>1, <1>4 DEF CallInv
    <3>. QED  BY <2>1, <3>2, <1>8 DEF CallInv
  <2>2. CASE d # c
    <3>1. CallInv(client[d]) /\ client[d] \in ClientState /\ client'[d] = client[d]
      BY <2>2, <1>2, <1>8 DEF SessionInv
    <3>. DEFINE s1 == client[d]
    <3>2. CallInv(s1) /\ s1 \in ClientState
      BY <3>1
    <3>3. client'[d] = s1
      BY <3>1
    <3>. HIDE DEF s1
    <3>. QED  BY <3>2, <3>3, CallStays
  <2>. QED  BY <2>1, <2>2
<1>. QED  BY <1>6, <1>7, <1>9, <1>10, <1>11

\* The threads that an answer leaves.
LEMMA FewerThreads ==
  ASSUME SessionInv, Stays, SameOffice, NEW c \in Client, NEW s \in ClientState,
         client' = [client EXCEPT ![c] = s], CallInv(s)', threads' \subseteq threads,
         \A t \in threads' : t.live => t.client # c
  PROVE  /\ threads' \subseteq Thread /\ client' \in [Client -> ClientState]
         /\ LiveInv' /\ EntryInv' /\ (\A d \in Client : CallInv(client[d]))'
<1>1. threads \subseteq Thread /\ client \in [Client -> ClientState]
  BY DEF SessionInv, TypeOK
<1>2. client'[c] = s /\ \A d \in Client \ {c} : client'[d] = client[d]
  BY <1>1
<1>3. ASSUME NEW t \in threads', t.live
      PROVE  t \in threads /\ t.client \in Client /\ client'[t.client] = client[t.client]
  BY <1>1, <1>2, <1>3 DEF Thread
<1>4. LiveInv'
  <2>1. ASSUME NEW t \in threads', t.live
        PROVE  /\ client'[t.client].at = "requesting"
               /\ client'[t.client].call = t.call /\ client'[t.client].op = t.op
    BY <1>3, <2>1 DEF SessionInv, LiveInv
  <2>2. ASSUME NEW t \in threads', NEW u \in threads', t.live, u.live,
               t.client = u.client
        PROVE  t = u
    BY <1>3, <2>2 DEF SessionInv, LiveInv
  <2>. QED  BY <2>1, <2>2 DEF LiveInv
<1>5. EntryInv'
  <2>. SUFFICES ASSUME NEW t \in threads', t.at = "appended"
                PROVE  /\ t.live /\ t.entry_id > 0
                       /\ t.entry_id > client'[t.client].since
                       /\ t.office <= spent'.elections
                       /\ t.office = spent'.elections =>
                            t.node = leader' /\ EntryOf(t.entry_id, t.call)'
    BY DEF EntryInv
  <2>1. /\ t.live /\ t.entry_id > 0 /\ t.office <= spent.elections
        /\ t.entry_id > client[t.client].since
        /\ t.office = spent.elections => t.node = leader /\ EntryOf(t.entry_id, t.call)
    BY DEF SessionInv, EntryInv
  <2>2. t.entry_id > client'[t.client].since
    BY <1>3, <2>1
  <2>3. t.entry_id \in Nat
    BY <1>1 DEF Thread
  <2>. QED  BY <2>1, <2>2, <2>3 DEF SameOffice
<1>6. ASSUME NEW d \in Client PROVE CallInv(client[d])'
  <2>1. CASE d = c
    BY <2>1, <1>2 DEF CallInv
  <2>2. CASE d # c
    <3>. DEFINE s1 == client[d]
    <3>1. CallInv(s1) /\ s1 \in ClientState /\ client'[d] = s1
      BY <2>2, <1>1, <1>2 DEF SessionInv
    <3>. HIDE DEF s1
    <3>. QED  BY <3>1, CallStays DEF CallInv
  <2>. QED  BY <2>1, <2>2
<1>. QED  BY <1>1, <1>2, <1>4, <1>5, <1>6

\* The answers given before.
LEMMA AnswersStay ==
  ASSUME SessionInv, Stays, UNCHANGED finished
  PROVE  finished' \in Seq(Answer) /\ (\A i \in DOMAIN finished : AnswerInv(finished[i]))'
<1>1. finished \in Seq(Answer)
  BY DEF SessionInv, TypeOK
<1>2. ASSUME NEW i \in DOMAIN finished PROVE AnswerInv(finished[i])'
  <2>. DEFINE a == finished[i]
  <2>1. a \in Answer /\ AnswerInv(a) /\ finished'[i] = a
    BY <1>1 DEF SessionInv
  <2>. HIDE DEF a
  <2>. QED  BY <2>1, AnswerStays DEF AnswerInv
<1>. QED  BY <1>1, <1>2

LEMMA ReturnStep ==
  ASSUME SessionInv, UNCHANGED <<cluster, spent>>, NEW c \in Client,
         client[c].at # "idle", NEW p \in Nat, NEW kept \in BOOLEAN,
         Return(c, p, kept), Reached(p), p > client[c].since,
         kept => EntryOf(p, client[c].call),
         threads' \subseteq threads, \A t \in threads' : t.live => t.client # c
  PROVE  SessionInv'
<1>. DEFINE s == client[c]
            a == [call |-> s.call, op |-> s.op, result |-> ResultAt(p),
                  since |-> s.since, position |-> p, kept |-> kept]
<1>1. /\ s \in ClientState /\ CallInv(s) /\ finished \in Seq(Answer)
      /\ log \in Seq(LogEntry)
      /\ client \in [Client -> ClientState]
  BY DEF SessionInv, TypeOK
<1>2. s.at # "idle" /\ p > s.since /\ (kept => EntryOf(p, s.call))
  OBVIOUS
<1>3. client' = [client EXCEPT ![c] = Idle(s.call, s.current_leader_address)]
  BY <1>1 DEF Return
<1>4. finished' = Append(finished, a)
  BY DEF Return
<1>. HIDE DEF s
<1>5. ClusterType' /\ LogInv' /\ Stays /\ SameOffice
  <2>1. UNCHANGED cluster /\ spent'.elections = spent.elections
    OBVIOUS
  <2>. QED  BY <2>1, OtherStep
<1>6. s.since \in Nat /\ s.op \in Operations /\ s.call \in CallId
  BY <1>1, <1>2 DEF ClientState, CallInv
<1>7. p \in 1..Len(log)
  <2>1. p <= Len(log)
    BY ReachedInLog DEF SessionInv
  <2>. QED  BY <2>1, <1>1, <1>2, <1>6
<1>8. ResultAt(p) \in Result
  BY <1>1, <1>7, ResultAtType
<1>9. a \in Answer
  BY <1>6, <1>7, <1>8 DEF Answer
<1>10. AnswerInv(a)
  BY <1>2 DEF AnswerInv
<1>11. PICK z \in ClientState : z.at = "idle" /\ z.since = 0
                             /\ client' = [client EXCEPT ![c] = z]
  BY <1>1, <1>3 DEF Idle, ClientState
<1>12. CallInv(z)'
  BY <1>11 DEF CallInv, Reached
<1>. HIDE DEF a
<1>13. /\ threads' \subseteq Thread /\ client' \in [Client -> ClientState]
       /\ LiveInv' /\ EntryInv' /\ (\A d \in Client : CallInv(client[d]))'
  BY <1>5, <1>11, <1>12, FewerThreads
<1>14. /\ finished' \in Seq(Answer) /\ Len(finished') = Len(finished) + 1
       /\ \A i \in 1..Len(finished) : finished'[i] = finished[i]
       /\ finished'[Len(finished) + 1] = a
  BY <1>1, <1>4, <1>9, AppendProperties
<1>15. ASSUME NEW i \in DOMAIN finished' PROVE AnswerInv(finished[i])'
  <2>1. Len(finished) \in Nat /\ i \in 1..(Len(finished) + 1)
    BY <1>1, <1>14
  <2>2. finished'[i] \in Answer /\ AnswerInv(finished'[i])
    <3>1. CASE i = Len(finished) + 1
      BY <3>1, <1>9, <1>10, <1>14
    <3>2. CASE i \in 1..Len(finished)
      <4>1. finished'[i] = finished[i] /\ i \in DOMAIN finished
        BY <3>2, <1>1, <1>14
      <4>2. AnswerInv(finished[i]) /\ finished[i] \in Answer
        BY <4>1, <1>1 DEF SessionInv
      <4>. QED  BY <4>1, <4>2
    <3>. QED  BY <2>1, <3>1, <3>2
  <2>3. PICK b \in Answer : b = finished'[i] /\ AnswerInv(b)
    BY <2>2
  <2>4. AnswerInv(b)'
    BY <2>3, <1>5, AnswerStays
  <2>. QED  BY <2>3, <2>4 DEF AnswerInv
<1>16. TypeOK'
  BY <1>5, <1>13, <1>14 DEF SessionInv, TypeOK, ClusterType
<1>. QED  BY <1>5, <1>13, <1>15, <1>16 DEF SessionInv

-----------------------------------------------------------------------------
(* The invariant.                                                          *)

LEMMA SessionInvInit == Init => SessionInv
<1>. SUFFICES ASSUME Init PROVE SessionInv
  OBVIOUS
<1>1. TypeOK
  <2>1. log \in Seq(LogEntry) /\ finished \in Seq(Answer)
    BY DEF Init
  <2>2. \A n \in Node : Idle(0, n) \in ClientState
    BY DEF Idle, ClientState
  <2>3. client \in [Client -> ClientState]
    BY <2>2 DEF Init
  <2>. QED  BY <2>1, <2>3 DEF Init, TypeOK
<1>2. LogInv
  BY DEF Init, LogInv
<1>3. LiveInv /\ EntryInv
  BY DEF Init, LiveInv, EntryInv
<1>4. ASSUME NEW c \in Client PROVE CallInv(client[c])
  <2>1. PICK n \in Node : client[c] = Idle(0, n)
    BY DEF Init
  <2>. QED  BY <2>1 DEF Idle, CallInv, Reached
<1>5. DOMAIN finished = {}
  BY DEF Init
<1>. QED  BY <1>1, <1>2, <1>3, <1>4, <1>5 DEF SessionInv

\* A step of the cluster, or of a thread that nobody waits for.
LEMMA CallsStay ==
  ASSUME SessionInv, Stays, UNCHANGED client
  PROVE  client' \in [Client -> ClientState] /\ (\A c \in Client : CallInv(client[c]))'
<1>1. client \in [Client -> ClientState]
  BY DEF SessionInv, TypeOK
<1>2. ASSUME NEW c \in Client PROVE CallInv(client[c])'
  <2>1. PICK s \in ClientState : s = client[c] /\ CallInv(s)
    BY <1>1 DEF SessionInv
  <2>2. CallInv(s)'
    BY <2>1, CallStays
  <2>. QED  BY <2>1, <2>2 DEF CallInv
<1>. QED  BY <1>1, <1>2

LEMMA ClusterInvStep ==
  ASSUME SessionInv, ClusterType', LogInv', Stays, UNCHANGED <<threads, client, finished>>,
         spent' \in [calls : Nat, failures : Nat, elections : Nat],
         SameOffice \/ spent'.elections = spent.elections + 1
  PROVE  SessionInv'
<1>1. threads \subseteq Thread /\ spent \in [calls : Nat, failures : Nat, elections : Nat]
  BY DEF SessionInv, TypeOK
<1>2. client' \in [Client -> ClientState] /\ (\A c \in Client : CallInv(client[c]))'
  BY CallsStay
<1>3. finished' \in Seq(Answer) /\ (\A i \in DOMAIN finished : AnswerInv(finished[i]))'
  BY AnswersStay
<1>4. LiveInv'
  BY DEF SessionInv, LiveInv
<1>5. EntryInv'
  <2>. SUFFICES ASSUME NEW t \in threads, t.at = "appended"
                PROVE  /\ t.live /\ t.entry_id > 0
                       /\ t.entry_id > client[t.client].since
                       /\ t.office <= spent'.elections
                       /\ t.office = spent'.elections =>
                            t.node = leader' /\ EntryOf(t.entry_id, t.call)'
    BY DEF EntryInv
  <2>1. /\ t.live /\ t.entry_id > 0
        /\ t.entry_id > client[t.client].since
        /\ t.office <= spent.elections
        /\ t.office = spent.elections => t.node = leader /\ EntryOf(t.entry_id, t.call)
    BY DEF SessionInv, EntryInv
  <2>2. t.entry_id \in Nat /\ t.office \in Nat /\ spent.elections \in Nat
    BY <1>1 DEF Thread
  <2>. QED  BY <2>1, <2>2 DEF SameOffice
<1>6. TypeOK'
  BY <1>1, <1>2, <1>3 DEF TypeOK, ClusterType
<1>. QED  BY <1>2, <1>3, <1>4, <1>5, <1>6 DEF SessionInv

\* A request of a call under way, by its client.
LEMMA RequestInvStep ==
  ASSUME SessionInv, UNCHANGED <<cluster, finished>>, spent'.elections = spent.elections,
         spent' \in [calls : Nat, failures : Nat, elections : Nat],
         NEW c \in Client, NEW s \in ClientState, CallInv(s), s.op \in Operations,
         s.call \in CallId, NEW n \in Node, NEW rest,
         \A t \in rest : \/ t \in threads /\ (t.live => t.client # c)
                         \/ \E u \in threads : /\ u.at = "arrived"
                                               /\ t = [u EXCEPT !.live = FALSE],
         Request(c, s, n, rest)
  PROVE  SessionInv'
<1>1. UNCHANGED finished
  OBVIOUS
<1>2. ClusterType' /\ LogInv' /\ Stays /\ SameOffice
  <2>1. UNCHANGED cluster
    OBVIOUS
  <2>. QED  BY <2>1, OtherStep
<1>3. /\ threads' \subseteq Thread /\ client' \in [Client -> ClientState]
      /\ LiveInv' /\ EntryInv' /\ (\A d \in Client : CallInv(client[d]))'
  <2>1. spent'.failures \in Nat
    OBVIOUS
  <2>. QED  BY <1>1, <1>2, <2>1, RequestStep
<1>4. finished' \in Seq(Answer) /\ (\A i \in DOMAIN finished : AnswerInv(finished[i]))'
  BY <1>1, <1>2, AnswersStay
<1>5. TypeOK'
  BY <1>2, <1>3, <1>4 DEF TypeOK, ClusterType
<1>. QED  BY <1>2, <1>3, <1>4, <1>5 DEF SessionInv

LEMMA CallInvStep ==
  ASSUME SessionInv, NEW c \in Client, NEW o \in Operations, Call(c, o)
  PROVE  SessionInv'
<1>1. /\ client[c] \in ClientState /\ threads \subseteq Thread
      /\ spent \in [calls : Nat, failures : Nat, elections : Nat]
      /\ MaxCalls \in Nat
  BY SessionAssumption DEF SessionInv, TypeOK
<1>2. PICK s : s = [client[c] EXCEPT !.call = spent.calls + 1, !.op = o,
                                     !.since = Acknowledged]
  OBVIOUS
<1>3. spent.calls + 1 \in CallId
  BY <1>1 DEF Call, CallId
<1>4. Acknowledged \in Nat /\ Reached(Acknowledged)
  BY AcknowledgedIsReached
<1>5. /\ s \in ClientState /\ s.call \in CallId /\ s.op = o /\ s.since = Acknowledged
      /\ s.at = "idle"
  BY <1>1, <1>2, <1>3, <1>4 DEF ClientState, Call
<1>6. CallInv(s)
  BY <1>3, <1>4, <1>5 DEF CallInv
<1>7. PICK n \in Node : n = client[c].current_leader_address
  BY <1>1 DEF ClientState
<1>8. Request(c, s, n, threads) /\ UNCHANGED <<cluster, finished>>
  BY <1>2, <1>7 DEF Call
<1>9. \A t \in threads : t.live => t.client # c
  BY DEF SessionInv, LiveInv, Call
<1>10. /\ spent' \in [calls : Nat, failures : Nat, elections : Nat]
       /\ spent'.elections = spent.elections
  BY <1>1 DEF Call
<1>. QED  BY <1>5, <1>6, <1>8, <1>9, <1>10, RequestInvStep

\* The client that waits for thread t, and its call.
LEMMA Waiting ==
  ASSUME SessionInv, NEW t \in threads, t.live
  PROVE  /\ t \in Thread /\ t.client \in Client /\ client[t.client] \in ClientState
         /\ CallInv(client[t.client])
         /\ client[t.client].op \in Operations /\ client[t.client].call \in CallId
         /\ client[t.client].at = "requesting"
         /\ client[t.client].op = t.op /\ client[t.client].call = t.call
         /\ \A u \in threads \ {t} : u.live => u.client # t.client
<1>1. t \in Thread /\ client \in [Client -> ClientState]
  BY DEF SessionInv, TypeOK
<1>2. t.client \in Client
  BY <1>1 DEF Thread
<1>3. /\ client[t.client] \in ClientState /\ CallInv(client[t.client])
  BY <1>1, <1>2 DEF SessionInv
<1>4. /\ client[t.client].at = "requesting"
      /\ client[t.client].op = t.op /\ client[t.client].call = t.call
      /\ \A u \in threads \ {t} : u.live => u.client # t.client
  BY DEF SessionInv, LiveInv
<1>5. t.op \in Operations /\ t.call \in CallId
  BY <1>1 DEF Thread
<1>. QED  BY <1>1, <1>2, <1>3, <1>4, <1>5

LEMMA FailInvStep ==
  ASSUME SessionInv, NEW t \in threads, Fail(t)
  PROVE  SessionInv'
<1>1. t.live /\ UNCHANGED <<cluster, finished>>
  BY DEF Fail
<1>2. PICK n \in Node, left \in {{}, {[t EXCEPT !.live = FALSE]}} :
        /\ t.at = "appended" => left = {}
        /\ Request(t.client, client[t.client], n, (threads \ {t}) \cup left)
  BY DEF Fail
<1>3. spent \in [calls : Nat, failures : Nat, elections : Nat]
  BY DEF SessionInv, TypeOK
<1>4. /\ spent' \in [calls : Nat, failures : Nat, elections : Nat]
      /\ spent'.elections = spent.elections
  BY <1>3 DEF Fail
<1>5. /\ t.client \in Client /\ client[t.client] \in ClientState
      /\ CallInv(client[t.client])
      /\ client[t.client].op \in Operations /\ client[t.client].call \in CallId
      /\ \A u \in threads \ {t} : u.live => u.client # t.client
  BY <1>1, Waiting
<1>6. \A u \in (threads \ {t}) \cup left :
        \/ u \in threads /\ (u.live => u.client # t.client)
        \/ \E v \in threads : v.at = "arrived" /\ u = [v EXCEPT !.live = FALSE]
  <2>1. t.at = "arrived" \/ left = {}
    <3>1. t \in Thread
      BY DEF SessionInv, TypeOK
    <3>. QED  BY <3>1, <1>2 DEF Thread
  <2>. QED  BY <2>1, <1>5
<1>7. PICK s \in ClientState, c \in Client : s = client[t.client] /\ c = t.client
  BY <1>5
<1>8. Request(c, s, n, (threads \ {t}) \cup left)
  BY <1>2, <1>7
<1>9. CallInv(s) /\ s.op \in Operations /\ s.call \in CallId
  BY <1>5, <1>7
<1>10. \A u \in (threads \ {t}) \cup left :
         \/ u \in threads /\ (u.live => u.client # c)
         \/ \E v \in threads : v.at = "arrived" /\ u = [v EXCEPT !.live = FALSE]
  BY <1>6, <1>7
<1>. QED  BY <1>1, <1>4, <1>8, <1>9, <1>10, RequestInvStep

LEMMA FetchFailsInvStep ==
  ASSUME SessionInv, NEW c \in Client, FetchFails(c)
  PROVE  SessionInv'
<1>1. /\ client[c] \in ClientState /\ CallInv(client[c])
      /\ spent \in [calls : Nat, failures : Nat, elections : Nat]
  BY DEF SessionInv, TypeOK
<1>2. PICK s \in ClientState, n \in Node :
        s = client[c] /\ n = client[c].current_leader_address
  BY <1>1 DEF ClientState
<1>3. s.at = "fetching" /\ Request(c, s, n, threads) /\ UNCHANGED <<cluster, finished>>
  BY <1>2 DEF FetchFails
<1>4. CallInv(s) /\ s.op \in Operations /\ s.call \in CallId
  BY <1>1, <1>2, <1>3 DEF CallInv
<1>5. \A t \in threads : t.live => t.client # c
  BY <1>2, <1>3 DEF SessionInv, LiveInv
<1>6. /\ spent' \in [calls : Nat, failures : Nat, elections : Nat]
      /\ spent'.elections = spent.elections
  BY <1>1 DEF FetchFails
<1>. QED  BY <1>3, <1>4, <1>5, <1>6, RequestInvStep

\* A thread that nobody waits for is gone.
LEMMA DeadThreadInvStep ==
  ASSUME SessionInv, NEW t \in threads, threads' = threads \ {t},
         UNCHANGED <<cluster, client, finished, spent>>
  PROVE  SessionInv'
<1>1. ClusterType' /\ LogInv' /\ Stays /\ SameOffice
  <2>1. UNCHANGED cluster /\ spent'.elections = spent.elections
    OBVIOUS
  <2>. QED  BY <2>1, OtherStep
<1>2. UNCHANGED client /\ UNCHANGED finished /\ UNCHANGED spent
  OBVIOUS
<1>3. client' \in [Client -> ClientState] /\ (\A c \in Client : CallInv(client[c]))'
  BY <1>1, <1>2, CallsStay
<1>4. finished' \in Seq(Answer) /\ (\A i \in DOMAIN finished : AnswerInv(finished[i]))'
  BY <1>1, <1>2, AnswersStay
<1>5. LiveInv'
  BY <1>2 DEF SessionInv, LiveInv
<1>6. EntryInv'
  BY <1>2 DEF SessionInv, EntryInv, cluster, EntryOf
<1>7. TypeOK'
  BY <1>1, <1>2, <1>3, <1>4 DEF SessionInv, TypeOK, ClusterType
<1>. QED  BY <1>1, <1>3, <1>4, <1>5, <1>6, <1>7 DEF SessionInv

LEMMA RedirectInvStep ==
  ASSUME SessionInv, NEW t \in threads, Redirect(t)
  PROVE  SessionInv'
<1>1. UNCHANGED <<cluster, finished, spent>>
  BY DEF Redirect
<1>2. CASE t.live
  <2>1. current_leader \in [Node -> Node \cup {None}] /\ t \in Thread
        /\ spent \in [calls : Nat, failures : Nat, elections : Nat]
    BY DEF SessionInv, TypeOK
  <2>2. RedirectTargets(t.node) \subseteq Node
    BY <2>1 DEF RedirectTargets, Thread
  <2>3. PICK n \in Node : Request(t.client, client[t.client], n, threads \ {t})
    BY <1>2, <2>2 DEF Redirect
  <2>4. /\ t.client \in Client /\ client[t.client] \in ClientState
        /\ CallInv(client[t.client])
        /\ client[t.client].op \in Operations /\ client[t.client].call \in CallId
        /\ \A u \in threads \ {t} : u.live => u.client # t.client
    BY <1>2, Waiting
  <2>5. PICK s \in ClientState, c \in Client : s = client[t.client] /\ c = t.client
    BY <2>4
  <2>6. /\ Request(c, s, n, threads \ {t})
        /\ CallInv(s) /\ s.op \in Operations /\ s.call \in CallId
        /\ \A u \in threads \ {t} : u \in threads /\ (u.live => u.client # c)
    BY <2>3, <2>4, <2>5
  <2>7. /\ UNCHANGED <<cluster, finished>> /\ spent'.elections = spent.elections
        /\ spent' \in [calls : Nat, failures : Nat, elections : Nat]
    BY <1>1, <2>1
  <2>. QED  BY <2>6, <2>7, RequestInvStep
<1>3. CASE ~t.live
  <2>1. threads' = threads \ {t} /\ UNCHANGED <<cluster, client, finished, spent>>
    BY <1>1, <1>3 DEF Redirect
  <2>. QED  BY <2>1, DeadThreadInvStep
<1>. QED  BY <1>2, <1>3

LEMMA AppendInvStep ==
  ASSUME SessionInv, NEW t \in threads, AppendEntry(t)
  PROVE  SessionInv'
<1>1. /\ t \in Thread /\ threads \subseteq Thread /\ Len(log) \in Nat
      /\ spent \in [calls : Nat, failures : Nat, elections : Nat]
  BY DEF SessionInv, TypeOK
<1>2. /\ t.node = leader /\ UNCHANGED leader /\ UNCHANGED client /\ UNCHANGED finished
      /\ UNCHANGED spent
  BY DEF AppendEntry
<1>3. /\ ClusterType' /\ LogInv' /\ Stays /\ SameOffice
      /\ Len(log) + 1 \in DOMAIN log' /\ log'[Len(log) + 1].call = t.call
  BY AppendStep
<1>4. client' \in [Client -> ClientState] /\ (\A c \in Client : CallInv(client[c]))'
  BY <1>2, <1>3, CallsStay
<1>5. finished' \in Seq(Answer) /\ (\A i \in DOMAIN finished : AnswerInv(finished[i]))'
  BY <1>2, <1>3, AnswersStay
<1>6. PICK p \in Nat : p = Len(log) + 1
  BY <1>1
<1>7. EntryOf(p, t.call)'
  BY <1>3, <1>6 DEF EntryOf
<1>8. PICK v : v = [t EXCEPT !.at = "appended", !.entry_id = p, !.office = spent.elections]
  OBVIOUS
<1>9. threads' = (threads \ {t}) \cup (IF t.live THEN {v} ELSE {})
  BY <1>6, <1>8 DEF AppendEntry
<1>10. /\ v \in Thread /\ v.entry_id = p /\ v.office = spent.elections
       /\ v.client = t.client /\ v.call = t.call /\ v.op = t.op /\ v.live = t.live
       /\ v.node = t.node
  BY <1>1, <1>8 DEF Thread
<1>11. threads' \subseteq Thread
  BY <1>1, <1>9, <1>10
<1>12. LiveInv'
  <2>1. ASSUME NEW u \in threads', u.live
        PROVE  \E w \in threads : /\ w.live /\ w.client = u.client /\ w.op = u.op
                                  /\ w.call = u.call /\ (w = t <=> u = v)
                                  /\ (u # v => w = u)
    <3>1. CASE u = v
      BY <2>1, <3>1, <1>10
    <3>2. CASE u # v
      BY <2>1, <3>2, <1>9
    <3>. QED  BY <3>1, <3>2
  <2>2. ASSUME NEW u \in threads', u.live
        PROVE  /\ client'[u.client].at = "requesting"
               /\ client'[u.client].call = u.call /\ client'[u.client].op = u.op
    BY <2>1, <2>2, <1>2 DEF SessionInv, LiveInv
  <2>3. ASSUME NEW u \in threads', NEW w \in threads', u.live, w.live,
               u.client = w.client
        PROVE  u = w
    <3>1. PICK u0 \in threads : /\ u0.live /\ u0.client = u.client
                                /\ (u0 = t <=> u = v) /\ (u # v => u0 = u)
      BY <2>1, <2>3
    <3>2. PICK w0 \in threads : /\ w0.live /\ w0.client = w.client
                                /\ (w0 = t <=> w = v) /\ (w # v => w0 = w)
      BY <2>1, <2>3
    <3>3. u0 = w0
      BY <3>1, <3>2, <2>3 DEF SessionInv, LiveInv
    <3>. QED  BY <3>1, <3>2, <3>3
  <2>. QED  BY <2>2, <2>3 DEF LiveInv
<1>13. EntryInv'
  <2>. SUFFICES ASSUME NEW u \in threads', u.at = "appended"
                PROVE  /\ u.live /\ u.entry_id > 0
                       /\ u.entry_id > client'[u.client].since
                       /\ u.office <= spent'.elections
                       /\ u.office = spent'.elections =>
                            u.node = leader' /\ EntryOf(u.entry_id, u.call)'
    BY DEF EntryInv
  <2>0. u = v => t.live \/ u \in threads
    BY <1>9
  <2>1. CASE u = v /\ u \notin threads
    <3>1. u.live /\ u.entry_id > client'[u.client].since
      <4>1. t.live /\ u.live /\ u.client = t.client /\ u.entry_id = p
        BY <2>1, <2>0, <1>10
      <4>2. PICK s \in ClientState : s = client[t.client] /\ CallInv(s)
        BY <4>1, Waiting
      <4>3. s.since \in Nat /\ Reached(s.since)
        BY <4>2 DEF ClientState, CallInv
      <4>4. s.since <= Len(log)
        BY <4>3, ReachedInLog DEF SessionInv
      <4>5. client'[u.client] = s
        BY <1>2, <4>1, <4>2
      <4>. QED  BY <4>1, <4>3, <4>4, <4>5, <1>1, <1>6
    <3>2. u.office = spent.elections /\ u.node = leader /\ u.entry_id = p /\ u.call = t.call
      BY <2>1, <1>2, <1>10
    <3>3. EntryOf(u.entry_id, u.call)'
      BY <3>2, <1>7
    <3>4. spent.elections \in Nat /\ p > 0
      BY <1>1, <1>6
    <3>. QED  BY <3>1, <3>2, <3>3, <3>4, <1>2
  <2>2. CASE u \in threads
    <3>1. /\ u.live /\ u.entry_id > 0
          /\ u.entry_id > client[u.client].since
          /\ u.office <= spent.elections
          /\ u.office = spent.elections => u.node = leader /\ EntryOf(u.entry_id, u.call)
      BY <2>2 DEF SessionInv, EntryInv
    <3>2. u.entry_id \in Nat
      BY <2>2, <1>1 DEF Thread
    <3>. QED  BY <3>1, <3>2, <1>2, <1>3 DEF SameOffice
  <2>. QED  BY <2>1, <2>2, <1>9
<1>14. TypeOK'
  BY <1>1, <1>2, <1>3, <1>4, <1>5, <1>11 DEF TypeOK, ClusterType
<1>. QED  BY <1>3, <1>4, <1>5, <1>12, <1>13, <1>14 DEF SessionInv

\* What a thread answers from: some node, its own, has processed its entry.
LEMMA AnsweredFrom ==
  ASSUME SessionInv, NEW t \in threads, Answers(t)
  PROVE  /\ t \in Thread /\ t.entry_id \in Nat /\ Reached(t.entry_id)
         /\ t.live /\ t.entry_id > client[t.client].since
         /\ t.office = spent.elections => EntryOf(t.entry_id, t.call)
<1>1. t \in Thread /\ t.entry_id \in Nat /\ t.node \in Node
  BY DEF SessionInv, TypeOK, Thread
<1>2. applied[t.node] >= t.entry_id /\ t.at = "appended"
  BY DEF Answers
<1>3. /\ t.live /\ t.entry_id > client[t.client].since
      /\ t.office = spent.elections => EntryOf(t.entry_id, t.call)
  BY <1>2 DEF SessionInv, EntryInv
<1>. QED  BY <1>1, <1>2, <1>3 DEF Reached

LEMMA AnsweredInvStep ==
  ASSUME SessionInv, NEW t \in threads, Answered(t)
  PROVE  SessionInv'
<1>1. Answers(t) /\ threads' = threads \ {t} /\ UNCHANGED cluster /\ UNCHANGED spent
  BY DEF Answered
<1>2. /\ t \in Thread /\ t.entry_id \in Nat /\ Reached(t.entry_id)
      /\ t.live /\ t.entry_id > client[t.client].since
      /\ t.office = spent.elections => EntryOf(t.entry_id, t.call)
  BY <1>1, AnsweredFrom
<1>3. CASE t.op.type = "read"
  <2>1. UNCHANGED finished
    BY <1>3 DEF Answered
  <2>2. PICK kept \in BOOLEAN : kept = (t.office = spent.elections)
    OBVIOUS
  <2>3. PICK n \in Node \ {leader} :
          client' = [client EXCEPT ![t.client] =
            [@ EXCEPT !.at = "fetching", !.node_id = n,
                      !.operation_id = t.entry_id, !.kept = kept]]
    BY <1>3, <2>2 DEF Answered
  <2>4. /\ t.client \in Client /\ client[t.client] \in ClientState
        /\ CallInv(client[t.client])
        /\ client[t.client].op \in Operations /\ client[t.client].call \in CallId
        /\ client[t.client].call = t.call
        /\ \A u \in threads \ {t} : u.live => u.client # t.client
    BY <1>2, Waiting
  <2>5. PICK c \in Client, s \in ClientState :
          /\ c = t.client /\ s = client[c] /\ CallInv(s) /\ s.op \in Operations
          /\ s.call \in CallId /\ s.call = t.call
    BY <2>4
  <2>6. PICK z : z = [s EXCEPT !.at = "fetching", !.node_id = n,
                               !.operation_id = t.entry_id, !.kept = kept]
    OBVIOUS
  <2>7. client' = [client EXCEPT ![c] = z]
    BY <2>3, <2>5, <2>6
  <2>8. /\ z \in ClientState /\ z.at = "fetching" /\ z.node_id = n /\ z.since = s.since
        /\ z.operation_id = t.entry_id /\ z.kept = kept /\ z.op = s.op
        /\ z.call = s.call
    BY <1>2, <2>6 DEF ClientState
  <2>9. CallInv(z)
    <3>1. Reached(z.since) /\ z.op \in Operations /\ z.call \in CallId
      BY <2>5, <2>8 DEF CallInv
    <3>2. z.operation_id > z.since /\ Reached(z.operation_id)
      BY <1>2, <1>3, <2>5, <2>8
    <3>3. z.kept => EntryOf(z.operation_id, z.call)
      BY <1>2, <2>2, <2>5, <2>8
    <3>. QED  BY <2>8, <3>1, <3>2, <3>3 DEF CallInv
  <2>10. ClusterType' /\ LogInv' /\ Stays /\ SameOffice
    BY <1>1, OtherStep
  <2>11. CallInv(z)'
    BY <2>8, <2>9, <2>10, CallStays
  <2>12. threads' \subseteq threads /\ \A u \in threads' : u.live => u.client # c
    BY <1>1, <2>4, <2>5
  <2>13. /\ threads' \subseteq Thread /\ client' \in [Client -> ClientState]
         /\ LiveInv' /\ EntryInv' /\ (\A d \in Client : CallInv(client[d]))'
    BY <2>7, <2>8, <2>10, <2>11, <2>12, FewerThreads
  <2>14. finished' \in Seq(Answer) /\ (\A i \in DOMAIN finished : AnswerInv(finished[i]))'
    BY <2>1, <2>10, AnswersStay
  <2>15. TypeOK'
    BY <1>1, <2>10, <2>13, <2>14 DEF SessionInv, TypeOK, ClusterType
  <2>. QED  BY <2>10, <2>13, <2>14, <2>15 DEF SessionInv
<1>4. CASE t.op.type # "read"
  <2>1. PICK kept \in BOOLEAN : kept = (t.office = spent.elections)
    OBVIOUS
  <2>2. Return(t.client, t.entry_id, kept)
    BY <1>4, <2>1 DEF Answered
  <2>3. /\ t.client \in Client /\ client[t.client].at # "idle"
        /\ client[t.client].call = t.call
        /\ \A u \in threads \ {t} : u.live => u.client # t.client
    BY <1>2, Waiting
  <2>4. PICK c \in Client, p \in Nat : c = t.client /\ p = t.entry_id
    BY <1>2, <2>3
  <2>5. /\ Return(c, p, kept) /\ Reached(p) /\ p > client[c].since
        /\ client[c].at # "idle" /\ (kept => EntryOf(p, client[c].call))
    BY <1>2, <1>4, <2>1, <2>2, <2>3, <2>4
  <2>6. threads' \subseteq threads /\ \A u \in threads' : u.live => u.client # c
    BY <1>1, <2>3, <2>4
  <2>7. UNCHANGED <<cluster, spent>>
    BY <1>1
  <2>. QED  BY <2>5, <2>6, <2>7, ReturnStep
<1>. QED  BY <1>3, <1>4

LEMMA FetchInvStep ==
  ASSUME SessionInv, NEW c \in Client, Fetch(c)
  PROVE  SessionInv'
<1>1. /\ client[c].at = "fetching" /\ UNCHANGED <<cluster, spent>>
      /\ threads' \subseteq threads
      /\ Return(c, client[c].operation_id, client[c].kept)
  BY DEF Fetch
<1>2. client[c] \in ClientState /\ CallInv(client[c])
  BY DEF SessionInv, TypeOK
<1>3. PICK p \in Nat, kept \in BOOLEAN : p = client[c].operation_id /\ kept = client[c].kept
  BY <1>2 DEF ClientState
<1>4. /\ Return(c, p, kept) /\ Reached(p) /\ p > client[c].since
      /\ client[c].at # "idle" /\ (kept => EntryOf(p, client[c].call))
  BY <1>1, <1>2, <1>3 DEF CallInv
<1>5. \A t \in threads' : t.live => t.client # c
  BY <1>1 DEF SessionInv, LiveInv
<1>. QED  BY <1>1, <1>4, <1>5, ReturnStep

LEMMA SessionInvNext == SessionInv /\ [Next]_vars => SessionInv'
<1>. SUFFICES ASSUME SessionInv, [Next]_vars PROVE SessionInv'
  OBVIOUS
<1>0. spent \in [calls : Nat, failures : Nat, elections : Nat]
  BY DEF SessionInv, TypeOK
<1>1. ASSUME NEW n \in Node, Elect(n) PROVE SessionInv'
  <2>0. /\ UNCHANGED <<threads, client, finished>>
        /\ spent' = [spent EXCEPT !.elections = @ + 1]
    BY <1>1 DEF Elect
  <2>1. /\ UNCHANGED <<threads, client, finished>>
        /\ spent' \in [calls : Nat, failures : Nat, elections : Nat]
    BY <1>0, <2>0
  <2>. QED  BY <1>1, <2>1, ElectStep, ClusterInvStep
<1>2. ASSUME NEW n \in Node, Follow(n) PROVE SessionInv'
  <2>1. /\ UNCHANGED <<threads, client, finished>>
        /\ spent' \in [calls : Nat, failures : Nat, elections : Nat]
    BY <1>0, <1>2 DEF Follow
  <2>. QED  BY <1>2, <2>1, FollowStep, ClusterInvStep
<1>3. CASE Commit
  <2>1. /\ UNCHANGED <<threads, client, finished>>
        /\ spent' \in [calls : Nat, failures : Nat, elections : Nat]
    BY <1>0, <1>3 DEF Commit
  <2>. QED  BY <1>3, <2>1, CommitStep, ClusterInvStep
<1>4. CASE UNCHANGED vars
  <2>1. /\ UNCHANGED cluster /\ UNCHANGED <<threads, client, finished>>
        /\ spent' \in [calls : Nat, failures : Nat, elections : Nat]
        /\ spent'.elections = spent.elections
    BY <1>0, <1>4 DEF vars
  <2>. QED  BY <2>1, OtherStep, ClusterInvStep
<1>. QED  BY <1>1, <1>2, <1>3, <1>4, CallInvStep, FetchFailsInvStep, FetchInvStep,
             FailInvStep, RedirectInvStep, AppendInvStep, AnsweredInvStep DEF Next

LEMMA SessionInvHolds == Spec => []SessionInv
BY SessionInvInit, SessionInvNext, PTL DEF Spec

-----------------------------------------------------------------------------
(* The theorems.                                                           *)

\* Every variable keeps its type: so does what a call returns, which is a result
\* of the state machine at a position that is in the log.
THEOREM TypeCorrect == Spec => []TypeOK
<1>1. SessionInv => TypeOK
  BY DEF SessionInv
<1>. QED  BY <1>1, SessionInvHolds, PTL

\* Whatever was repeated, redirected or lost with an office in between, a call
\* sees every call that returned before it was made.
THEOREM SeesWhatReturned == Spec => []SeesAcknowledged
<1>1. SessionInv => SeesAcknowledged
  BY DEF SessionInv, AnswerInv, SeesAcknowledged
<1>. QED  BY <1>1, SessionInvHolds, PTL

\* A call gets the result of an entry of its own, which stays in the log, if the
\* node that answers has been in office since it appended it.
THEOREM OwnAnswers == Spec => []AnswersAreOwn
<1>1. SessionInv => AnswersAreOwn
  BY DEF SessionInv, AnswerInv, EntryOf, AnswersAreOwn
<1>. QED  BY <1>1, SessionInvHolds, PTL


-----------------------------------------------------------------------------
(* How often a call gets into the log.                                     *)

\* The entries of a call in log l, and those of the threads T that may still
\* append one.
Entries(l, call) == {i \in DOMAIN l : l[i].call = call}
Pending(T, call) == {t \in T : t.at = "arrived" /\ t.call = call}
Copies(l, T, call) == Cardinality(Entries(l, call)) + Cardinality(Pending(T, call))

\* Calls are numbered as they are made, and each is its client's.
NumberInv ==
  /\ \A c \in Client : client[c].call <= spent.calls
  /\ \A c, d \in Client :
       client[c].call = client[d].call /\ client[c].call # 0 => c = d

\* What a call has in the log, and may still get there, was paid for by changes
\* of office and failures: as long as its thread waits, by the changes of office
\* up to that in which the thread has appended its entry.
CountInv ==
  /\ \A call \in CallId : call > spent.calls => Copies(log, threads, call) = 0
  /\ \A call \in CallId :
       \/ Copies(log, threads, call) <= spent.failures + spent.elections
       \/ Copies(log, threads, call) <= spent.failures + 1
  /\ \A t \in threads : t.at = "appended" =>
       /\ Copies(log, threads, t.call) <= spent.failures + t.office
       /\ t.office = spent.elections => log[t.entry_id].term = t.office

CopyInv ==
  /\ IsFiniteSet(threads)
  /\ spent.elections = 0 => leader = None /\ log = <<>>
  /\ NumberInv /\ CountInv

LEMMA AddOne ==
  ASSUME NEW S, IsFiniteSet(S), NEW x, NEW T, T \subseteq S \cup {x}
  PROVE  IsFiniteSet(T) /\ Cardinality(T) <= Cardinality(S) + 1
<1>1. /\ IsFiniteSet(S \cup {x}) /\ Cardinality(S) \in Nat
      /\ Cardinality(S \cup {x}) = IF x \in S THEN Cardinality(S) ELSE Cardinality(S) + 1
  BY FS_AddElement, FS_CardinalityType
<1>2. /\ IsFiniteSet(T) /\ Cardinality(T) \in Nat
      /\ Cardinality(T) <= Cardinality(S \cup {x})
  BY <1>1, FS_Subset, FS_CardinalityType
<1>. QED  BY <1>1, <1>2

LEMMA SwapOne ==
  ASSUME NEW S, IsFiniteSet(S), NEW t \in S, NEW x, NEW T, T \subseteq (S \ {t}) \cup {x}
  PROVE  IsFiniteSet(T) /\ Cardinality(T) <= Cardinality(S)
<1>1. /\ IsFiniteSet(S \ {t}) /\ Cardinality(S) \in Nat
      /\ Cardinality(S \ {t}) = Cardinality(S) - 1
  BY FS_RemoveElement, FS_CardinalityType
<1>2. IsFiniteSet(T) /\ Cardinality(T) <= Cardinality(S \ {t}) + 1
  BY <1>1, AddOne
<1>3. Cardinality(T) \in Nat
  BY <1>2, FS_CardinalityType
<1>. QED  BY <1>1, <1>2, <1>3

LEMMA CopiesType ==
  ASSUME NEW l \in Seq(LogEntry), NEW T, IsFiniteSet(T), NEW call
  PROVE  /\ IsFiniteSet(Entries(l, call)) /\ IsFiniteSet(Pending(T, call))
         /\ Cardinality(Entries(l, call)) \in Nat /\ Cardinality(Pending(T, call)) \in Nat
         /\ Copies(l, T, call) \in Nat
<1>1. Entries(l, call) \subseteq 1..Len(l) /\ Len(l) \in Int /\ 1 \in Int
  BY DEF Entries
<1>2. IsFiniteSet(1..Len(l))
  BY <1>1, FS_Interval
<1>3. IsFiniteSet(Entries(l, call))
  BY <1>1, <1>2, FS_Subset
<1>4. Pending(T, call) \subseteq T
  BY DEF Pending
<1>5. IsFiniteSet(Pending(T, call))
  BY <1>4, FS_Subset
<1>6. Cardinality(Entries(l, call)) \in Nat /\ Cardinality(Pending(T, call)) \in Nat
  BY <1>3, <1>5, FS_CardinalityType
<1>. QED  BY <1>3, <1>5, <1>6 DEF Copies

\* From log l and threads T to m and U only the call made gets a copy more.
Grows(l, T, m, U, made) ==
  \A call \in CallId :
    /\ Copies(m, U, call) \in Nat
    /\ Copies(m, U, call) <= Copies(l, T, call) + (IF call = made THEN 1 ELSE 0)

LEMMA GrowsIf ==
  ASSUME NEW l \in Seq(LogEntry), NEW T, IsFiniteSet(T), NEW m, NEW U,
         \A call \in CallId : /\ Copies(m, U, call) \in Nat
                              /\ Copies(m, U, call) <= Copies(l, T, call)
  PROVE  Grows(l, T, m, U, 0)
<1>1. \A call \in CallId : Copies(l, T, call) \in Nat
  BY CopiesType
<1>. QED  BY <1>1 DEF Grows

\* Fewer entries and fewer requests.
LEMMA GrowsLess ==
  ASSUME NEW l \in Seq(LogEntry), NEW T, IsFiniteSet(T), NEW m \in Seq(LogEntry),
         NEW U, U \subseteq T, Len(m) <= Len(l),
         \A j \in 1..Len(m) : m[j] = l[j]
  PROVE  IsFiniteSet(U) /\ Grows(l, T, m, U, 0)
<1>1. IsFiniteSet(U)
  BY FS_Subset
<1>. SUFFICES ASSUME NEW call \in CallId
              PROVE  /\ Copies(m, U, call) \in Nat
                     /\ Copies(m, U, call) <= Copies(l, T, call)
  BY <1>1, GrowsIf
<1>2. Entries(m, call) \subseteq Entries(l, call) /\ Pending(U, call) \subseteq Pending(T, call)
  <2>1. Len(m) \in Nat /\ Len(l) \in Nat /\ DOMAIN m = 1..Len(m) /\ DOMAIN l = 1..Len(l)
    OBVIOUS
  <2>. QED  BY <2>1 DEF Entries, Pending
<1>3. /\ IsFiniteSet(Entries(l, call)) /\ IsFiniteSet(Pending(T, call))
      /\ Cardinality(Entries(l, call)) \in Nat /\ Cardinality(Pending(T, call)) \in Nat
      /\ Cardinality(Entries(m, call)) \in Nat /\ Cardinality(Pending(U, call)) \in Nat
      /\ Copies(m, U, call) \in Nat
  BY <1>1, CopiesType
<1>4. /\ Cardinality(Entries(m, call)) <= Cardinality(Entries(l, call))
      /\ Cardinality(Pending(U, call)) <= Cardinality(Pending(T, call))
  BY <1>2, <1>3, FS_Subset
<1>. QED  BY <1>3, <1>4 DEF Copies

\* The same log, and a request more.
LEMMA GrowsRequest ==
  ASSUME NEW l \in Seq(LogEntry), NEW T, IsFiniteSet(T), NEW new, NEW U, U \subseteq T \cup {new}
  PROVE  IsFiniteSet(U) /\ Grows(l, T, l, U, new.call)
<1>1. IsFiniteSet(U)
  BY AddOne
<1>. SUFFICES ASSUME NEW call \in CallId
              PROVE  /\ Copies(l, U, call) \in Nat
                     /\ Copies(l, U, call)
                          <= Copies(l, T, call) + (IF call = new.call THEN 1 ELSE 0)
  BY <1>1 DEF Grows
<1>2. /\ IsFiniteSet(Pending(T, call)) /\ Cardinality(Entries(l, call)) \in Nat
      /\ Cardinality(Pending(T, call)) \in Nat /\ Cardinality(Pending(U, call)) \in Nat
      /\ Copies(l, U, call) \in Nat
  BY <1>1, CopiesType
<1>3. CASE call = new.call
  <2>1. Pending(U, call) \subseteq Pending(T, call) \cup {new}
    BY DEF Pending
  <2>2. Cardinality(Pending(U, call)) <= Cardinality(Pending(T, call)) + 1
    BY <1>2, <2>1, AddOne
  <2>. QED  BY <1>2, <1>3, <2>2 DEF Copies
<1>4. CASE call # new.call
  <2>1. Pending(U, call) \subseteq Pending(T, call)
    BY <1>4 DEF Pending
  <2>2. Cardinality(Pending(U, call)) <= Cardinality(Pending(T, call))
    BY <1>2, <2>1, FS_Subset
  <2>. QED  BY <1>2, <1>4, <2>2 DEF Copies
<1>. QED  BY <1>3, <1>4

\* The same log, and a request in the place of another of its call.
LEMMA GrowsNot ==
  ASSUME NEW l \in Seq(LogEntry), NEW T, IsFiniteSet(T), NEW t \in T, t.at = "arrived",
         NEW new, new.call = t.call, NEW U, U \subseteq (T \ {t}) \cup {new}
  PROVE  IsFiniteSet(U) /\ Grows(l, T, l, U, 0)
<1>1. IsFiniteSet(U)
  BY SwapOne
<1>. SUFFICES ASSUME NEW call \in CallId
              PROVE  /\ Copies(l, U, call) \in Nat
                     /\ Copies(l, U, call) <= Copies(l, T, call)
  BY <1>1, GrowsIf
<1>2. /\ IsFiniteSet(Pending(T, call)) /\ Cardinality(Entries(l, call)) \in Nat
      /\ Cardinality(Pending(T, call)) \in Nat /\ Cardinality(Pending(U, call)) \in Nat
      /\ Copies(l, U, call) \in Nat
  BY <1>1, CopiesType
<1>3. CASE call = t.call
  <2>1. Pending(U, call) \subseteq (Pending(T, call) \ {t}) \cup {new}
    BY DEF Pending
  <2>2. t \in Pending(T, call)
    BY <1>3 DEF Pending
  <2>3. Cardinality(Pending(U, call)) <= Cardinality(Pending(T, call))
    BY <1>2, <2>1, <2>2, SwapOne
  <2>. QED  BY <1>2, <2>3 DEF Copies
<1>4. CASE call # t.call
  <2>1. Pending(U, call) \subseteq Pending(T, call)
    BY <1>4 DEF Pending
  <2>2. Cardinality(Pending(U, call)) <= Cardinality(Pending(T, call))
    BY <1>2, <2>1, FS_Subset
  <2>. QED  BY <1>2, <2>2 DEF Copies
<1>. QED  BY <1>3, <1>4

\* A request becomes an entry.
LEMMA GrowsEntry ==
  ASSUME NEW l \in Seq(LogEntry), NEW T, IsFiniteSet(T), NEW t \in T, t.at = "arrived",
         NEW e \in LogEntry, e.call = t.call,
         NEW U, NEW V, U = (T \ {t}) \cup V, IsFiniteSet(V), \A u \in V : u.at = "appended"
  PROVE  IsFiniteSet(U) /\ Grows(l, T, Append(l, e), U, 0)
<1>1. IsFiniteSet(U)
  <2>1. IsFiniteSet(T \ {t})
    BY FS_RemoveElement
  <2>. QED  BY <2>1, FS_Union
<1>. SUFFICES ASSUME NEW m, m = Append(l, e) PROVE Grows(l, T, m, U, 0)
  BY <1>1
<1>2. /\ m \in Seq(LogEntry) /\ Len(m) = Len(l) + 1 /\ Len(l) \in Nat
      /\ \A j \in 1..Len(l) : m[j] = l[j]
      /\ m[Len(l) + 1] = e
  BY AppendProperties
<1>. SUFFICES ASSUME NEW call \in CallId
              PROVE  /\ Copies(m, U, call) \in Nat
                     /\ Copies(m, U, call) <= Copies(l, T, call)
  BY GrowsIf
<1>3. /\ IsFiniteSet(Entries(l, call)) /\ IsFiniteSet(Pending(T, call))
      /\ Cardinality(Entries(l, call)) \in Nat /\ Cardinality(Pending(T, call)) \in Nat
      /\ Cardinality(Entries(m, call)) \in Nat /\ Cardinality(Pending(U, call)) \in Nat
      /\ Copies(m, U, call) \in Nat
  BY <1>1, <1>2, CopiesType
<1>4. DOMAIN l = 1..Len(l) /\ DOMAIN m = 1..(Len(l) + 1)
  BY <1>2
<1>5. CASE call = t.call
  <2>1. Entries(m, call) \subseteq Entries(l, call) \cup {Len(l) + 1}
    BY <1>2, <1>4 DEF Entries
  <2>2. Cardinality(Entries(m, call)) <= Cardinality(Entries(l, call)) + 1
    BY <1>3, <2>1, AddOne
  <2>3. Pending(U, call) \subseteq Pending(T, call) \ {t} /\ t \in Pending(T, call)
    BY <1>5 DEF Pending
  <2>4. /\ IsFiniteSet(Pending(T, call) \ {t})
        /\ Cardinality(Pending(T, call) \ {t}) = Cardinality(Pending(T, call)) - 1
    BY <1>3, <2>3, FS_RemoveElement
  <2>5. Cardinality(Pending(U, call)) <= Cardinality(Pending(T, call) \ {t})
    BY <2>3, <2>4, FS_Subset
  <2>. QED  BY <1>3, <2>2, <2>4, <2>5 DEF Copies
<1>6. CASE call # t.call
  <2>1. Entries(m, call) \subseteq Entries(l, call)
    BY <1>2, <1>4, <1>6 DEF Entries
  <2>2. Pending(U, call) \subseteq Pending(T, call)
    BY DEF Pending
  <2>3. /\ Cardinality(Entries(m, call)) <= Cardinality(Entries(l, call))
        /\ Cardinality(Pending(U, call)) <= Cardinality(Pending(T, call))
    BY <1>3, <2>1, <2>2, FS_Subset
  <2>. QED  BY <1>3, <2>3 DEF Copies
<1>. QED  BY <1>5, <1>6

LEMMA CopyInvBounds ==
  ASSUME SessionInv, CopyInv
  PROVE  CopiesAreBounded
<1>1. /\ log \in Seq(LogEntry) /\ IsFiniteSet(threads)
      /\ spent \in [calls : Nat, failures : Nat, elections : Nat]
  BY DEF SessionInv, TypeOK, CopyInv
<1>. SUFFICES ASSUME NEW call \in CallId
              PROVE  Cardinality(Entries(log, call)) <= spent.failures + spent.elections
  BY DEF CopiesAreBounded, Entries
<1>2. /\ Cardinality(Entries(log, call)) \in Nat /\ Cardinality(Pending(threads, call)) \in Nat
      /\ Copies(log, threads, call)
           = Cardinality(Entries(log, call)) + Cardinality(Pending(threads, call))
  BY <1>1, CopiesType DEF Copies
<1>3. \/ Copies(log, threads, call) <= spent.failures + spent.elections
      \/ Copies(log, threads, call) <= spent.failures + 1
  BY DEF CopyInv, CountInv
<1>4. CASE spent.elections = 0
  <2>1. DOMAIN log = {}
    BY <1>4 DEF CopyInv
  <2>2. Entries(log, call) = {}
    BY <2>1 DEF Entries
  <2>3. Cardinality(Entries(log, call)) = 0
    BY <2>2, FS_EmptySet
  <2>. QED  BY <2>3, <1>1
<1>5. CASE spent.elections # 0
  BY <1>1, <1>2, <1>3, <1>5
<1>. QED  BY <1>4, <1>5

\* The steps that have a call's number, and its thread, stay as they are.
LEMMA NumbersStay ==
  ASSUME SessionInv, CopyInv, spent'.calls = spent.calls,
         \A c \in Client : client'[c].call = client[c].call
  PROVE  NumberInv'
BY DEF CopyInv, NumberInv

\* A step that leaves every call as many copies at most.
LEMMA NoCopyMore ==
  ASSUME SessionInv, SessionInv', CopyInv, IsFiniteSet(threads'), NumberInv',
         Grows(log, threads, log', threads', 0),
         spent'.calls = spent.calls, spent'.failures >= spent.failures,
         spent'.elections >= spent.elections,
         spent'.elections = 0 => leader' = leader /\ log' = log,
         \A t \in threads' : t.at = "appended" =>
           /\ Copies(log, threads, t.call) <= spent.failures + t.office
           /\ t.office = spent'.elections => log'[t.entry_id].term = t.office
  PROVE  CopyInv'
<1>1. /\ log \in Seq(LogEntry) /\ IsFiniteSet(threads)
      /\ spent \in [calls : Nat, failures : Nat, elections : Nat]
      /\ spent' \in [calls : Nat, failures : Nat, elections : Nat]
      /\ threads' \subseteq Thread
  BY DEF SessionInv, TypeOK, CopyInv
<1>2. ASSUME NEW call \in CallId
      PROVE  /\ Copies(log, threads, call) \in Nat /\ Copies(log', threads', call) \in Nat
             /\ Copies(log', threads', call) <= Copies(log, threads, call)
  <2>1. Copies(log, threads, call) \in Nat
    BY <1>1, CopiesType
  <2>2. 0 \notin CallId
    BY DEF CallId
  <2>. QED  BY <2>1, <2>2 DEF Grows
<1>3. ASSUME NEW call \in CallId
      PROVE  /\ call > spent'.calls => Copies(log', threads', call) = 0
             /\ \/ Copies(log', threads', call) <= spent'.failures + spent'.elections
                \/ Copies(log', threads', call) <= spent'.failures + 1
  BY <1>1, <1>2 DEF CopyInv, CountInv
<1>4. ASSUME NEW t \in threads', t.at = "appended"
      PROVE  Copies(log', threads', t.call) <= spent'.failures + t.office
  <2>1. t.call \in CallId /\ t.office \in Nat
    BY <1>1 DEF Thread
  <2>. QED  BY <1>1, <1>2, <1>4, <2>1
<1>5. spent'.elections = 0 => leader' = None /\ log' = <<>>
  BY <1>1 DEF CopyInv
<1>. QED  BY <1>3, <1>4, <1>5 DEF CopyInv, CountInv

\* A step that gives one call a copy more.
LEMMA OneCopyMore ==
  ASSUME SessionInv, SessionInv', CopyInv, IsFiniteSet(threads'), NumberInv',
         UNCHANGED cluster, NEW made \in CallId,
         Grows(log, threads, log', threads', made), made <= spent'.calls,
         spent'.calls >= spent.calls, spent'.failures >= spent.failures,
         spent'.elections = spent.elections,
         \A t \in threads' : t.at = "appended" => t \in threads,
         \/ spent'.failures = spent.failures + 1
         \/ /\ \A t \in threads' : t.at = "appended" => t.call # made
            /\ \/ Copies(log, threads, made) + 1 <= spent.failures + spent.elections
               \/ Copies(log, threads, made) = 0
  PROVE  CopyInv'
<1>1. /\ log \in Seq(LogEntry) /\ IsFiniteSet(threads)
      /\ spent \in [calls : Nat, failures : Nat, elections : Nat]
      /\ spent' \in [calls : Nat, failures : Nat, elections : Nat]
      /\ threads \subseteq Thread /\ log' = log /\ leader' = leader
  BY DEF SessionInv, TypeOK, CopyInv, cluster
<1>2. ASSUME NEW call \in CallId
      PROVE  /\ call \in Nat
             /\ Copies(log, threads, call) \in Nat /\ Copies(log', threads', call) \in Nat
             /\ Copies(log', threads', call) <= Copies(log, threads, call) + 1
             /\ call # made => Copies(log', threads', call) <= Copies(log, threads, call)
  <2>1. Copies(log, threads, call) \in Nat
    BY <1>1, CopiesType
  <2>2. call \in Nat
    BY SessionAssumption DEF CallId
  <2>. QED  BY <2>1, <2>2 DEF Grows
<1>3. ASSUME NEW call \in CallId, call > spent'.calls
      PROVE  Copies(log', threads', call) = 0
  <2>1. call # made /\ call > spent.calls
    BY <1>1, <1>2, <1>3
  <2>2. Copies(log, threads, call) = 0
    BY <2>1 DEF CopyInv, CountInv
  <2>. QED  BY <1>2, <2>1, <2>2
<1>4. ASSUME NEW call \in CallId
      PROVE  \/ Copies(log', threads', call) <= spent'.failures + spent'.elections
             \/ Copies(log', threads', call) <= spent'.failures + 1
  <2>1. \/ Copies(log, threads, call) <= spent.failures + spent.elections
        \/ Copies(log, threads, call) <= spent.failures + 1
    BY DEF CopyInv, CountInv
  <2>2. CASE spent'.failures = spent.failures + 1
    BY <1>1, <1>2, <2>1, <2>2
  <2>3. CASE call # made
    BY <1>1, <1>2, <2>1, <2>3
  <2>4. CASE /\ call = made
             /\ \/ Copies(log, threads, made) + 1 <= spent.failures + spent.elections
                \/ Copies(log, threads, made) = 0
    BY <1>1, <1>2, <2>4
  <2>. QED  BY <2>2, <2>3, <2>4
<1>5. ASSUME NEW t \in threads', t.at = "appended"
      PROVE  /\ Copies(log', threads', t.call) <= spent'.failures + t.office
             /\ t.office = spent'.elections => log'[t.entry_id].term = t.office
  <2>1. t \in threads /\ t.call \in CallId /\ t.office \in Nat
    BY <1>1, <1>5 DEF Thread
  <2>2. /\ Copies(log, threads, t.call) <= spent.failures + t.office
        /\ t.office = spent.elections => log[t.entry_id].term = t.office
    BY <1>5, <2>1 DEF CopyInv, CountInv
  <2>3. CASE spent'.failures = spent.failures + 1
    BY <1>1, <1>2, <2>1, <2>2, <2>3
  <2>4. CASE t.call # made
    <3>1. /\ Copies(log, threads, t.call) \in Nat
          /\ Copies(log', threads', t.call) \in Nat
          /\ Copies(log', threads', t.call) <= Copies(log, threads, t.call)
      BY <1>2, <2>1, <2>4
    <3>2. Copies(log', threads', t.call) <= spent'.failures + t.office
      BY <1>1, <2>1, <2>2, <3>1
    <3>3. t.office = spent'.elections => log'[t.entry_id].term = t.office
      BY <1>1, <2>2
    <3>. QED  BY <3>2, <3>3
  <2>5. spent'.failures = spent.failures + 1 \/ t.call # made
    BY <1>5, Zenon
  <2>. QED  BY <2>3, <2>4, <2>5
<1>6. spent'.elections = 0 => leader' = None /\ log' = <<>>
  BY <1>1 DEF CopyInv
<1>. QED  BY <1>3, <1>4, <1>5, <1>6 DEF CopyInv, CountInv

LEMMA ElectCopy ==
  ASSUME SessionInv, SessionInv', CopyInv, NEW n \in Node, Elect(n)
  PROVE  CopyInv'
<1>1. /\ log \in Seq(LogEntry) /\ Len(log) \in Nat /\ IsFiniteSet(threads)
      /\ spent \in [calls : Nat, failures : Nat, elections : Nat]
      /\ threads \subseteq Thread /\ log' \in Seq(LogEntry)
  BY DEF SessionInv, TypeOK, CopyInv
<1>2. Committed \in Nat /\ Committed <= Len(log)
  BY CommittedIsGreatest DEF SessionInv
<1>3. PICK i \in Committed..Len(log) : log' = SubSeq(log, 1, i)
  BY DEF Elect
<1>4. i \in Nat /\ i <= Len(log)
  BY <1>1, <1>2
<1>5. Len(log') <= Len(log) /\ \A j \in 1..Len(log') : log'[j] = log[j]
  BY <1>1, <1>3, <1>4
<1>6. /\ UNCHANGED threads /\ UNCHANGED client
      /\ spent' = [spent EXCEPT !.elections = @ + 1]
  BY DEF Elect
<1>7. /\ spent'.calls = spent.calls /\ spent'.failures = spent.failures
      /\ spent'.elections = spent.elections + 1
  BY <1>1, <1>6
<1>8. IsFiniteSet(threads') /\ Grows(log, threads, log', threads', 0)
  BY <1>1, <1>5, <1>6, GrowsLess
<1>9. NumberInv'
  BY <1>6, <1>7, NumbersStay
<1>10. ASSUME NEW t \in threads', t.at = "appended"
       PROVE  /\ Copies(log, threads, t.call) <= spent.failures + t.office
              /\ t.office # spent'.elections
  <2>1. t \in threads /\ t.office \in Nat
    BY <1>1, <1>6 DEF Thread
  <2>2. t.office <= spent.elections
    BY <1>10, <2>1 DEF SessionInv, EntryInv
  <2>3. t.office # spent'.elections
    BY <1>1, <1>7, <2>1, <2>2
  <2>. QED  BY <1>10, <2>1, <2>3 DEF CopyInv, CountInv
<1>11. /\ spent'.failures >= spent.failures /\ spent'.elections >= spent.elections
       /\ spent'.elections # 0
  BY <1>1, <1>7
<1>. QED  BY <1>7, <1>8, <1>9, <1>10, <1>11, NoCopyMore

\* Nothing that is counted changes.
LEMMA QuietCopy ==
  ASSUME CopyInv, UNCHANGED <<log, leader, threads, spent>>,
         \A c \in Client : client'[c].call = client[c].call
  PROVE  CopyInv'
BY DEF CopyInv, NumberInv, CountInv

\* A thread ends.
LEMMA EndCopy ==
  ASSUME SessionInv, SessionInv', CopyInv, NEW t \in threads, threads' = threads \ {t},
         UNCHANGED <<cluster, spent>>, \A c \in Client : client'[c].call = client[c].call
  PROVE  CopyInv'
<1>1. /\ log \in Seq(LogEntry) /\ IsFiniteSet(threads)
      /\ spent \in [calls : Nat, failures : Nat, elections : Nat]
      /\ log' = log /\ leader' = leader /\ spent' = spent
  BY DEF SessionInv, TypeOK, CopyInv, cluster
<1>2. IsFiniteSet(threads') /\ Grows(log, threads, log', threads', 0)
  BY <1>1, GrowsLess
<1>3. NumberInv'
  BY <1>1, NumbersStay
<1>4. \A u \in threads' : u.at = "appended" =>
        /\ Copies(log, threads, u.call) <= spent.failures + u.office
        /\ u.office = spent'.elections => log'[u.entry_id].term = u.office
  BY <1>1 DEF CopyInv, CountInv
<1>5. spent'.failures >= spent.failures /\ spent'.elections >= spent.elections
  BY <1>1
<1>. QED  BY <1>1, <1>2, <1>3, <1>4, <1>5, NoCopyMore

LEMMA ReturnCalls ==
  ASSUME SessionInv, NEW c \in Client, NEW p, NEW kept, Return(c, p, kept)
  PROVE  \A d \in Client : client'[d].call = client[d].call
<1>1. client \in [Client -> ClientState]
  BY DEF SessionInv, TypeOK
<1>2. client' = [client EXCEPT ![c] = Idle(client[c].call, client[c].current_leader_address)]
  BY DEF Return
<1>3. Idle(client[c].call, client[c].current_leader_address).call = client[c].call
  BY DEF Idle
<1>. QED  BY <1>1, <1>2, <1>3

LEMMA AnsweredCopy ==
  ASSUME SessionInv, SessionInv', CopyInv, NEW t \in threads, Answered(t)
  PROVE  CopyInv'
<1>1. threads' = threads \ {t} /\ UNCHANGED <<cluster, spent>>
  BY DEF Answered
<1>2. /\ client \in [Client -> ClientState] /\ Answers(t)
  BY DEF SessionInv, TypeOK, Answered
<1>3. t.client \in Client
  BY <1>2, AnsweredFrom DEF Thread
<1>4. \A d \in Client : client'[d].call = client[d].call
  <2>1. CASE t.op.type = "read"
    <3>1. PICK n, k : client' = [client EXCEPT ![t.client] =
                        [@ EXCEPT !.at = "fetching", !.node_id = n,
                                  !.operation_id = t.entry_id, !.kept = k]]
      BY <2>1 DEF Answered
    <3>2. client[t.client] \in ClientState
      BY <1>2, <1>3
    <3>3. client'[t.client].call = client[t.client].call
      BY <1>2, <1>3, <3>1, <3>2 DEF ClientState
    <3>4. \A d \in Client \ {t.client} : client'[d] = client[d]
      BY <1>2, <3>1
    <3>. QED  BY <3>3, <3>4
  <2>2. CASE t.op.type # "read"
    <3>1. Return(t.client, t.entry_id, t.office = spent.elections)
      BY <2>2 DEF Answered
    <3>. QED  BY <1>3, <3>1, ReturnCalls
  <2>. QED  BY <2>1, <2>2
<1>. QED  BY <1>1, <1>4, EndCopy

\* What a request changes.
LEMMA RequestMakes ==
  ASSUME SessionInv, NEW c \in Client, NEW s \in ClientState, NEW n, NEW rest,
         Request(c, s, n, rest)
  PROVE  /\ client'[c].call = s.call /\ \A d \in Client \ {c} : client'[d] = client[d]
         /\ \E new : /\ new.at = "arrived" /\ new.call = s.call
                     /\ threads' = rest \cup {new}
<1>1. client \in [Client -> ClientState]
  BY DEF SessionInv, TypeOK
<1>2. client' = [client EXCEPT ![c] =
        [s EXCEPT !.at = "requesting", !.current_leader_address = n,
                  !.node_id = None, !.operation_id = 0, !.kept = FALSE]]
  BY DEF Request
<1>3. client'[c].call = s.call /\ \A d \in Client \ {c} : client'[d] = client[d]
  BY <1>1, <1>2 DEF ClientState
<1>4. PICK new : /\ new = [client |-> c, call |-> s.call, op |-> s.op, node |-> n,
                           attempt |-> spent'.failures, at |-> "arrived",
                           entry_id |-> 0, office |-> 0, live |-> TRUE]
                 /\ threads' = rest \cup {new}
  BY DEF Request
<1>5. new.at = "arrived" /\ new.call = s.call
  BY <1>4
<1>. QED  BY <1>3, <1>4, <1>5

LEMMA RedirectCopy ==
  ASSUME SessionInv, SessionInv', CopyInv, NEW t \in threads, Redirect(t)
  PROVE  CopyInv'
<1>1. t.at = "arrived" /\ UNCHANGED <<cluster, finished, spent>>
  BY DEF Redirect
<1>2. CASE ~t.live
  <2>1. threads' = threads \ {t} /\ UNCHANGED client /\ UNCHANGED <<cluster, spent>>
    BY <1>1, <1>2 DEF Redirect
  <2>. QED  BY <2>1, EndCopy
<1>3. CASE t.live
  <2>1. PICK n : Request(t.client, client[t.client], n, threads \ {t})
    BY <1>3 DEF Redirect
  <2>2. PICK c \in Client, s \in ClientState :
          c = t.client /\ s = client[t.client] /\ s.call = t.call
    BY <1>3, Waiting
  <2>3. Request(c, s, n, threads \ {t})
    BY <2>1, <2>2
  <2>4. client'[c].call = s.call /\ \A d \in Client \ {c} : client'[d] = client[d]
    BY <2>3, RequestMakes
  <2>5. PICK new : /\ new.at = "arrived" /\ new.call = t.call
                   /\ threads' = (threads \ {t}) \cup {new}
    BY <2>2, <2>3, RequestMakes
  <2>6. /\ log \in Seq(LogEntry) /\ IsFiniteSet(threads)
        /\ spent \in [calls : Nat, failures : Nat, elections : Nat]
        /\ log' = log /\ leader' = leader /\ spent' = spent
    BY <1>1 DEF SessionInv, TypeOK, CopyInv, cluster
  <2>7. IsFiniteSet(threads') /\ Grows(log, threads, log', threads', 0)
    BY <1>1, <2>5, <2>6, GrowsNot
  <2>8. NumberInv'
    BY <2>2, <2>4, <2>6, NumbersStay
  <2>9. \A u \in threads' : u.at = "appended" =>
          /\ Copies(log, threads, u.call) <= spent.failures + u.office
          /\ u.office = spent'.elections => log'[u.entry_id].term = u.office
    BY <2>5, <2>6 DEF CopyInv, CountInv
  <2>10. spent'.failures >= spent.failures /\ spent'.elections >= spent.elections
    BY <2>6
  <2>. QED  BY <2>6, <2>7, <2>8, <2>9, <2>10, NoCopyMore
<1>. QED  BY <1>2, <1>3

LEMMA AppendCopy ==
  ASSUME SessionInv, SessionInv', CopyInv, NEW t \in threads, AppendEntry(t)
  PROVE  CopyInv'
<1>1. /\ log \in Seq(LogEntry) /\ Len(log) \in Nat /\ IsFiniteSet(threads)
      /\ spent \in [calls : Nat, failures : Nat, elections : Nat]
      /\ t \in Thread /\ threads \subseteq Thread /\ leader \in Node \cup {None}
  BY DEF SessionInv, TypeOK, CopyInv
<1>2. /\ t.at = "arrived" /\ t.node = leader
      /\ UNCHANGED leader /\ UNCHANGED client /\ UNCHANGED spent
  BY DEF AppendEntry
<1>3. PICK e : e = [term |-> spent.elections, op |-> t.op, call |-> t.call]
  OBVIOUS
<1>4. e \in LogEntry /\ e.call = t.call /\ e.term = spent.elections
  BY <1>1, <1>3 DEF LogEntry, Thread
<1>5. log' = Append(log, e)
  BY <1>3 DEF AppendEntry
<1>6. PICK v : v = [t EXCEPT !.at = "appended", !.entry_id = Len(log) + 1,
                             !.office = spent.elections]
  OBVIOUS
<1>7. /\ v.at = "appended" /\ v.entry_id = Len(log) + 1
      /\ v.office = spent.elections /\ v.call = t.call
  BY <1>1, <1>6 DEF Thread
<1>8. PICK V : threads' = (threads \ {t}) \cup V /\ (V = {v} \/ V = {})
  BY <1>6 DEF AppendEntry
<1>9. IsFiniteSet(V) /\ \A u \in V : u.at = "appended"
  BY <1>7, <1>8, FS_EmptySet, FS_Singleton
<1>10. IsFiniteSet(threads') /\ Grows(log, threads, log', threads', 0)
  BY <1>1, <1>2, <1>4, <1>5, <1>8, <1>9, GrowsEntry
<1>11. NumberInv'
  BY <1>2, NumbersStay
<1>12. spent.elections # 0
  BY <1>1, <1>2, SessionAssumption DEF CopyInv, Thread
<1>13. /\ \A j \in 1..Len(log) : log'[j] = log[j]
       /\ log'[Len(log) + 1] = e
  BY <1>1, <1>4, <1>5, AppendProperties
<1>14. ASSUME NEW u \in threads', u.at = "appended"
       PROVE  /\ Copies(log, threads, u.call) <= spent.failures + u.office
              /\ u.office = spent'.elections => log'[u.entry_id].term = u.office
  <2>1. CASE u = v
    <3>1. t.call \in CallId
      BY <1>1 DEF Thread
    <3>2. Copies(log, threads, t.call) \in Nat
      BY <1>1, CopiesType
    <3>3. \/ Copies(log, threads, t.call) <= spent.failures + spent.elections
          \/ Copies(log, threads, t.call) <= spent.failures + 1
      BY <3>1 DEF CopyInv, CountInv
    <3>4. Copies(log, threads, t.call) <= spent.failures + spent.elections
      BY <1>1, <1>12, <3>2, <3>3
    <3>. QED  BY <2>1, <3>4, <1>4, <1>7, <1>13
  <2>2. CASE u \in threads
    <3>1. /\ Copies(log, threads, u.call) <= spent.failures + u.office
          /\ u.office = spent.elections => log[u.entry_id].term = u.office
      BY <1>14, <2>2 DEF CopyInv, CountInv
    <3>2. u.office = spent.elections => u.entry_id \in DOMAIN log
      BY <1>14, <2>2 DEF SessionInv, EntryInv, EntryOf
    <3>3. u.office = spent'.elections => log'[u.entry_id].term = u.office
      BY <1>1, <1>2, <1>13, <3>1, <3>2
    <3>. QED  BY <3>1, <3>3
  <2>. QED  BY <1>8, <2>1, <2>2
<1>15. spent'.failures >= spent.failures /\ spent'.elections >= spent.elections
  BY <1>1, <1>2
<1>. QED  BY <1>2, <1>10, <1>11, <1>12, <1>14, <1>15, NoCopyMore

LEMMA FetchFailsCopy ==
  ASSUME SessionInv, SessionInv', CopyInv, NEW c \in Client, FetchFails(c)
  PROVE  CopyInv'
<1>1. /\ log \in Seq(LogEntry) /\ IsFiniteSet(threads)
      /\ spent \in [calls : Nat, failures : Nat, elections : Nat]
      /\ client[c] \in ClientState /\ CallInv(client[c])
  BY DEF SessionInv, TypeOK, CopyInv
<1>2. /\ client[c].at = "fetching" /\ UNCHANGED cluster
      /\ spent' = [spent EXCEPT !.failures = @ + 1]
      /\ Request(c, client[c], client[c].current_leader_address, threads)
  BY DEF FetchFails
<1>3. /\ spent'.calls = spent.calls /\ spent'.failures = spent.failures + 1
      /\ spent'.elections = spent.elections
  BY <1>1, <1>2
<1>4. PICK s \in ClientState, n \in Node :
        s = client[c] /\ n = client[c].current_leader_address
  BY <1>1 DEF ClientState
<1>5. Request(c, s, n, threads) /\ s.call \in CallId
  BY <1>1, <1>2, <1>4 DEF CallInv
<1>6. client'[c].call = s.call /\ \A d \in Client \ {c} : client'[d] = client[d]
  BY <1>5, RequestMakes
<1>7. PICK new : new.at = "arrived" /\ new.call = s.call /\ threads' = threads \cup {new}
  BY <1>5, RequestMakes
<1>8. PICK made \in CallId : made = s.call
  BY <1>5
<1>9. log' = log
  BY <1>2 DEF cluster
<1>10. IsFiniteSet(threads') /\ Grows(log, threads, log', threads', made)
  BY <1>1, <1>7, <1>8, <1>9, GrowsRequest
<1>11. NumberInv'
  BY <1>3, <1>4, <1>6, NumbersStay
<1>12. made <= spent'.calls
  BY <1>3, <1>4, <1>8 DEF CopyInv, NumberInv
<1>13. \A t \in threads' : t.at = "appended" => t \in threads
  BY <1>7
<1>14. spent'.calls >= spent.calls /\ spent'.failures >= spent.failures
  BY <1>1, <1>3
<1>. QED  BY <1>2, <1>3, <1>10, <1>11, <1>12, <1>13, <1>14, OneCopyMore

\* A request that fails while it could still be answered is paid for.  One that
\* could not be answered belongs to an office that is over.
LEMMA FailCopy ==
  ASSUME SessionInv, SessionInv', CopyInv, NEW t \in threads, Fail(t)
  PROVE  CopyInv'
<1>1. /\ log \in Seq(LogEntry) /\ IsFiniteSet(threads)
      /\ spent \in [calls : Nat, failures : Nat, elections : Nat]
      /\ t \in Thread /\ threads \subseteq Thread
  BY DEF SessionInv, TypeOK, CopyInv
<1>2. t.live /\ UNCHANGED cluster
  BY DEF Fail
<1>3. log' = log /\ leader' = leader
  BY <1>2 DEF cluster
<1>4. PICK n \in Node, left \in {{}, {[t EXCEPT !.live = FALSE]}} :
        /\ t.at = "appended" => left = {}
        /\ Request(t.client, client[t.client], n, (threads \ {t}) \cup left)
  BY DEF Fail
<1>5. PICK c \in Client, s \in ClientState :
        /\ c = t.client /\ s = client[t.client] /\ s.call = t.call /\ s.call \in CallId
  BY <1>2, Waiting
<1>6. PICK rest : rest = (threads \ {t}) \cup left
  OBVIOUS
<1>7. Request(c, s, n, rest)
  BY <1>4, <1>5, <1>6
<1>8. client'[c].call = s.call /\ \A d \in Client \ {c} : client'[d] = client[d]
  BY <1>7, RequestMakes
<1>9. PICK new : new.at = "arrived" /\ new.call = t.call /\ threads' = rest \cup {new}
  BY <1>5, <1>7, RequestMakes
<1>10. PICK made \in CallId : made = t.call
  BY <1>5
<1>11. spent'.calls = spent.calls /\ spent'.elections = spent.elections
  BY <1>1 DEF Fail
<1>12. NumberInv'
  BY <1>5, <1>8, <1>11, NumbersStay
<1>13. made <= spent'.calls
  BY <1>5, <1>10, <1>11 DEF CopyInv, NumberInv
<1>14. PICK dead : dead = [t EXCEPT !.live = FALSE]
  OBVIOUS
<1>15. dead.at = t.at /\ dead.call = t.call
  BY <1>1, <1>14 DEF Thread
<1>16. IsFiniteSet(threads') /\ Grows(log, threads, log', threads', made)
  <2>1. CASE t.at = "arrived"
    <3>1. rest \subseteq (threads \ {t}) \cup {dead}
      BY <1>4, <1>6, <1>14
    <3>2. IsFiniteSet(rest) /\ Grows(log, threads, log, rest, 0)
      BY <1>1, <1>15, <2>1, <3>1, GrowsNot
    <3>3. IsFiniteSet(threads') /\ Grows(log, rest, log, threads', made)
      BY <1>1, <1>9, <1>10, <3>2, GrowsRequest
    <3>4. ASSUME NEW call \in CallId
          PROVE  /\ Copies(log, threads, call) \in Nat /\ Copies(log, rest, call) \in Nat
                 /\ Copies(log, threads', call) \in Nat
                 /\ Copies(log, rest, call) <= Copies(log, threads, call)
                 /\ Copies(log, threads', call)
                      <= Copies(log, rest, call) + (IF call = made THEN 1 ELSE 0)
      <4>1. Copies(log, threads, call) \in Nat /\ call # 0
        BY <1>1, CopiesType DEF CallId
      <4>. QED  BY <3>2, <3>3, <4>1 DEF Grows
    <3>5. Grows(log, threads, log', threads', made)
      BY <1>3, <3>4 DEF Grows
    <3>. QED  BY <3>3, <3>5
  <2>2. CASE t.at # "arrived"
    <3>1. t.at = "appended"
      BY <1>1, <2>2 DEF Thread
    <3>2. threads' \subseteq threads \cup {new}
      BY <1>4, <1>6, <1>9, <3>1
    <3>. QED  BY <1>1, <1>3, <1>9, <1>10, <3>2, GrowsRequest
  <2>. QED  BY <2>1, <2>2
<1>17. ASSUME NEW u \in threads', u.at = "appended"
       PROVE  u \in threads /\ u # t
  <2>1. u # new
    BY <1>9, <1>17
  <2>2. u \in (threads \ {t}) \cup left
    BY <1>6, <1>9, <2>1
  <2>3. u \notin left
    BY <1>4, <1>14, <1>15, <1>17
  <2>. QED  BY <2>2, <2>3
<1>18. \/ spent'.failures = spent.failures + 1
       \/ /\ spent'.failures = spent.failures
          /\ \A u \in threads' : u.at = "appended" => u.call # made
          /\ Copies(log, threads, made) + 1 <= spent.failures + spent.elections
  <2>1. CASE ~Stuck(t)
    BY <1>1, <2>1 DEF Fail
  <2>2. CASE Stuck(t)
    <3>1. t.at = "appended" /\ spent' = spent
      BY <2>2 DEF Fail, Stuck
    <3>2. /\ t.office <= spent.elections
          /\ t.office = spent.elections => t.node = leader /\ EntryOf(t.entry_id, t.call)
      BY <3>1 DEF SessionInv, EntryInv
    <3>3. /\ Copies(log, threads, t.call) <= spent.failures + t.office
          /\ t.office = spent.elections => log[t.entry_id].term = t.office
      BY <3>1 DEF CopyInv, CountInv
    <3>4. t.office # spent.elections
      <4>. SUFFICES ASSUME t.office = spent.elections PROVE FALSE
        OBVIOUS
      <4>1. /\ t.node = leader /\ t.entry_id \in DOMAIN log
            /\ log[t.entry_id].term = spent.elections
        BY <3>2, <3>3 DEF EntryOf
      <4>2. t.entry_id \in t.entry_id..Len(log)
        BY <1>1, <4>1
      <4>3. Committable(t.entry_id)
        BY <4>1, <4>2 DEF Committable
      <4>. QED  BY <2>2, <4>1, <4>3 DEF Stuck
    <3>5. Copies(log, threads, made) \in Nat /\ t.office \in Nat
      BY <1>1, CopiesType DEF Thread
    <3>6. Copies(log, threads, made) + 1 <= spent.failures + spent.elections
      BY <1>1, <1>10, <3>2, <3>3, <3>4, <3>5
    <3>7. ASSUME NEW u \in threads', u.at = "appended" PROVE u.call # made
      <4>1. u \in threads /\ u # t
        BY <1>17, <3>7
      <4>2. u.live
        BY <3>7, <4>1 DEF SessionInv, EntryInv
      <4>3. /\ u.client \in Client /\ client[u.client].call = u.call
            /\ u.client # t.client
        BY <1>2, <4>1, <4>2, Waiting
      <4>4. made # 0 /\ client[t.client].call = made /\ t.client \in Client
        BY <1>5, <1>10 DEF CallId
      <4>. QED  BY <4>3, <4>4 DEF CopyInv, NumberInv
    <3>. QED  BY <1>1, <3>1, <3>6, <3>7
  <2>. QED  BY <2>1, <2>2
<1>19. spent'.calls >= spent.calls /\ spent'.failures >= spent.failures
  BY <1>1, <1>11, <1>18
<1>. QED  BY <1>2, <1>11, <1>12, <1>13, <1>16, <1>17, <1>18, <1>19, OneCopyMore

LEMMA CallCopy ==
  ASSUME SessionInv, SessionInv', CopyInv, NEW c \in Client, NEW o \in Operations, Call(c, o)
  PROVE  CopyInv'
<1>1. /\ log \in Seq(LogEntry) /\ IsFiniteSet(threads)
      /\ spent \in [calls : Nat, failures : Nat, elections : Nat]
      /\ client \in [Client -> ClientState] /\ MaxCalls \in Nat
      /\ threads \subseteq Thread
  BY SessionAssumption DEF SessionInv, TypeOK, CopyInv
<1>2. /\ client[c].at = "idle" /\ UNCHANGED cluster
      /\ spent.calls < MaxCalls /\ spent' = [spent EXCEPT !.calls = @ + 1]
  BY DEF Call
<1>3. log' = log
  BY <1>2 DEF cluster
<1>4. /\ spent'.calls = spent.calls + 1 /\ spent'.failures = spent.failures
      /\ spent'.elections = spent.elections
  BY <1>1, <1>2
<1>5. PICK s : s = [client[c] EXCEPT !.call = spent.calls + 1, !.op = o,
                                     !.since = Acknowledged]
  OBVIOUS
<1>6. PICK made \in CallId : made = spent.calls + 1
  BY <1>1, <1>2 DEF CallId
<1>7. s \in ClientState /\ s.call = made
  BY <1>1, <1>5, <1>6, AcknowledgedIsReached DEF ClientState
<1>8. PICK n : Request(c, s, n, threads)
  BY <1>5 DEF Call
<1>9. client'[c].call = made /\ \A d \in Client \ {c} : client'[d] = client[d]
  BY <1>7, <1>8, RequestMakes
<1>10. PICK new : new.at = "arrived" /\ new.call = made /\ threads' = threads \cup {new}
  BY <1>7, <1>8, RequestMakes
<1>11. IsFiniteSet(threads') /\ Grows(log, threads, log', threads', made)
  BY <1>1, <1>3, <1>10, GrowsRequest
<1>12. \A d \in Client : client[d].call \in Nat /\ client[d].call <= spent.calls
  <2>1. \A d \in Client : client[d].call \in CallId \cup {0}
    BY <1>1 DEF ClientState
  <2>. QED  BY <2>1, <1>1 DEF CopyInv, NumberInv, CallId
<1>13. NumberInv'
  <2>1. ASSUME NEW d \in Client PROVE client'[d].call <= spent'.calls
    BY <1>1, <1>4, <1>6, <1>9, <1>12
  <2>2. ASSUME NEW d \in Client, NEW e \in Client,
               client'[d].call = client'[e].call, client'[d].call # 0
        PROVE  d = e
    <3>1. CASE d = c \/ e = c
      BY <1>1, <1>6, <1>9, <1>12, <2>2, <3>1
    <3>2. CASE d # c /\ e # c
      BY <1>9, <2>2, <3>2 DEF CopyInv, NumberInv
    <3>. QED  BY <3>1, <3>2
  <2>. QED  BY <2>1, <2>2 DEF NumberInv
<1>14. made > spent.calls /\ made <= spent'.calls
  BY <1>1, <1>4, <1>6
<1>15. Copies(log, threads, made) = 0
  BY <1>14 DEF CopyInv, CountInv
<1>16. ASSUME NEW u \in threads', u.at = "appended"
       PROVE  u \in threads /\ u.call # made
  <2>1. u \in threads
    BY <1>10, <1>16
  <2>2. u.live
    BY <1>16, <2>1 DEF SessionInv, EntryInv
  <2>3. u.client \in Client /\ client[u.client].call = u.call
    BY <2>1, <2>2, Waiting
  <2>4. u.call \in Nat /\ u.call <= spent.calls
    BY <2>3, <1>12
  <2>. QED  BY <2>1, <2>4, <1>1, <1>14
<1>17. spent'.calls >= spent.calls /\ spent'.failures >= spent.failures
  BY <1>1, <1>4
<1>. QED  BY <1>2, <1>4, <1>11, <1>13, <1>14, <1>15, <1>16, <1>17, OneCopyMore

LEMMA CopyInvInit == Init => CopyInv
<1>. SUFFICES ASSUME Init PROVE CopyInv
  OBVIOUS
<1>1. /\ threads = {} /\ log = <<>> /\ leader = None /\ DOMAIN log = {}
      /\ spent = [calls |-> 0, failures |-> 0, elections |-> 0]
  BY DEF Init
<1>2. \A c \in Client : client[c].call = 0
  BY DEF Init, Idle
<1>3. ASSUME NEW call PROVE Copies(log, threads, call) = 0
  <2>1. Entries(log, call) = {} /\ Pending(threads, call) = {}
    BY <1>1 DEF Entries, Pending
  <2>. QED  BY <2>1, FS_EmptySet DEF Copies
<1>4. IsFiniteSet(threads)
  BY <1>1, FS_EmptySet
<1>. QED  BY <1>1, <1>2, <1>3, <1>4 DEF CopyInv, NumberInv, CountInv

LEMMA CopyInvNext == SessionInv /\ CopyInv /\ [Next]_vars => CopyInv'
<1>. SUFFICES ASSUME SessionInv, CopyInv, [Next]_vars PROVE CopyInv'
  OBVIOUS
<1>0. SessionInv'
  BY SessionInvNext
<1>1. ASSUME NEW n \in Node, Follow(n) PROVE CopyInv'
  <2>1. UNCHANGED <<log, leader, threads, spent>> /\ UNCHANGED client
    BY <1>1 DEF Follow
  <2>. QED  BY <2>1, QuietCopy
<1>2. CASE Commit
  <2>1. UNCHANGED <<log, leader, threads, spent>> /\ UNCHANGED client
    BY <1>2 DEF Commit
  <2>. QED  BY <2>1, QuietCopy
<1>3. CASE UNCHANGED vars
  <2>1. UNCHANGED <<log, leader, threads, spent>> /\ UNCHANGED client
    BY <1>3 DEF vars, cluster
  <2>. QED  BY <2>1, QuietCopy
<1>4. ASSUME NEW c \in Client, Fetch(c) PROVE CopyInv'
  <2>1. UNCHANGED <<log, leader, threads, spent>>
    BY <1>4 DEF Fetch, cluster
  <2>2. \A d \in Client : client'[d].call = client[d].call
    BY <1>4, ReturnCalls DEF Fetch
  <2>. QED  BY <2>1, <2>2, QuietCopy
<1>. QED  BY <1>0, <1>1, <1>2, <1>3, <1>4, ElectCopy, CallCopy, FetchFailsCopy,
             FailCopy, RedirectCopy, AppendCopy, AnsweredCopy DEF Next

\* In each office a call gets into the log once at most, and once more for each
\* request that failed or timed out although it could be answered.
THEOREM CopiesBounded == Spec => []CopiesAreBounded
<1>1. Init => SessionInv /\ CopyInv
  BY SessionInvInit, CopyInvInit
<1>2. SessionInv /\ CopyInv /\ [Next]_vars => (SessionInv /\ CopyInv)'
  BY SessionInvNext, CopyInvNext
<1>3. SessionInv /\ CopyInv => CopiesAreBounded
  BY CopyInvBounds
<1>. QED  BY <1>1, <1>2, <1>3, PTL DEF Spec

=============================================================================
