------------------------- MODULE Integration_proofs -------------------------
(***************************************************************************)
(* Theorems about Integration, for every number of workers, tasks, sockets *)
(* and losses: types, that the master implements TaskFarm, that no worker  *)
(* is idle while a task waits, and that each task is held once and only    *)
(* worked on for the socket that has it.                                   *)
(***************************************************************************)
EXTENDS Integration, FiniteSetTheorems, SequenceTheorems, TLAPS

USE CountsAssumption

-----------------------------------------------------------------------------
(* Types.                                                                  *)

\* The sockets, and any of them, are finitely many.
LEMMA SocketsFinite ==
  ASSUME NEW S \in SUBSET Socket
  PROVE  IsFiniteSet(S) /\ Cardinality(S) \in Nat
<1>1. IsFiniteSet(Socket)
  BY FS_Interval DEF Socket
<1> QED
  BY <1>1, FS_Subset, FS_CardinalityType

\* What the two ends of a queue are.
LEMMA QueueEnds ==
  ASSUME NEW S, NEW s \in Seq(S), s # <<>>
  PROVE  /\ Last(s) \in S
         /\ Front(s) \in Seq(S)
         /\ Len(s) \in Nat \ {0}
         /\ Len(Front(s)) = Len(s) - 1
         /\ \A i \in 1..(Len(s) - 1) : Front(s)[i] = s[i]
<1>1. Len(s) \in Nat \ {0}
  BY EmptySeq
<1> DEFINE n == Len(s) - 1
<1>2. n \in Nat /\ \A i \in 1..n : s[i] \in S
  BY <1>1
<1> HIDE DEF n
<1>3. /\ SubSeq(s, 1, n) \in Seq(S)
      /\ Len(SubSeq(s, 1, n)) = n
      /\ \A i \in 1..n : SubSeq(s, 1, n)[i] = s[i]
  <2>1. /\ SubSeq(s, 1, n) \in Seq(S)
        /\ Len(SubSeq(s, 1, n)) = IF 1 <= n THEN n - 1 + 1 ELSE 0
        /\ \A i \in 1..(n - 1 + 1) : SubSeq(s, 1, n)[i] = s[1 + i - 1]
    BY <1>2, SubSeqProperties
  <2>2. \A i \in 1..n : 1 + i - 1 = i
    BY <1>2
  <2>3. n - 1 + 1 = n /\ (~ 1 <= n => n = 0)
    BY <1>2
  <2> QED
    BY <2>1, <2>2, <2>3
<1> QED
  BY <1>1, <1>3 DEF Last, Front, n

\* The idle sockets that are left when the k at the back are bad.
LEMMA IdleType ==
  ASSUME NEW s \in Seq(Socket), NEW k \in 0..Len(s)
  PROVE  /\ SubSeq(s, 1, Len(s) - k) \in Seq(Socket)
         /\ Len(SubSeq(s, 1, Len(s) - k)) = Len(s) - k
         /\ \A i \in 1..(Len(s) - k) : SubSeq(s, 1, Len(s) - k)[i] = s[i]
<1>1. \A i \in 1..(Len(s) - k) : s[i] \in Socket
  OBVIOUS
<1> QED
  BY <1>1

\* A worker inside a connection knows which one.
ConnectedWorkers ==
  \A w \in Worker :
    worker[w].at \in {"receiving", "computing"} => worker[w].socket \in Socket

Typed == TypeOK /\ ConnectedWorkers

\* The changes of one connection.
LEMMA LinkType ==
  ASSUME NEW l \in Link, NEW t \in Task \cup {0}
  PROVE  /\ CloseMaster(l) \in Link
         /\ [l EXCEPT !.task = t] \in Link
         /\ [l EXCEPT !.response = t] \in Link
         /\ [l EXCEPT !.worker_open = FALSE, !.task = 0] \in Link
  BY DEF CloseMaster, Link

\* The same inside the array of connections.
LEMMA LinksType ==
  ASSUME NEW links \in [Socket -> Link], NEW c, NEW t \in Task \cup {0}
  PROVE  /\ [links EXCEPT ![c].task = t] \in [Socket -> Link]
         /\ [links EXCEPT ![c].response = t] \in [Socket -> Link]
<1>1. \A b \in Socket : /\ [links[b] EXCEPT !.task = t] \in Link
                        /\ [links[b] EXCEPT !.response = t] \in Link
  BY LinkType
<1> HIDE DEF Link
<1> QED
  BY <1>1

\* ProcessBadSocket keeps the types, nested calls included.
LEMMA ProcessBadSocketType ==
  ASSUME TypeOK, NEW c \in Socket, NEW t \in Task \cup {0},
         NEW pending \in Seq(Task), NEW losses \in Nat,
         ProcessBadSocket(c, t, pending, losses)
  PROVE  TypeOK'
<1>1. PICK k \in IF IsUnfinished(t) THEN 0..Len(ready_sockets) ELSE {0} :
        LET idle == SubSeq(ready_sockets, 1, Len(ready_sockets) - k)
            bad == {c} \cup
               {ready_sockets[i] : i \in (Len(idle) + 1)..Len(ready_sockets)}
            lost == {b \in bad \ {c} : link[b].worker_open}
            given == IsUnfinished(t) /\ SomeIdle(idle)
        IN /\ Lose(losses + Cardinality(lost))
           /\ \/ Ends("killed") \/ Ends("uncaught")
              \/ /\ filter' = [b \in Socket |->
                      IF b \in bad THEN "None" ELSE filter[b]]
                 /\ pending_tasks' = IF IsUnfinished(t) /\ ~given
                                     THEN Append(pending, t) ELSE pending
                 /\ ready_sockets' = IF given THEN Front(idle) ELSE idle
                 /\ task_of_socket' = [b \in Socket |->
                      IF b \in bad THEN Erased(b)
                      ELSE IF given /\ b = Last(idle) THEN t
                      ELSE task_of_socket[b]]
                 /\ link' = [b \in Socket |->
                      IF b \in bad THEN CloseMaster(link[b])
                      ELSE IF given /\ b = Last(idle)
                      THEN [link[b] EXCEPT !.task = t] ELSE link[b]]
                 /\ UNCHANGED program
           /\ UNCHANGED <<sums, worker>>
  BY DEF ProcessBadSocket
<1> DEFINE idle == SubSeq(ready_sockets, 1, Len(ready_sockets) - k)
           bad == {c} \cup
             {ready_sockets[i] : i \in (Len(idle) + 1)..Len(ready_sockets)}
           lost == {b \in bad \ {c} : link[b].worker_open}
           given == IsUnfinished(t) /\ SomeIdle(idle)
<1>2. ready_sockets \in Seq(Socket) /\ Len(ready_sockets) \in Nat
  BY DEF TypeOK
<1>3. k \in 0..Len(ready_sockets)
  BY <1>2
<1>4. idle \in Seq(Socket) /\ Len(idle) = Len(ready_sockets) - k
  BY <1>2, <1>3, IdleType
<1>5. bad \subseteq Socket
  BY <1>2, <1>3, <1>4
<1>6. Cardinality(lost) \in Nat
  BY <1>5, SocketsFinite
<1>7. given => Last(idle) \in Socket /\ Front(idle) \in Seq(Socket)
  BY <1>4, QueueEnds DEF SomeIdle
<1>8. IsUnfinished(t) => t \in Task
  BY DEF IsUnfinished
<1> HIDE DEF idle, bad, lost, given
<1>9. spent' \in [losses : Nat, deaths : Nat]
  <2>1. Lose(losses + Cardinality(lost))
    BY <1>1 DEF idle, bad, lost
  <2>2. spent \in [losses : Nat, deaths : Nat] /\ losses + Cardinality(lost) \in Nat
    BY <1>6 DEF TypeOK
  <2> QED
    BY <2>1, <2>2 DEF Lose
<1>10. UNCHANGED <<sums, worker>>
  BY <1>1
<1>11. CASE Ends("killed") \/ Ends("uncaught")
  <2>1. link' \in [Socket -> Link]
    BY <1>11, LinkType DEF TypeOK, Ends
  <2> QED
    BY <1>9, <1>10, <1>11, <2>1 DEF TypeOK, sums, scheduler, Ends
<1>12. CASE ~(Ends("killed") \/ Ends("uncaught"))
  <2>1. /\ filter' = [b \in Socket |-> IF b \in bad THEN "None" ELSE filter[b]]
        /\ pending_tasks' = IF IsUnfinished(t) /\ ~given
                            THEN Append(pending, t) ELSE pending
        /\ ready_sockets' = IF given THEN Front(idle) ELSE idle
        /\ task_of_socket' = [b \in Socket |->
             IF b \in bad THEN Erased(b)
             ELSE IF given /\ b = Last(idle) THEN t ELSE task_of_socket[b]]
        /\ link' = [b \in Socket |->
             IF b \in bad THEN CloseMaster(link[b])
             ELSE IF given /\ b = Last(idle)
             THEN [link[b] EXCEPT !.task = t] ELSE link[b]]
        /\ UNCHANGED program
    BY <1>1, <1>12 DEF idle, bad, given
  <2>2. filter' \in [Socket -> {"None", "Send", "Receive"}]
    BY <2>1 DEF TypeOK
  <2>3. pending_tasks' \in Seq(Task)
    BY <1>8, <2>1
  <2>4. ready_sockets' \in Seq(Socket)
    BY <1>4, <1>7, <2>1
  <2>5. task_of_socket' \in [Socket -> Task \cup {0}]
    BY <2>1 DEF TypeOK, Erased
  <2>6. link' \in [Socket -> Link]
    <3>1. \A b \in Socket : /\ CloseMaster(link[b]) \in Link
                            /\ [link[b] EXCEPT !.task = t] \in Link
                            /\ link[b] \in Link
      BY LinkType DEF TypeOK
    <3> QED
      BY <2>1, <3>1
  <2> QED
    BY <1>9, <1>10, <2>1, <2>2, <2>3, <2>4, <2>5, <2>6 DEF TypeOK, sums
<1> QED
  BY <1>11, <1>12

\* StartsOver keeps the types.
LEMMA StartsOverType ==
  ASSUME Typed, NEW w \in Worker, NEW at \in {"waiting", "dead"},
         StartsOver(w, at)
  PROVE  /\ worker' \in [Worker -> WorkerState]
         /\ link' \in [Socket -> Link]
         /\ ConnectedWorkers'
<1>1. /\ worker \in [Worker -> WorkerState] /\ link \in [Socket -> Link]
      /\ ConnectedWorkers
  BY DEF Typed, TypeOK
<1>2. \A c \in Socket : [link[c] EXCEPT !.worker_open = FALSE, !.task = 0] \in Link
  BY <1>1, LinkType
<1>3. link' \in [Socket -> Link]
  BY <1>1, <1>2 DEF StartsOver
<1>4. [at |-> at, heard |-> FALSE, socket |-> 0, task |-> 0] \in WorkerState
  BY DEF WorkerState
<1>5. worker' = [worker EXCEPT
        ![w] = [at |-> at, heard |-> FALSE, socket |-> 0, task |-> 0]]
  BY DEF StartsOver
<1> QED
  BY <1>1, <1>3, <1>4, <1>5 DEF ConnectedWorkers

\* Each step of the master keeps the types.
LEMMA MasterTyped ==
  ASSUME Typed, Master
  PROVE  Typed'
<1> USE DEF Typed
<1>1. ASSUME NEW reached \in SUBSET Worker, DiscoverWorkers(reached)
      PROVE  Typed'
  BY <1>1 DEF DiscoverWorkers, TypeOK, ConnectedWorkers, WorkerState, scheduler, sums
<1>2. ASSUME NEW c \in Socket, AcceptEvent(c)
      PROVE  Typed'
  <2>1. ASSUME link' = [link EXCEPT ![c].phase = "accepted"], AddAndEnable(c, "Send"),
               UNCHANGED <<scheduler, program>>
        PROVE  Typed'
    BY <1>2, <2>1 DEF AcceptEvent, AddAndEnable, TypeOK, ConnectedWorkers, Link, Phase,
                      scheduler, sums
  <2>2. ASSUME Ends("refused")
        PROVE  Typed'
    <3>1. link' \in [Socket -> Link]
      BY <2>2, LinkType DEF TypeOK, Ends
    <3> QED
      BY <1>2, <2>2, <3>1 DEF AcceptEvent, TypeOK, ConnectedWorkers, sums, scheduler, Ends
  <2> QED
    BY <1>2, <2>1, <2>2 DEF AcceptEvent
<1>3. ASSUME NEW c \in Socket, SendEvent(c)
      PROVE  Typed'
  <2>1. CASE pending_tasks = <<>>
    <3>1. ready_sockets' = Append(ready_sockets, c)
      BY <1>3, <2>1 DEF SendEvent, Enable
    <3>2. /\ filter' = [filter EXCEPT ![c] = "Receive"]
          /\ UNCHANGED <<pending_tasks, task_of_socket, sums, program, link,
                         worker, spent>>
      BY <1>3, <2>1 DEF SendEvent, Enable
    <3>3. ready_sockets' \in Seq(Socket)
      BY <3>1 DEF TypeOK
    <3> QED
      BY <3>2, <3>3 DEF TypeOK, ConnectedWorkers, sums
  <2>2. CASE pending_tasks # <<>>
    <3>1. Last(pending_tasks) \in Task /\ Front(pending_tasks) \in Seq(Task)
      BY <2>2, QueueEnds DEF TypeOK
    <3>2. ASSUME ProcessBadSocket(c, Last(pending_tasks), Front(pending_tasks),
                                  IF link[c].worker_open THEN 1 ELSE 0)
          PROVE  Typed'
      <4>1. TypeOK'
        BY <3>1, <3>2, ProcessBadSocketType
      <4>2. UNCHANGED worker
        BY <3>2 DEF ProcessBadSocket
      <4> QED
        BY <4>1, <4>2 DEF ConnectedWorkers
    <3>3. ASSUME /\ pending_tasks' = Front(pending_tasks)
                 /\ task_of_socket' =
                      [task_of_socket EXCEPT ![c] = Last(pending_tasks)]
                 /\ link' = [link EXCEPT ![c].task = Last(pending_tasks)]
                 /\ filter' = [filter EXCEPT ![c] = "Receive"]
                 /\ UNCHANGED <<ready_sockets, sums, program, worker, spent>>
          PROVE  Typed'
      <4>1. link' \in [Socket -> Link]
        BY <3>1, <3>3, LinksType DEF TypeOK
      <4> QED
        BY <3>1, <3>3, <4>1 DEF TypeOK, ConnectedWorkers, sums
    <3>4. ASSUME Ends("killed"), UNCHANGED <<sums, worker, spent>>
          PROVE  Typed'
      <4>1. link' \in [Socket -> Link]
        BY <3>4, LinkType DEF TypeOK, Ends
      <4> QED
        BY <3>4, <4>1 DEF TypeOK, ConnectedWorkers, sums, scheduler, Ends
    <3> QED
      BY <1>3, <2>2, <3>2, <3>3, <3>4 DEF SendEvent, Enable
  <2> QED
    BY <2>1, <2>2
<1>4. ASSUME NEW c \in Socket, ReceiveEvent(c)
      PROVE  Typed'
  <2> DEFINE t == link[c].response
  <2>1. t \in Task
    BY <1>4 DEF ReceiveEvent, TypeOK, Link
  <2>2. ASSUME ProcessBadSocket(c, task_of_socket[c], pending_tasks, 1)
        PROVE  Typed'
    <3>1. TypeOK'
      BY <2>2, ProcessBadSocketType DEF TypeOK
    <3>2. UNCHANGED worker
      BY <2>2 DEF ProcessBadSocket
    <3> QED
      BY <3>1, <3>2 DEF ConnectedWorkers
  <2>3. ASSUME /\ filter' = [filter EXCEPT ![c] = "Send"]
               /\ link' = [link EXCEPT ![c].response = 0]
               /\ IF t \notin task_is_finished
                  THEN /\ MarkFinished(t)
                       /\ result' = [result EXCEPT ![t] = @ + 1]
                       /\ finished_tasks' = finished_tasks + 1
                  ELSE UNCHANGED sums
               /\ UNCHANGED <<scheduler, program, worker, spent>>
        PROVE  Typed'
    <3>1. /\ task_is_finished' \subseteq Task
          /\ result' \in [Task -> Nat]
          /\ finished_tasks' \in Nat
      <4>1. /\ task_is_finished \subseteq Task
            /\ result \in [Task -> Nat]
            /\ finished_tasks \in Nat
        BY DEF TypeOK
      <4> HIDE DEF t
      <4> QED
        BY <2>1, <2>3, <4>1 DEF MarkFinished, sums
    <3>2. link' \in [Socket -> Link]
      BY <2>3, LinksType DEF TypeOK
    <3> QED
      BY <2>3, <3>1, <3>2 DEF TypeOK, ConnectedWorkers, scheduler
  <2> QED
    BY <1>4, <2>2, <2>3 DEF ReceiveEvent, Enable
<1>5. ASSUME NEW c \in Socket, ConnectionClosedEvent(c)
      PROVE  Typed'
  <2>1. ProcessBadSocket(c, task_of_socket[c], pending_tasks, 0)
    BY <1>5 DEF ConnectionClosedEvent
  <2>2. TypeOK'
    BY <2>1, ProcessBadSocketType DEF TypeOK
  <2>3. UNCHANGED worker
    BY <2>1 DEF ProcessBadSocket
  <2> QED
    BY <2>2, <2>3 DEF ConnectedWorkers
<1>6. ASSUME Return
      PROVE  Typed'
  <2>1. link' \in [Socket -> Link]
    BY <1>6, LinkType DEF Return, TypeOK
  <2> QED
    BY <1>6, <2>1 DEF Return, TypeOK, ConnectedWorkers, scheduler, sums
<1> QED
  BY <1>1, <1>2, <1>3, <1>4, <1>5, <1>6 DEF Master

\* Each step of a worker keeps the types, and leaves the master alone.
LEMMA ServeTyped ==
  ASSUME Typed, Serve
  PROVE  Typed' /\ UNCHANGED <<scheduler, sums, filter, program>>
<1> USE DEF Typed
<1>0. PICK w \in Worker : \/ SkipDiscovery(w) \/ Connect(w) \/ ReceiveTask(w)
                          \/ SendResponse(w) \/ Die(w)
  BY DEF Serve
<1>1. UNCHANGED <<scheduler, sums, filter, program>>
  BY <1>0 DEF SkipDiscovery, Connect, ReceiveTask, SendResponse, Die
<1>2. spent' \in [losses : Nat, deaths : Nat]
  BY <1>0 DEF SkipDiscovery, Connect, ReceiveTask, SendResponse, Die, Lose, TypeOK
<1>3. /\ worker' \in [Worker -> WorkerState]
      /\ link' \in [Socket -> Link]
      /\ ConnectedWorkers'
  <2>0. /\ worker \in [Worker -> WorkerState] /\ link \in [Socket -> Link]
        /\ ConnectedWorkers
    BY DEF TypeOK
  <2>1. CASE SkipDiscovery(w) \/ Die(w)
    BY <2>1, StartsOverType DEF SkipDiscovery, Die
  <2>2. CASE Connect(w)
    <3>1. ASSUME NEW c \in Socket,
                 link' = [link EXCEPT ![c] =
                   [phase |-> "backlog", task |-> 0, response |-> 0,
                    master_open |-> TRUE, worker_open |-> TRUE]],
                 worker' = [worker EXCEPT ![w] =
                   [at |-> "receiving", heard |-> FALSE, socket |-> c,
                    task |-> 0]]
          PROVE  /\ worker' \in [Worker -> WorkerState]
                 /\ link' \in [Socket -> Link]
                 /\ ConnectedWorkers'
      <4>1. /\ [phase |-> "backlog", task |-> 0, response |-> 0,
                master_open |-> TRUE, worker_open |-> TRUE] \in Link
            /\ [at |-> "receiving", heard |-> FALSE, socket |-> c, task |-> 0]
                 \in WorkerState
        BY DEF Link, Phase, WorkerState
      <4> QED
        BY <2>0, <3>1, <4>1 DEF ConnectedWorkers
    <3>2. CASE StartsOver(w, "dead")
      BY <3>2, StartsOverType
    <3> QED
      BY <2>2, <3>1, <3>2 DEF Connect
  <2>3. CASE ReceiveTask(w)
    <3> DEFINE c == worker[w].socket
    <3>1. c \in Socket /\ link[c] \in Link /\ link[c].task \in Task \cup {0}
      BY <2>0, <2>3 DEF ReceiveTask, ConnectedWorkers, Link
    <3>2. CASE StartsOver(w, "waiting")
      BY <3>2, StartsOverType
    <3>3. CASE /\ worker' = [worker EXCEPT ![w].at = "computing",
                                           ![w].task = link[c].task]
               /\ link' = [link EXCEPT ![c].task = 0]
      <4>1. link' \in [Socket -> Link]
        BY <2>0, <3>3, LinksType
      <4>2. [worker[w] EXCEPT !.at = "computing", !.task = link[c].task]
              \in WorkerState
        BY <2>0, <3>1 DEF WorkerState
      <4>3. worker' = [worker EXCEPT ![w] =
              [worker[w] EXCEPT !.at = "computing", !.task = link[c].task]]
        BY <2>0, <3>3
      <4>4. worker'[w].socket = c
        BY <2>0, <4>3 DEF WorkerState
      <4> QED
        BY <2>0, <3>1, <4>1, <4>2, <4>3, <4>4 DEF ConnectedWorkers
    <3>4. CASE /\ worker' = [worker EXCEPT ![w].at = "spinning"]
               /\ UNCHANGED link
      BY <2>0, <3>4 DEF WorkerState, ConnectedWorkers
    <3> QED
      BY <2>3, <3>2, <3>3, <3>4 DEF ReceiveTask
  <2>4. CASE SendResponse(w)
    <3> DEFINE c == worker[w].socket
    <3>1. CASE StartsOver(w, "waiting")
      BY <3>1, StartsOverType
    <3>2. CASE /\ link' = [link EXCEPT ![c].response = worker[w].task]
               /\ worker' = [worker EXCEPT ![w].at = "receiving", ![w].task = 0]
               /\ worker[w].at = "computing"
      <4>1. worker[w].task \in Task \cup {0}
        BY <2>0 DEF WorkerState
      <4>2. link' \in [Socket -> Link]
        BY <2>0, <3>2, <4>1, LinksType
      <4>3. /\ worker' \in [Worker -> WorkerState]
            /\ ConnectedWorkers'
        BY <2>0, <3>2 DEF WorkerState, ConnectedWorkers
      <4> QED
        BY <4>2, <4>3
    <3> QED
      BY <2>4, <3>1, <3>2 DEF SendResponse
  <2> QED
    BY <1>0, <2>1, <2>2, <2>3, <2>4
<1> QED
  BY <1>1, <1>2, <1>3 DEF TypeOK, scheduler, sums

LEMMA TypedNext ==
  ASSUME Typed, [Next]_vars
  PROVE  Typed'
<1>1. CASE UNCHANGED vars
  BY <1>1 DEF Typed, TypeOK, ConnectedWorkers, vars, scheduler, sums
<1> QED
  BY <1>1, MasterTyped, ServeTyped DEF Next

LEMMA TypedInit == Init => Typed
  BY DEF Init, Typed, TypeOK, ConnectedWorkers, Link, Phase, WorkerState

\* Every variable keeps its type, for any number of workers and tasks: in
\* particular the queue never holds task 0, whatever bad sockets had.
THEOREM TypeCorrect == Spec => []TypeOK
<1>1. Typed => TypeOK
  BY DEF Typed
<1> QED
  BY <1>1, TypedInit, TypedNext, PTL DEF Spec

-----------------------------------------------------------------------------
(* The master implements TaskFarm.                                         *)

\* The result, the flags and the count of finished tasks say the same.
SumsAgree ==
  /\ result = [t \in Task |-> IF t \in task_is_finished THEN 1 ELSE 0]
  /\ finished_tasks = Cardinality(task_is_finished)

\* What a step may do to the sums: nothing, while Integrate does not return;
\* one task that had no result gets it; or Integrate returns.
SumStep ==
  \/ /\ UNCHANGED sums
     /\ (program' = "returned") = (program = "returned")
  \/ /\ \E t \in Task \ task_is_finished :
          /\ task_is_finished' = task_is_finished \cup {t}
          /\ result' = [result EXCEPT ![t] = @ + 1]
          /\ finished_tasks' = finished_tasks + 1
     /\ program = "running" /\ program' = program
  \/ /\ program = "running" /\ program' = "returned"
     /\ finished_tasks = TaskCount
     /\ UNCHANGED sums

LEMMA ProcessBadSocketSums ==
  ASSUME NEW c, NEW t, NEW pending, NEW losses, program = "running",
         ProcessBadSocket(c, t, pending, losses)
  PROVE  UNCHANGED sums /\ program' \in {"running", "uncaught", "killed"}
  BY DEF ProcessBadSocket, Ends

\* Each step of the program is one of these.
LEMMA SumSteps ==
  ASSUME Typed, [Next]_vars
  PROVE  SumStep
<1>1. CASE UNCHANGED vars
  BY <1>1 DEF SumStep, vars
<1>2. CASE Serve
  BY <1>2, ServeTyped DEF SumStep
<1>3. ASSUME NEW reached \in SUBSET Worker, DiscoverWorkers(reached)
      PROVE  SumStep
  BY <1>3 DEF DiscoverWorkers, SumStep
<1>4. ASSUME NEW c \in Socket, AcceptEvent(c)
      PROVE  SumStep
  BY <1>4 DEF AcceptEvent, Ends, Polls, SumStep
<1>5. ASSUME NEW c \in Socket, SendEvent(c)
      PROVE  SumStep
  BY <1>5, ProcessBadSocketSums DEF SendEvent, Ends, Polls, SumStep
<1>6. ASSUME NEW c \in Socket, ConnectionClosedEvent(c)
      PROVE  SumStep
  BY <1>6, ProcessBadSocketSums DEF ConnectionClosedEvent, Polls, SumStep
<1>7. ASSUME NEW c \in Socket, ReceiveEvent(c)
      PROVE  SumStep
  <2> DEFINE t == link[c].response
  <2>1. t \in Task
    BY <1>7 DEF ReceiveEvent, Typed, TypeOK, Link
  <2>2. program = "running"
    BY <1>7 DEF ReceiveEvent, Polls
  <2>3. CASE ProcessBadSocket(c, task_of_socket[c], pending_tasks, 1)
    BY <2>2, <2>3, ProcessBadSocketSums DEF SumStep
  <2>4. CASE /\ IF t \notin task_is_finished
                THEN /\ MarkFinished(t)
                     /\ result' = [result EXCEPT ![t] = @ + 1]
                     /\ finished_tasks' = finished_tasks + 1
                ELSE UNCHANGED sums
             /\ UNCHANGED <<scheduler, program, worker, spent>>
    <3> HIDE DEF t
    <3> QED
      BY <2>1, <2>2, <2>4 DEF SumStep, MarkFinished
  <2> QED
    BY <1>7, <2>3, <2>4 DEF ReceiveEvent
<1>8. ASSUME Return
      PROVE  SumStep
  BY <1>8 DEF Return, LoopEnds, SumStep
<1> QED
  BY <1>1, <1>2, <1>3, <1>4, <1>5, <1>6, <1>7, <1>8 DEF Next, Master

\* The tasks are TaskCount in number, and a set of so many holds them all.
LEMMA AllTasks ==
  /\ IsFiniteSet(Task)
  /\ \A S \in SUBSET Task : /\ IsFiniteSet(S)
                            /\ Cardinality(S) = TaskCount => S = Task
<1>1. IsFiniteSet(Task) /\ Cardinality(Task) = TaskCount
  BY FS_Interval DEF Task
<1> QED
  BY <1>1, FS_Subset

LEMMA SumsNext ==
  ASSUME Typed, SumsAgree, SumStep
  PROVE  SumsAgree'
<1>1. CASE UNCHANGED sums
  BY <1>1 DEF SumsAgree, sums
<1>2. ASSUME NEW t \in Task \ task_is_finished,
             task_is_finished' = task_is_finished \cup {t},
             result' = [result EXCEPT ![t] = @ + 1],
             finished_tasks' = finished_tasks + 1
      PROVE  SumsAgree'
  <2>1. IsFiniteSet(task_is_finished)
    <3>1. task_is_finished \in SUBSET Task
      BY DEF Typed, TypeOK
    <3> QED
      BY <3>1, AllTasks
  <2>2. Cardinality(task_is_finished') = Cardinality(task_is_finished) + 1
    BY <1>2, <2>1, FS_AddElement
  <2>3. result' = [u \in Task |-> IF u \in task_is_finished' THEN 1 ELSE 0]
    BY <1>2 DEF SumsAgree
  <2> QED
    BY <1>2, <2>2, <2>3 DEF SumsAgree
<1> QED
  BY <1>1, <1>2 DEF SumStep

\* Integrate adds the integral of every task exactly once, and returns when
\* all are in: whatever responses are lost, sockets closed and tasks repeated,
\* the master's loop implements TaskFarm.
THEOREM ImplementsTaskFarm == Spec => FarmSpec
<1>1. Init => Typed /\ SumsAgree
  BY FS_EmptySet, TypedInit DEF Init, SumsAgree
<1>2. Typed /\ SumsAgree /\ [Next]_vars => (Typed /\ SumsAgree)'
  BY TypedNext, SumSteps, SumsNext
<1>3. Init => Farm!Init
  BY DEF Init, Farm!Init
<1>4. Typed /\ SumsAgree /\ [Next]_vars
        => [Farm!Next]_<<result, program = "returned">>
  <2> SUFFICES ASSUME Typed, SumsAgree, [Next]_vars
               PROVE  [Farm!Next]_<<result, program = "returned">>
    OBVIOUS
  <2>1. CASE /\ UNCHANGED sums
             /\ (program' = "returned") = (program = "returned")
    BY <2>1 DEF sums
  <2>2. ASSUME NEW t \in Task \ task_is_finished,
               result' = [result EXCEPT ![t] = @ + 1],
               program = "running", program' = program
        PROVE  Farm!Next
    <3>1. result[t] = 0
      BY DEF SumsAgree
    <3>2. result' = [result EXCEPT ![t] = 1]
      BY <2>2, <3>1
    <3> QED
      BY <2>2, <3>1, <3>2 DEF Farm!Next, Farm!Add
  <2>3. CASE /\ program = "running" /\ program' = "returned"
             /\ finished_tasks = TaskCount
             /\ UNCHANGED sums
    <3>1. task_is_finished = Task
      <4>1. task_is_finished \in SUBSET Task
        BY DEF Typed, TypeOK
      <4>2. Cardinality(task_is_finished) = TaskCount
        BY <2>3 DEF SumsAgree
      <4> QED
        BY <4>1, <4>2, AllTasks
    <3>2. \A t \in Task : result[t] = 1
      BY <3>1 DEF SumsAgree
    <3> QED
      BY <2>3, <3>2 DEF Farm!Next, Farm!Return, sums
  <2> QED
    BY <2>1, <2>2, <2>3, SumSteps DEF SumStep
<1> QED
  BY <1>1, <1>2, <1>3, <1>4, PTL DEF Spec, FarmSpec, Farm!Spec

-----------------------------------------------------------------------------
(* No task waits while a worker is idle.                                   *)

LEMMA ProcessBadSocketIdle ==
  ASSUME TypeOK, NEW c \in Socket, NEW t \in Task \cup {0},
         NEW pending \in Seq(Task), NEW losses \in Nat,
         ProcessBadSocket(c, t, pending, losses),
         NoIdleWhilePending,
         pending = <<>> \/ ready_sockets = <<>>
  PROVE  NoIdleWhilePending'
<1>1. PICK k \in IF IsUnfinished(t) THEN 0..Len(ready_sockets) ELSE {0} :
        LET idle == SubSeq(ready_sockets, 1, Len(ready_sockets) - k)
            given == IsUnfinished(t) /\ SomeIdle(idle)
        IN \/ UNCHANGED scheduler
           \/ /\ pending_tasks' = IF IsUnfinished(t) /\ ~given
                                   THEN Append(pending, t) ELSE pending
              /\ ready_sockets' = IF given THEN Front(idle) ELSE idle
  BY DEF ProcessBadSocket, Ends
<1> DEFINE idle == SubSeq(ready_sockets, 1, Len(ready_sockets) - k)
           given == IsUnfinished(t) /\ SomeIdle(idle)
<1>2. CASE UNCHANGED scheduler
  BY <1>2 DEF NoIdleWhilePending, scheduler
<1>3. ready_sockets \in Seq(Socket) /\ k \in 0..Len(ready_sockets)
  BY DEF TypeOK
<1>4. ready_sockets = <<>> => idle = <<>>
  BY <1>3, IdleType, EmptySeq
<1> HIDE DEF idle
<1>5. CASE /\ pending_tasks' = IF IsUnfinished(t) /\ ~given
                               THEN Append(pending, t) ELSE pending
           /\ ready_sockets' = IF given THEN Front(idle) ELSE idle
  BY <1>4, <1>5 DEF NoIdleWhilePending, SomeIdle
<1> QED
  BY <1>1, <1>2, <1>5 DEF idle

\* A task waits only when no worker is idle: both lists are never filled at
\* once, however ready sockets, lost tasks and closed connections alternate.
THEOREM NoneIdle == Spec => []NoIdleWhilePending
<1>1. Init => NoIdleWhilePending
  BY DEF Init, NoIdleWhilePending
<1>2. TypeOK /\ TypeOK' /\ NoIdleWhilePending /\ [Next]_vars => NoIdleWhilePending'
  <2> SUFFICES ASSUME TypeOK, NoIdleWhilePending, [Next]_vars
               PROVE  NoIdleWhilePending'
    OBVIOUS
  <2>1. CASE UNCHANGED scheduler
    BY <2>1 DEF NoIdleWhilePending, scheduler
  <2>2. CASE Serve
    BY <2>1, <2>2
    DEF Serve, SkipDiscovery, Connect, ReceiveTask, SendResponse, Die
  <2>3. ASSUME NEW c \in Socket, SendEvent(c)
        PROVE  NoIdleWhilePending'
    <3>1. CASE pending_tasks = <<>>
      BY <2>3, <3>1 DEF SendEvent, Enable, NoIdleWhilePending
    <3>2. CASE pending_tasks # <<>>
      <4>1. ready_sockets = <<>>
        BY <3>2 DEF NoIdleWhilePending
      <4>2. Last(pending_tasks) \in Task /\ Front(pending_tasks) \in Seq(Task)
        BY <3>2, QueueEnds DEF TypeOK
      <4>3. CASE UNCHANGED ready_sockets
        BY <4>1, <4>3 DEF NoIdleWhilePending
      <4> QED
        BY <2>3, <3>2, <4>1, <4>2, <4>3, ProcessBadSocketIdle
        DEF SendEvent, Enable, Ends, scheduler
    <3> QED
      BY <3>1, <3>2
  <2>4. ASSUME NEW c \in Socket, NEW losses \in Nat,
               ProcessBadSocket(c, task_of_socket[c], pending_tasks, losses)
        PROVE  NoIdleWhilePending'
    <3>1. task_of_socket[c] \in Task \cup {0} /\ pending_tasks \in Seq(Task)
      BY DEF TypeOK
    <3> QED
      BY <2>4, <3>1, ProcessBadSocketIdle DEF NoIdleWhilePending
  <2>5. ASSUME NEW c \in Socket, ReceiveEvent(c) \/ ConnectionClosedEvent(c)
        PROVE  NoIdleWhilePending'
    BY <2>1, <2>4, <2>5 DEF ReceiveEvent, ConnectionClosedEvent
  <2>6. CASE Master
    BY <2>1, <2>3, <2>5, <2>6 DEF Master, DiscoverWorkers, AcceptEvent, Ends, Return
  <2> QED
    BY <2>1, <2>2, <2>6 DEF Next, vars
<1> QED
  BY <1>1, <1>2, TypeCorrect, PTL DEF Spec

-----------------------------------------------------------------------------
(* Every task is held once, and work is done for the socket that has it.   *)

\* The connection c has no task that has no result yet.
Free(c) == ~IsUnfinished(task_of_socket[c])

\* Every task without a result is with one socket or once in the queue.
HeldInv ==
  /\ IsInjective(pending_tasks)
  /\ \A t \in Range(pending_tasks) :
       t \notin task_is_finished /\ \A c \in Socket : task_of_socket[c] # t
  /\ \A b, c \in Socket :
       task_of_socket[b] = task_of_socket[c] /\ task_of_socket[c] # 0 => b = c
  /\ \A t \in Task \ task_is_finished :
       t \in Range(pending_tasks) \/ \E c \in Socket : task_of_socket[c] = t

\* A socket that is to be given a task has none to lose.
FreeInv ==
  /\ IsInjective(ready_sockets)
  /\ \A c \in Range(ready_sockets) : filter[c] # "Send" /\ Free(c)
  /\ \A c \in Socket : filter[c] = "Send" => Free(c)

\* What may be under way on c, if anything.
Expected(c, t) ==
  t # 0 => t = task_of_socket[c] /\ t \notin task_is_finished /\ filter[c] = "Receive"

\* A connection is new, open, or closed by the master.
LinkInv ==
  \A c \in Socket :
    /\ link[c].phase # "accepted" =>
         /\ task_of_socket[c] = 0 /\ filter[c] = "None" /\ c \notin Range(ready_sockets)
         /\ link[c].task = 0 /\ link[c].response = 0
    /\ link[c].phase = "accepted" /\ filter[c] = "None" => ~link[c].master_open
    /\ link[c].response # 0 => link[c].master_open
    /\ link[c].master_open /\ link[c].worker_open =>
         /\ link[c].task = 0 \/ link[c].response = 0
         /\ Expected(c, link[c].task) /\ Expected(c, link[c].response)

\* A worker has a connection of its own, and works for nobody else.
WorkerInv ==
  \A w \in Worker :
    LET c == worker[w].socket
    IN c # 0 =>
         /\ link[c].worker_open /\ link[c].phase # "unused"
         /\ \A v \in Worker : worker[v].socket = c => v = w
         /\ link[c].master_open /\ worker[w].task # 0 =>
              /\ Expected(c, worker[w].task)
              /\ link[c].task = 0 /\ link[c].response = 0

WorkInv == HeldInv /\ FreeInv /\ LinkInv /\ WorkerInv

\* What appending does to the members of a queue.
LEMMA AppendDistinct ==
  ASSUME NEW S, NEW s \in Seq(S), NEW e \in S
  PROVE  /\ Range(Append(s, e)) = Range(s) \cup {e}
         /\ IsInjective(s) /\ e \notin Range(s) => IsInjective(Append(s, e))
<1>1. /\ DOMAIN s = 1..Len(s) /\ Len(s) \in Nat
      /\ DOMAIN Append(s, e) = 1..(Len(s) + 1)
      /\ \A i \in 1..Len(s) : Append(s, e)[i] = s[i]
      /\ Append(s, e)[Len(s) + 1] = e
  BY AppendProperties, LenProperties
<1>2. Range(Append(s, e)) = Range(s) \cup {e}
  <2>1. ASSUME NEW x \in Range(s) \cup {e} PROVE x \in Range(Append(s, e))
    BY <1>1, <2>1 DEF Range
  <2>2. ASSUME NEW x \in Range(Append(s, e)) PROVE x \in Range(s) \cup {e}
    <3>1. PICK i \in 1..(Len(s) + 1) : x = Append(s, e)[i]
      BY <1>1 DEF Range
    <3>2. i = Len(s) + 1 \/ i \in 1..Len(s)
      BY <1>1
    <3>. QED  BY <1>1, <3>1, <3>2 DEF Range
  <2>. QED  BY <2>1, <2>2
<1>3. ASSUME IsInjective(s), e \notin Range(s) PROVE IsInjective(Append(s, e))
  <2>. DEFINE a == Append(s, e)
  <2>1. \A i \in 1..Len(s) : a[i] = s[i] /\ s[i] # e
    BY <1>1, <1>3 DEF Range
  <2>2. DOMAIN a = 1..(Len(s) + 1) /\ a[Len(s) + 1] = e
    BY <1>1
  <2>. HIDE DEF a
  <2>3. ASSUME NEW i \in DOMAIN a, NEW j \in DOMAIN a, a[i] = a[j] PROVE i = j
    <3>1. /\ i = Len(s) + 1 \/ i \in 1..Len(s)
          /\ j = Len(s) + 1 \/ j \in 1..Len(s)
      BY <1>1, <2>2
    <3>. QED  BY <1>1, <1>3, <2>1, <2>2, <2>3, <3>1 DEF IsInjective
  <2>4. IsInjective(a)
    BY <2>3 DEF IsInjective
  <2>. QED  BY <2>4 DEF a
<1>. QED  BY <1>2, <1>3

\* A beginning of a queue and its members.
LEMMA BeginningDistinct ==
  ASSUME NEW S, NEW s \in Seq(S), NEW r \in Seq(S), Len(r) <= Len(s),
         \A i \in 1..Len(r) : r[i] = s[i]
  PROVE  /\ Range(r) \subseteq Range(s)
         /\ IsInjective(s) =>
              /\ IsInjective(r)
              /\ \A i \in (Len(r) + 1)..Len(s) : s[i] \notin Range(r)
         /\ Range(s) \subseteq Range(r) \cup {s[i] : i \in (Len(r) + 1)..Len(s)}
<1>1. /\ DOMAIN s = 1..Len(s) /\ Len(s) \in Nat
      /\ DOMAIN r = 1..Len(r) /\ Len(r) \in Nat
      /\ \A i \in 1..Len(s) : i \in 1..Len(r) \/ i \in (Len(r) + 1)..Len(s)
      /\ \A i \in 1..Len(r) : i \in 1..Len(s)
      /\ \A i \in (Len(r) + 1)..Len(s) : i \in 1..Len(s) /\ i \notin 1..Len(r)
  BY LenProperties
<1>2. Range(r) \subseteq Range(s)
  BY <1>1 DEF Range
<1>3. ASSUME IsInjective(s) PROVE IsInjective(r)
  BY <1>1, <1>3 DEF IsInjective
<1>4. ASSUME IsInjective(s), NEW i \in (Len(r) + 1)..Len(s) PROVE s[i] \notin Range(r)
  BY <1>1, <1>4 DEF IsInjective, Range
<1>5. Range(s) \subseteq Range(r) \cup {s[i] : i \in (Len(r) + 1)..Len(s)}
  BY <1>1 DEF Range
<1>. QED  BY <1>2, <1>3, <1>4, <1>5

LEMMA FrontDistinct ==
  ASSUME NEW S, NEW s \in Seq(S), s # <<>>
  PROVE  /\ Last(s) \in Range(s) /\ Range(Front(s)) \subseteq Range(s)
         /\ Range(s) \subseteq Range(Front(s)) \cup {Last(s)}
         /\ IsInjective(s) => IsInjective(Front(s)) /\ Last(s) \notin Range(Front(s))
<1>1. /\ Front(s) \in Seq(S) /\ Len(s) \in Nat \ {0}
      /\ Len(Front(s)) = Len(s) - 1
      /\ \A i \in 1..(Len(s) - 1) : Front(s)[i] = s[i]
  BY QueueEnds
<1>2. /\ (Len(Front(s)) + 1)..Len(s) = {Len(s)} /\ Len(s) \in 1..Len(s)
      /\ Len(Front(s)) <= Len(s)
      /\ \A i \in 1..Len(Front(s)) : Front(s)[i] = s[i]
  BY <1>1
<1>3. Last(s) = s[Len(s)] /\ Last(s) \in Range(s)
  BY <1>2, LenProperties DEF Last, Range
<1>4. /\ Range(Front(s)) \subseteq Range(s)
      /\ IsInjective(s) =>
           /\ IsInjective(Front(s))
           /\ \A i \in (Len(Front(s)) + 1)..Len(s) : s[i] \notin Range(Front(s))
      /\ Range(s) \subseteq
           Range(Front(s)) \cup {s[i] : i \in (Len(Front(s)) + 1)..Len(s)}
  BY <1>1, <1>2, BeginningDistinct
<1>. QED  BY <1>2, <1>3, <1>4

\* What ProcessBadSocket does, b being the socket that gets the task, if any.
BadStep(c, t, pending, bad, b) ==
  /\ c \in bad /\ bad \subseteq Socket /\ bad \ {c} \subseteq Range(ready_sockets)
  /\ filter' = [x \in Socket |-> IF x \in bad THEN "None" ELSE filter[x]]
  /\ task_of_socket' = [x \in Socket |-> IF x \in bad THEN 0
                                         ELSE IF x = b THEN t ELSE task_of_socket[x]]
  /\ link' = [x \in Socket |-> IF x \in bad THEN CloseMaster(link[x])
                               ELSE IF x = b THEN [link[x] EXCEPT !.task = t]
                               ELSE link[x]]
  /\ IsInjective(ready_sockets')
  /\ Range(ready_sockets') \subseteq Range(ready_sockets) \ {b}
  /\ IF b = 0
     THEN pending_tasks' = IF IsUnfinished(t) THEN Append(pending, t) ELSE pending
     ELSE /\ IsUnfinished(t) /\ b \in Range(ready_sockets) \ bad
          /\ pending_tasks' = pending

LEMMA ProcessBadSocketEffect ==
  ASSUME TypeOK, FreeInv, NEW c \in Socket, NEW t \in Task \cup {0},
         NEW pending \in Seq(Task), NEW losses \in Nat,
         IsUnfinished(t) => c \notin Range(ready_sockets),
         ProcessBadSocket(c, t, pending, losses)
  PROVE  /\ UNCHANGED <<sums, worker>>
         /\ \/ Ends("killed") \/ Ends("uncaught")
            \/ \E bad, b : BadStep(c, t, pending, bad, b)
<1>1. PICK k \in IF IsUnfinished(t) THEN 0..Len(ready_sockets) ELSE {0} :
        LET idle == SubSeq(ready_sockets, 1, Len(ready_sockets) - k)
            bad == {c} \cup
               {ready_sockets[i] : i \in (Len(idle) + 1)..Len(ready_sockets)}
            given == IsUnfinished(t) /\ SomeIdle(idle)
        IN /\ \/ Ends("killed") \/ Ends("uncaught")
              \/ /\ filter' = [b \in Socket |->
                      IF b \in bad THEN "None" ELSE filter[b]]
                 /\ pending_tasks' = IF IsUnfinished(t) /\ ~given
                                     THEN Append(pending, t) ELSE pending
                 /\ ready_sockets' = IF given THEN Front(idle) ELSE idle
                 /\ task_of_socket' = [b \in Socket |->
                      IF b \in bad THEN Erased(b)
                      ELSE IF given /\ b = Last(idle) THEN t
                      ELSE task_of_socket[b]]
                 /\ link' = [b \in Socket |->
                      IF b \in bad THEN CloseMaster(link[b])
                      ELSE IF given /\ b = Last(idle)
                      THEN [link[b] EXCEPT !.task = t] ELSE link[b]]
           /\ UNCHANGED <<sums, worker>>
  BY DEF ProcessBadSocket
<1>. DEFINE idle == SubSeq(ready_sockets, 1, Len(ready_sockets) - k)
            tail == {ready_sockets[i] : i \in (Len(idle) + 1)..Len(ready_sockets)}
            bad == {c} \cup tail
            given == IsUnfinished(t) /\ SomeIdle(idle)
            b == IF given THEN Last(idle) ELSE 0
<1>. SUFFICES ASSUME ~(Ends("killed") \/ Ends("uncaught"))
              PROVE  BadStep(c, t, pending, bad, b)
  BY <1>1
<1>2. /\ ready_sockets \in Seq(Socket) /\ IsInjective(ready_sockets)
      /\ k \in 0..Len(ready_sockets)
  BY DEF TypeOK, FreeInv
<1>3. /\ idle \in Seq(Socket) /\ Len(idle) <= Len(ready_sockets) /\ Len(idle) \in Nat
      /\ \A i \in 1..Len(idle) : idle[i] = ready_sockets[i]
  BY <1>2, IdleType
<1>. HIDE DEF idle
<1>4. /\ Range(idle) \subseteq Range(ready_sockets) /\ IsInjective(idle)
      /\ \A x \in tail : x \notin Range(idle)
  BY <1>2, <1>3, BeginningDistinct
<1>5. tail \subseteq Range(ready_sockets) /\ tail \subseteq Socket
  BY <1>2, <1>3 DEF Range
<1>6. /\ filter' = [x \in Socket |-> IF x \in bad THEN "None" ELSE filter[x]]
      /\ pending_tasks' = IF IsUnfinished(t) /\ ~given THEN Append(pending, t) ELSE pending
      /\ ready_sockets' = IF given THEN Front(idle) ELSE idle
      /\ task_of_socket' = [x \in Socket |-> IF x \in bad THEN 0
                              ELSE IF given /\ x = Last(idle) THEN t ELSE task_of_socket[x]]
      /\ link' = [x \in Socket |-> IF x \in bad THEN CloseMaster(link[x])
                                   ELSE IF given /\ x = Last(idle)
                                   THEN [link[x] EXCEPT !.task = t] ELSE link[x]]
  BY <1>1 DEF idle, Erased
<1>. HIDE DEF tail
<1>7. CASE given
  <2>1. idle # <<>>
    BY <1>7 DEF SomeIdle
  <2>2. /\ Last(idle) \in Range(idle) /\ Range(Front(idle)) \subseteq Range(idle)
        /\ IsInjective(Front(idle)) /\ Last(idle) \notin Range(Front(idle))
    BY <1>3, <1>4, <2>1, FrontDistinct
  <2>3. Last(idle) \in Socket /\ Last(idle) # 0
    <3>1. Last(idle) \in Socket
      BY <1>3, <2>1, QueueEnds
    <3>2. \A x \in Socket : x # 0
      BY DEF Socket
    <3>. QED  BY <3>1, <3>2
  <2>4. b = Last(idle) /\ IsUnfinished(t)
    BY <1>7
  <2>5. Last(idle) \notin bad
    BY <1>4, <2>2, <2>4
  <2>. HIDE DEF b, given
  <2>. QED  BY <1>4, <1>5, <1>6, <1>7, <2>2, <2>3, <2>4, <2>5 DEF BadStep
<1>8. CASE ~given
  <2>1. b = 0
    BY <1>8
  <2>2. \A x \in Socket : x # 0
    BY DEF Socket
  <2>3. 0 \notin Range(idle)
    BY <1>3, <2>2 DEF Range
  <2>. HIDE DEF b, given
  <2>. QED  BY <1>4, <1>5, <1>6, <1>8, <2>1, <2>2, <2>3 DEF BadStep
<1>. QED  BY <1>7, <1>8

\* The queue and the sockets, when a bad socket c has had task t.
LEMMA BadHeld ==
  ASSUME Typed, WorkInv, NEW c \in Socket, NEW t \in Task \cup {0},
         NEW pending \in Seq(Task), NEW bad, NEW b, BadStep(c, t, pending, bad, b),
         UNCHANGED task_is_finished,
         IsUnfinished(t) => c \notin Range(ready_sockets),
         IsInjective(pending), Range(pending) \subseteq Range(pending_tasks),
         t # 0 => /\ t \notin Range(pending)
                  /\ \A x \in Socket \ {c} : task_of_socket[x] # t,
         \A u \in Task \ task_is_finished :
            \/ u \in Range(pending) \/ u = t
            \/ \E x \in Socket \ {c} : task_of_socket[x] = u
  PROVE  HeldInv' /\ FreeInv'
<1>1. /\ task_of_socket \in [Socket -> Task \cup {0}] /\ 0 \notin Task /\ 0 \notin Socket
      /\ filter \in [Socket -> {"None", "Send", "Receive"}]
  BY DEF Typed, TypeOK, Task, Socket
<1>2. /\ c \in bad /\ bad \subseteq Socket /\ bad \ {c} \subseteq Range(ready_sockets)
      /\ \A x \in bad : task_of_socket'[x] = 0 /\ filter'[x] = "None"
      /\ \A x \in Socket \ bad : /\ filter'[x] = filter[x]
                                 /\ x # b => task_of_socket'[x] = task_of_socket[x]
      /\ b # 0 => /\ b \in Socket \ bad /\ b \in Range(ready_sockets)
                  /\ task_of_socket'[b] = t /\ IsUnfinished(t)
  <2>1. Range(ready_sockets) \subseteq Socket
    BY DEF Typed, TypeOK, Range
  <2>. QED  BY <2>1 DEF BadStep
<1>3. \A x \in Range(ready_sockets) : Free(x)
  BY DEF WorkInv, FreeInv
<1>4. \A x \in Socket : task_of_socket[x] \notin task_is_finished /\ task_of_socket[x] # 0
        => ~Free(x)
  BY DEF Free, IsUnfinished
<1>5. \A x \in Socket : Free(x) => Free(x)' \/ x = b
  BY <1>2 DEF Free, IsUnfinished
<1>6. /\ \A u \in Range(pending) :
           u \in Task /\ u \notin task_is_finished /\ \A x \in Socket : task_of_socket[x] # u
      /\ \A x, y \in Socket :
           task_of_socket[x] = task_of_socket[y] /\ task_of_socket[y] # 0 => x = y
  <2>1. Range(pending) \subseteq Task
    BY DEF Range
  <2>. QED  BY <2>1 DEF WorkInv, HeldInv
<1>7. /\ Range(pending_tasks') = Range(pending) \cup
           (IF b = 0 /\ IsUnfinished(t) THEN {t} ELSE {})
      /\ IsInjective(pending_tasks')
  <2>1. CASE b = 0 /\ IsUnfinished(t)
    <3>1. t \in Task /\ t \notin Range(pending)
      BY <2>1 DEF IsUnfinished
    <3>2. pending_tasks' = Append(pending, t)
      BY <2>1 DEF BadStep
    <3>. QED  BY <2>1, <3>1, <3>2, AppendDistinct
  <2>2. CASE ~(b = 0 /\ IsUnfinished(t))
    <3>1. pending_tasks' = pending
      BY <2>2 DEF BadStep
    <3>. QED  BY <2>2, <3>1
  <2>. QED  BY <2>1, <2>2
<1>8. ASSUME NEW u \in Range(pending_tasks')
      PROVE  u \notin task_is_finished' /\ \A x \in Socket : task_of_socket'[x] # u
  <2>1. CASE u \in Range(pending)
    <3>1. u \notin task_is_finished /\ (t # 0 => u # t) /\ u # 0
      BY <2>1, <1>1, <1>6
    <3>2. ASSUME NEW x \in Socket PROVE task_of_socket'[x] # u
      BY <2>1, <3>1, <1>1, <1>2, <1>6 DEF IsUnfinished
    <3>. QED  BY <3>1, <3>2
  <2>2. CASE b = 0 /\ u = t /\ IsUnfinished(t)
    BY <2>2, <1>1, <1>2 DEF IsUnfinished
  <2>. QED  BY <2>1, <2>2, <1>7
<1>9. ASSUME NEW x \in Socket, NEW y \in Socket,
             task_of_socket'[x] = task_of_socket'[y], task_of_socket'[y] # 0
      PROVE  x = y
  <2>1. x \notin bad /\ y \notin bad
    BY <1>2, <1>9
  <2>2. CASE x # b /\ y # b
    BY <1>2, <1>6, <1>9, <2>1, <2>2
  <2>3. CASE x = b /\ y # b
    BY <1>1, <1>2, <1>9, <2>1, <2>3 DEF IsUnfinished
  <2>4. CASE x # b /\ y = b
    BY <1>1, <1>2, <1>9, <2>1, <2>4 DEF IsUnfinished
  <2>. QED  BY <2>2, <2>3, <2>4
<1>10. ASSUME NEW u \in Task \ task_is_finished
       PROVE  u \in Range(pending_tasks') \/ \E x \in Socket : task_of_socket'[x] = u
  <2>1. CASE u \in Range(pending)
    BY <2>1, <1>7
  <2>2. CASE u = t
    <3>1. IsUnfinished(t)
      BY <2>2, <1>1 DEF IsUnfinished
    <3>2. CASE b = 0
      BY <2>2, <3>1, <3>2, <1>7
    <3>3. CASE b # 0
      BY <2>2, <3>3, <1>2
    <3>. QED  BY <3>2, <3>3
  <2>3. ASSUME NEW x \in Socket \ {c}, task_of_socket[x] = u
        PROVE  \E y \in Socket : task_of_socket'[y] = u
    <3>1. x \notin Range(ready_sockets)
      BY <2>3, <1>1, <1>3, <1>4
    <3>2. x \notin bad /\ x # b
      BY <3>1, <1>1, <1>2
    <3>. QED  BY <2>3, <3>2, <1>2
  <2>. QED  BY <2>1, <2>2, <2>3
<1>11. HeldInv'
  BY <1>7, <1>8, <1>9, <1>10 DEF HeldInv
<1>12. FreeInv'
  <2>1. /\ IsInjective(ready_sockets')
        /\ Range(ready_sockets') \subseteq Range(ready_sockets) \ {b}
    BY DEF BadStep
  <2>2. Range(ready_sockets) \subseteq Socket
    BY DEF Typed, TypeOK, Range
  <2>3. ASSUME NEW x \in Range(ready_sockets') PROVE filter'[x] # "Send" /\ Free(x)'
    <3>1. x \in Range(ready_sockets) /\ x # b /\ x \in Socket
      BY <2>1, <2>2
    <3>2. filter[x] # "Send"
      BY <3>1 DEF WorkInv, FreeInv
    <3>. QED  BY <3>1, <3>2, <1>2, <1>3, <1>5
  <2>4. ASSUME NEW x \in Socket, filter'[x] = "Send" PROVE Free(x)'
    <3>1. x \notin bad /\ filter[x] = "Send"
      BY <2>4, <1>2
    <3>2. Free(x) /\ x \notin Range(ready_sockets)
      BY <3>1 DEF WorkInv, FreeInv
    <3>3. x # b
      BY <3>2, <1>1, <1>2
    <3>. QED  BY <3>2, <3>3, <1>5
  <2>. QED  BY <2>1, <2>3, <2>4 DEF FreeInv
<1>. QED  BY <1>11, <1>12

\* A socket that waits for a task has a connection with nothing under way, or
\* one that the master has closed.
LEMMA FreeConnection ==
  ASSUME Typed, WorkInv, NEW c \in Socket, Free(c)
  PROVE  /\ link[c].master_open /\ link[c].worker_open =>
              link[c].task = 0 /\ link[c].response = 0
         /\ \A w \in Worker :
              worker[w].socket = c /\ link[c].master_open => worker[w].task = 0
<1>1. /\ link[c].master_open /\ link[c].worker_open =>
           Expected(c, link[c].task) /\ Expected(c, link[c].response)
      /\ \A w \in Worker :
           worker[w].socket = c /\ link[c].master_open /\ worker[w].task # 0
             => Expected(c, worker[w].task)
  <2>1. c # 0
    BY DEF Socket
  <2>. QED  BY <2>1 DEF WorkInv, LinkInv, WorkerInv
<1>2. ASSUME NEW t, Expected(c, t) PROVE t = 0
  BY <1>2 DEF Expected, Free, IsUnfinished
<1>. QED  BY <1>1, <1>2

\* The connections and the workers, in the same case.
LEMMA BadLinks ==
  ASSUME Typed, WorkInv, NEW c \in Socket, NEW t \in Task \cup {0},
         NEW pending, NEW bad, NEW b, BadStep(c, t, pending, bad, b),
         UNCHANGED <<task_is_finished, worker>>, filter[c] # "None"
  PROVE  LinkInv' /\ WorkerInv'
<1>1. /\ link \in [Socket -> Link] /\ 0 \notin Socket
      /\ Range(ready_sockets) \subseteq Socket
  BY DEF Typed, TypeOK, Socket, Range
<1>2. /\ c \in bad /\ bad \subseteq Socket /\ bad \ {c} \subseteq Range(ready_sockets)
      /\ \A x \in bad : /\ task_of_socket'[x] = 0 /\ filter'[x] = "None"
                        /\ link'[x] = CloseMaster(link[x])
      /\ \A x \in Socket \ bad :
           /\ filter'[x] = filter[x]
           /\ x # b => task_of_socket'[x] = task_of_socket[x] /\ link'[x] = link[x]
           /\ x = b => /\ task_of_socket'[x] = t
                       /\ link'[x] = [link[x] EXCEPT !.task = t]
      /\ b # 0 => /\ b \in Socket \ bad /\ b \in Range(ready_sockets)
                  /\ IsUnfinished(t) /\ Free(b)
      /\ Range(ready_sockets') \subseteq Range(ready_sockets)
  BY <1>1 DEF BadStep, WorkInv, FreeInv
<1>3. \A x \in Socket : Expected(x, 0)'
  BY DEF Expected
<1>4. ASSUME NEW x \in bad
      PROVE  /\ link'[x].phase = link[x].phase /\ link'[x].response = 0
             /\ ~link'[x].master_open /\ link'[x].worker_open = link[x].worker_open
             /\ link'[x].task = link[x].task
             /\ link[x].phase = "accepted"
  <2>1. link[x] \in Link /\ x \in Socket
    BY <1>1, <1>2
  <2>2. link[x].phase = "accepted"
    BY <2>1, <1>2 DEF WorkInv, LinkInv
  <2>3. PICK l \in Link : l = link[x]
    BY <2>1
  <2>4. link'[x] = [l EXCEPT !.master_open = FALSE, !.response = 0]
    BY <2>3, <1>2 DEF CloseMaster
  <2>. QED  BY <2>2, <2>3, <2>4 DEF Link
<1>5. ASSUME NEW x \in Socket \ bad, x = b
      PROVE  /\ link'[x].phase = link[x].phase /\ link[x].phase = "accepted"
             /\ link'[x].response = link[x].response /\ link'[x].task = t
             /\ link'[x].master_open = link[x].master_open
             /\ link'[x].worker_open = link[x].worker_open
             /\ link[x].master_open => filter'[x] = "Receive" /\ Expected(x, t)'
  <2>1. link[x] \in Link /\ x \in Range(ready_sockets)
    BY <1>1, <1>2, <1>5
  <2>2. link[x].phase = "accepted" /\ filter[x] # "Send"
    BY <2>1 DEF WorkInv, LinkInv, FreeInv
  <2>3. link[x].master_open => filter[x] = "Receive"
    BY <2>2 DEF WorkInv, LinkInv, Typed, TypeOK
  <2>4. link[x].master_open => Expected(x, t)'
    BY <2>3, <1>1, <1>2, <1>5 DEF Expected, IsUnfinished
  <2>. QED  BY <2>1, <2>2, <2>3, <2>4, <1>2, <1>5 DEF Link
<1>6. LinkInv'
  <2>. SUFFICES ASSUME NEW x \in Socket
                PROVE
       /\ link'[x].phase # "accepted" =>
            /\ task_of_socket'[x] = 0 /\ filter'[x] = "None"
            /\ x \notin Range(ready_sockets')
            /\ link'[x].task = 0 /\ link'[x].response = 0
       /\ link'[x].phase = "accepted" /\ filter'[x] = "None" => ~link'[x].master_open
       /\ link'[x].response # 0 => link'[x].master_open
       /\ link'[x].master_open /\ link'[x].worker_open =>
            /\ link'[x].task = 0 \/ link'[x].response = 0
            /\ Expected(x, link[x].task)' /\ Expected(x, link[x].response)'
    BY DEF LinkInv
  <2>1. CASE x \in bad
    BY <2>1, <1>4
  <2>2. CASE x \notin bad /\ x = b
    <3>1. link[x].master_open /\ link[x].worker_open => link[x].response = 0
      <4>1. Free(x)
        BY <1>1, <1>2, <2>2
      <4>. QED  BY <4>1, FreeConnection
    <3>2. link[x].response # 0 => link[x].master_open
      BY DEF WorkInv, LinkInv
    <3>3. link'[x].master_open /\ link'[x].worker_open =>
            Expected(x, link[x].task)' /\ Expected(x, link[x].response)'
      BY <2>2, <3>1, <1>3, <1>5
    <3>4. link'[x].phase = "accepted" /\ filter'[x] = "None" => ~link'[x].master_open
      BY <2>2, <1>5
    <3>. QED  BY <2>2, <3>1, <3>2, <3>3, <3>4, <1>5
  <2>3. CASE x \notin bad /\ x # b
    BY <2>3, <1>2 DEF WorkInv, LinkInv, Expected
  <2>. QED  BY <2>1, <2>2, <2>3
<1>7. WorkerInv'
  <2>. SUFFICES ASSUME NEW w \in Worker, NEW x, x = worker[w].socket, x # 0
                PROVE
       /\ link'[x].worker_open /\ link'[x].phase # "unused"
       /\ \A v \in Worker : worker[v].socket = x => v = w
       /\ link'[x].master_open /\ worker[w].task # 0 =>
            /\ Expected(x, worker[w].task)'
            /\ link'[x].task = 0 /\ link'[x].response = 0
    BY DEF WorkerInv
  <2>1. /\ link[x].worker_open /\ link[x].phase # "unused"
        /\ \A v \in Worker : worker[v].socket = x => v = w
        /\ link[x].master_open /\ worker[w].task # 0 =>
             /\ Expected(x, worker[w].task)
             /\ link[x].task = 0 /\ link[x].response = 0
    BY DEF WorkInv, WorkerInv
  <2>2. x \in Socket
    BY DEF Typed, TypeOK, WorkerState
  <2>3. CASE x \in bad
    BY <2>1, <2>3, <1>4
  <2>4. CASE x \notin bad /\ x = b
    <3>1. link[x].master_open => worker[w].task = 0
      BY <2>2, <2>4, <1>2, FreeConnection
    <3>. QED  BY <2>1, <2>2, <2>4, <3>1, <1>5
  <2>5. CASE x \notin bad /\ x # b
    BY <2>1, <2>2, <2>5, <1>2 DEF Expected
  <2>. QED  BY <2>3, <2>4, <2>5
<1>. QED  BY <1>6, <1>7

\* The master's program ends, and every connection is closed.
LEMMA ClosedInv ==
  ASSUME Typed, WorkInv, link' = [c \in Socket |-> CloseMaster(link[c])],
         UNCHANGED <<scheduler, task_is_finished, filter, worker>>
  PROVE  WorkInv'
<1>1. \A c \in Socket : link[c] \in Link
  BY DEF Typed, TypeOK
<1>2. ASSUME NEW c \in Socket
      PROVE  /\ link'[c].phase = link[c].phase /\ link'[c].response = 0
             /\ ~link'[c].master_open /\ link'[c].worker_open = link[c].worker_open
             /\ link'[c].task = link[c].task
  <2>1. PICK l \in Link : l = link[c]
    BY <1>1
  <2>2. link'[c] = [l EXCEPT !.master_open = FALSE, !.response = 0]
    BY <2>1 DEF CloseMaster
  <2>. QED  BY <2>1, <2>2 DEF Link
<1>3. HeldInv' /\ FreeInv'
  BY DEF WorkInv, HeldInv, FreeInv, Free, IsUnfinished, scheduler
<1>4. LinkInv'
  BY <1>2 DEF WorkInv, LinkInv, scheduler
<1>5. WorkerInv'
  <2>1. \A w \in Worker : worker[w].socket # 0 => worker[w].socket \in Socket
    BY DEF Typed, TypeOK, WorkerState
  <2>. QED  BY <1>2, <2>1 DEF WorkInv, WorkerInv
<1>. QED  BY <1>3, <1>4, <1>5 DEF WorkInv

LEMMA BadInvStep ==
  ASSUME Typed, WorkInv, NEW c \in Socket, NEW t \in Task \cup {0},
         NEW pending \in Seq(Task), NEW losses \in Nat,
         ProcessBadSocket(c, t, pending, losses), filter[c] # "None",
         IsUnfinished(t) => c \notin Range(ready_sockets),
         IsInjective(pending), Range(pending) \subseteq Range(pending_tasks),
         t # 0 => /\ t \notin Range(pending)
                  /\ \A x \in Socket \ {c} : task_of_socket[x] # t,
         \A u \in Task \ task_is_finished :
            \/ u \in Range(pending) \/ u = t
            \/ \E x \in Socket \ {c} : task_of_socket[x] = u
  PROVE  WorkInv'
<1>1. /\ UNCHANGED <<sums, worker>>
      /\ \/ Ends("killed") \/ Ends("uncaught")
         \/ \E bad, b : BadStep(c, t, pending, bad, b)
  BY ProcessBadSocketEffect DEF Typed, WorkInv
<1>2. UNCHANGED task_is_finished /\ UNCHANGED worker
  BY <1>1 DEF sums
<1>3. CASE Ends("killed") \/ Ends("uncaught")
  BY <1>2, <1>3, ClosedInv DEF Ends
<1>4. ASSUME NEW bad, NEW b, BadStep(c, t, pending, bad, b) PROVE WorkInv'
  <2>1. HeldInv' /\ FreeInv'
    BY <1>2, <1>4, BadHeld
  <2>2. LinkInv' /\ WorkerInv'
    BY <1>2, <1>4, BadLinks
  <2>. QED  BY <2>1, <2>2 DEF WorkInv
<1>. QED  BY <1>1, <1>3, <1>4

\* A socket that has had its task turns out bad.
LEMMA BadOwnTask ==
  ASSUME Typed, WorkInv, NEW c \in Socket, NEW losses \in Nat, filter[c] # "None",
         ProcessBadSocket(c, task_of_socket[c], pending_tasks, losses)
  PROVE  WorkInv'
<1>1. PICK t \in Task \cup {0}, pending \in Seq(Task) :
        t = task_of_socket[c] /\ pending = pending_tasks
  BY DEF Typed, TypeOK
<1>2. IsUnfinished(t) => c \notin Range(ready_sockets)
  BY <1>1 DEF WorkInv, FreeInv, Free
<1>3. IsInjective(pending) /\ Range(pending) \subseteq Range(pending_tasks)
  BY <1>1 DEF WorkInv, HeldInv
<1>4. t # 0 => /\ t \notin Range(pending)
               /\ \A x \in Socket \ {c} : task_of_socket[x] # t
  BY <1>1 DEF WorkInv, HeldInv
<1>5. \A u \in Task \ task_is_finished :
        \/ u \in Range(pending) \/ u = t
        \/ \E x \in Socket \ {c} : task_of_socket[x] = u
  BY <1>1 DEF WorkInv, HeldInv
<1>6. ProcessBadSocket(c, t, pending, losses)
  BY <1>1
<1>. QED  BY <1>2, <1>3, <1>4, <1>5, <1>6, BadInvStep

LEMMA AcceptInv ==
  ASSUME Typed, WorkInv, NEW c \in Socket, AcceptEvent(c)
  PROVE  WorkInv'
<1>0. CASE Ends("refused")
  BY <1>0, ClosedInv DEF AcceptEvent, Ends, sums
<1>1. CASE ~Ends("refused")
  <2>1. /\ link \in [Socket -> Link] /\ filter \in [Socket -> {"None", "Send", "Receive"}]
    BY DEF Typed, TypeOK
  <2>2. /\ link[c].phase = "backlog" /\ link' = [link EXCEPT ![c].phase = "accepted"]
        /\ filter' = [filter EXCEPT ![c] = "Send"]
        /\ UNCHANGED <<scheduler, sums, worker>>
    BY <1>1 DEF AcceptEvent, AddAndEnable
  <2>3. /\ task_of_socket[c] = 0 /\ filter[c] = "None" /\ c \notin Range(ready_sockets)
        /\ link[c].task = 0 /\ link[c].response = 0
    BY <2>2 DEF WorkInv, LinkInv
  <2>4. /\ link'[c].phase = "accepted" /\ link'[c].task = 0 /\ link'[c].response = 0
        /\ link'[c].master_open = link[c].master_open
        /\ link'[c].worker_open = link[c].worker_open
        /\ filter'[c] = "Send"
        /\ \A x \in Socket \ {c} : link'[x] = link[x] /\ filter'[x] = filter[x]
    BY <2>1, <2>2, <2>3 DEF Link
  <2>5. UNCHANGED <<task_is_finished, task_of_socket, ready_sockets, pending_tasks, worker>>
    BY <2>2 DEF scheduler, sums
  <2>6. HeldInv' /\ FreeInv'
    <3>1. Range(ready_sockets) \subseteq Socket
      BY DEF Typed, TypeOK, Range
    <3>. QED  BY <3>1, <2>3, <2>4, <2>5 DEF WorkInv, HeldInv, FreeInv, Free, IsUnfinished
  <2>7. LinkInv'
    <3>1. \A x \in Socket \ {c} : \A t : Expected(x, t) => Expected(x, t)'
      BY <2>4, <2>5 DEF Expected
    <3>2. Expected(c, 0)'
      BY DEF Expected
    <3>. QED  BY <3>1, <3>2, <2>4, <2>5 DEF WorkInv, LinkInv
  <2>8. WorkerInv'
    <3>1. \A w \in Worker : worker[w].socket # 0 => worker[w].socket \in Socket
      BY DEF Typed, TypeOK, WorkerState
    <3>2. \A x \in Socket : \A t : t # 0 /\ Expected(x, t) => x # c /\ Expected(x, t)'
      BY <2>3, <2>4, <2>5 DEF Expected
    <3>. QED  BY <3>1, <3>2, <2>4, <2>5 DEF WorkInv, WorkerInv
  <2>. QED  BY <2>6, <2>7, <2>8 DEF WorkInv
<1>. QED  BY <1>0, <1>1

LEMMA SendInv ==
  ASSUME Typed, WorkInv, NoIdleWhilePending, NEW c \in Socket, SendEvent(c)
  PROVE  WorkInv'
<1>1. /\ link \in [Socket -> Link] /\ filter \in [Socket -> {"None", "Send", "Receive"}]
      /\ pending_tasks \in Seq(Task) /\ ready_sockets \in Seq(Socket)
      /\ task_of_socket \in [Socket -> Task \cup {0}] /\ filter[c] = "Send"
      /\ Range(ready_sockets) \subseteq Socket /\ 0 \notin Task /\ 0 \notin Socket
  <2>1. 0 \notin Task /\ 0 \notin Socket
    BY DEF Task, Socket
  <2>. QED  BY <2>1 DEF SendEvent, Typed, TypeOK, Range
<1>2. Free(c) /\ c \notin Range(ready_sockets) /\ link[c].phase = "accepted"
  BY <1>1 DEF WorkInv, FreeInv, LinkInv
<1>3. ASSUME ready_sockets' = Append(ready_sockets, c),
             filter' = [filter EXCEPT ![c] = "Receive"],
             UNCHANGED <<pending_tasks, task_of_socket, sums, link, worker>>
      PROVE  WorkInv'
  <2>1. /\ Range(ready_sockets') = Range(ready_sockets) \cup {c}
        /\ IsInjective(ready_sockets')
    BY <1>1, <1>2, <1>3, AppendDistinct DEF WorkInv, FreeInv
  <2>2. filter'[c] = "Receive" /\ \A x \in Socket \ {c} : filter'[x] = filter[x]
    BY <1>1, <1>3
  <2>3. UNCHANGED <<task_is_finished, task_of_socket, pending_tasks, worker, link>>
    BY <1>3 DEF sums
  <2>4. HeldInv' /\ FreeInv'
    BY <1>1, <1>2, <2>1, <2>2, <2>3 DEF WorkInv, HeldInv, FreeInv, Free, IsUnfinished
  <2>5. \A x \in Socket : \A t : Expected(x, t) => Expected(x, t)'
    BY <2>2, <2>3 DEF Expected
  <2>6. LinkInv'
    BY <1>1, <1>2, <2>1, <2>2, <2>3, <2>5 DEF WorkInv, LinkInv
  <2>7. WorkerInv'
    <3>1. \A w \in Worker : worker[w].socket # 0 => worker[w].socket \in Socket
      BY DEF Typed, TypeOK, WorkerState
    <3>. QED  BY <3>1, <2>3, <2>5 DEF WorkInv, WorkerInv
  <2>. QED  BY <2>4, <2>6, <2>7 DEF WorkInv
<1>4. CASE pending_tasks = <<>>
  BY <1>3, <1>4 DEF SendEvent, Enable
<1>5. CASE pending_tasks # <<>>
  <2>1. PICK t \in Task, rest \in Seq(Task) :
          t = Last(pending_tasks) /\ rest = Front(pending_tasks)
    BY <1>1, <1>5, QueueEnds
  <2>2. ready_sockets = <<>> /\ Range(ready_sockets) = {}
    BY <1>5 DEF NoIdleWhilePending, Range
  <2>3. /\ t \in Range(pending_tasks) /\ Range(rest) \subseteq Range(pending_tasks)
        /\ Range(pending_tasks) \subseteq Range(rest) \cup {t}
        /\ IsInjective(rest) /\ t \notin Range(rest)
    BY <1>1, <1>5, <2>1, FrontDistinct DEF WorkInv, HeldInv
  <2>4. /\ \A x \in Socket : task_of_socket[x] # t
        /\ t \notin task_is_finished /\ t # 0
    BY <1>1, <2>3 DEF WorkInv, HeldInv
  <2>5. ASSUME NEW u \in Task \ task_is_finished
        PROVE  \/ u \in Range(rest) \/ u = t
               \/ \E x \in Socket \ {c} : task_of_socket[x] = u
    <3>1. task_of_socket[c] # u
      BY <1>1, <1>2 DEF Free, IsUnfinished
    <3>2. u \in Range(pending_tasks) \/ \E x \in Socket : task_of_socket[x] = u
      BY DEF WorkInv, HeldInv
    <3>. QED  BY <2>3, <3>1, <3>2
  <2>6. ASSUME pending_tasks' = rest,
               task_of_socket' = [task_of_socket EXCEPT ![c] = t],
               link' = [link EXCEPT ![c].task = t],
               filter' = [filter EXCEPT ![c] = "Receive"],
               UNCHANGED <<ready_sockets, sums, worker>>
        PROVE  WorkInv'
    <3>1. /\ task_of_socket'[c] = t /\ filter'[c] = "Receive"
          /\ \A x \in Socket \ {c} : /\ task_of_socket'[x] = task_of_socket[x]
                                     /\ filter'[x] = filter[x] /\ link'[x] = link[x]
          /\ link'[c] = [link[c] EXCEPT !.task = t]
      BY <1>1, <2>6
    <3>2. /\ link'[c].task = t /\ link'[c].response = link[c].response
          /\ link'[c].phase = "accepted"
          /\ link'[c].master_open = link[c].master_open
          /\ link'[c].worker_open = link[c].worker_open
      <4>1. PICK l \in Link : l = link[c]
        BY <1>1
      <4>. QED  BY <1>2, <3>1, <4>1 DEF Link
    <3>3. UNCHANGED <<task_is_finished, ready_sockets, worker>>
      BY <2>6 DEF sums
    <3>4. HeldInv'
      <4>1. \A u \in Range(pending_tasks') :
              u \notin task_is_finished' /\ \A x \in Socket : task_of_socket'[x] # u
        BY <2>3, <2>6, <3>1, <3>3 DEF WorkInv, HeldInv
      <4>2. \A x, y \in Socket :
              task_of_socket'[x] = task_of_socket'[y] /\ task_of_socket'[y] # 0 => x = y
        BY <2>4, <3>1 DEF WorkInv, HeldInv
      <4>3. \A u \in Task \ task_is_finished' :
              u \in Range(pending_tasks') \/ \E x \in Socket : task_of_socket'[x] = u
        BY <2>5, <2>6, <3>1, <3>3
      <4>. QED  BY <2>3, <2>6, <4>1, <4>2, <4>3 DEF HeldInv
    <3>5. FreeInv'
      <4>1. \A x \in Socket \ {c} : Free(x) => Free(x)'
        BY <3>1, <3>3 DEF Free, IsUnfinished
      <4>. QED  BY <2>2, <3>1, <3>3, <4>1 DEF WorkInv, FreeInv
    <3>6. \A x \in Socket \ {c} : \A u : Expected(x, u) => Expected(x, u)'
      BY <3>1, <3>3 DEF Expected
    <3>7. Expected(c, t)' /\ Expected(c, 0)'
      BY <2>4, <3>1, <3>3 DEF Expected
    <3>8. LinkInv'
      <4>1. link[c].master_open /\ link[c].worker_open => link[c].response = 0
        BY <1>2, FreeConnection
      <4>2. link[c].response # 0 => link[c].master_open
        BY DEF WorkInv, LinkInv
      <4>. SUFFICES ASSUME NEW x \in Socket
                    PROVE
           /\ link'[x].phase # "accepted" =>
                /\ task_of_socket'[x] = 0 /\ filter'[x] = "None"
                /\ x \notin Range(ready_sockets')
                /\ link'[x].task = 0 /\ link'[x].response = 0
           /\ link'[x].phase = "accepted" /\ filter'[x] = "None" => ~link'[x].master_open
           /\ link'[x].response # 0 => link'[x].master_open
           /\ link'[x].master_open /\ link'[x].worker_open =>
                /\ link'[x].task = 0 \/ link'[x].response = 0
                /\ Expected(x, link[x].task)' /\ Expected(x, link[x].response)'
        BY DEF LinkInv
      <4>3. CASE x = c
        BY <4>3, <3>1, <3>2, <3>7, <4>1, <4>2
      <4>4. CASE x # c
        BY <4>4, <3>1, <3>3, <3>6 DEF WorkInv, LinkInv
      <4>. QED  BY <4>3, <4>4
    <3>9. WorkerInv'
      <4>1. \A w \in Worker : worker[w].socket # 0 => worker[w].socket \in Socket
        BY DEF Typed, TypeOK, WorkerState
      <4>2. \A w \in Worker :
              worker[w].socket = c /\ link[c].master_open => worker[w].task = 0
        BY <1>2, FreeConnection
      <4>. SUFFICES ASSUME NEW w \in Worker, NEW x, x = worker[w].socket, x # 0
                    PROVE
           /\ link'[x].worker_open /\ link'[x].phase # "unused"
           /\ \A v \in Worker : worker[v].socket = x => v = w
           /\ link'[x].master_open /\ worker[w].task # 0 =>
                /\ Expected(x, worker[w].task)'
                /\ link'[x].task = 0 /\ link'[x].response = 0
        BY <3>3 DEF WorkerInv
      <4>3. /\ link[x].worker_open /\ link[x].phase # "unused"
            /\ \A v \in Worker : worker[v].socket = x => v = w
            /\ link[x].master_open /\ worker[w].task # 0 =>
                 /\ Expected(x, worker[w].task)
                 /\ link[x].task = 0 /\ link[x].response = 0
        BY DEF WorkInv, WorkerInv
      <4>4. CASE x = c
        BY <4>2, <4>3, <4>4, <3>2
      <4>5. CASE x # c
        <5>1. PICK u : u = worker[w].task
          OBVIOUS
        <5>. QED  BY <4>1, <4>3, <4>5, <5>1, <3>1, <3>3, <3>6
      <4>. QED  BY <4>4, <4>5
    <3>. QED  BY <3>4, <3>5, <3>8, <3>9 DEF WorkInv
  <2>7. ASSUME NEW losses \in Nat, ProcessBadSocket(c, t, rest, losses) PROVE WorkInv'
    BY <1>1, <1>2, <2>2, <2>3, <2>4, <2>5, <2>7, BadInvStep
  <2>8. ASSUME Ends("killed"), UNCHANGED <<sums, worker, spent>> PROVE WorkInv'
    BY <2>8, ClosedInv DEF Ends, sums
  <2>. QED  BY <1>5, <2>1, <2>6, <2>7, <2>8 DEF SendEvent, Enable
<1>. QED  BY <1>4, <1>5

LEMMA ReceiveInv ==
  ASSUME Typed, WorkInv, NEW c \in Socket, ReceiveEvent(c)
  PROVE  WorkInv'
<1>1. /\ link \in [Socket -> Link] /\ filter \in [Socket -> {"None", "Send", "Receive"}]
      /\ filter[c] = "Receive" /\ link[c].response # 0 /\ link[c].worker_open
      /\ link[c].response \in Task \cup {0}
      /\ \A w \in Worker : worker[w].socket # 0 => worker[w].socket \in Socket
  BY DEF ReceiveEvent, Typed, TypeOK, Link, WorkerState
<1>2. PICK t \in Task : t = link[c].response
  BY <1>1
<1>3. /\ link[c].master_open /\ link[c].task = 0
      /\ t = task_of_socket[c] /\ t # 0 /\ t \notin task_is_finished
      /\ link[c].phase = "accepted"
  BY <1>1, <1>2 DEF WorkInv, LinkInv, Expected
<1>4. CASE ProcessBadSocket(c, task_of_socket[c], pending_tasks, 1)
  BY <1>1, <1>4, BadOwnTask
<1>5. ASSUME filter' = [filter EXCEPT ![c] = "Send"],
             link' = [link EXCEPT ![c].response = 0],
             task_is_finished' = task_is_finished \cup {t},
             UNCHANGED <<scheduler, worker>>
      PROVE  WorkInv'
  <2>1. /\ filter'[c] = "Send"
        /\ \A x \in Socket \ {c} : filter'[x] = filter[x] /\ link'[x] = link[x]
        /\ link'[c] = [link[c] EXCEPT !.response = 0]
    BY <1>1, <1>5
  <2>2. /\ link'[c].task = 0 /\ link'[c].response = 0
        /\ link'[c].phase = "accepted"
        /\ link'[c].worker_open = link[c].worker_open
    <3>1. PICK l \in Link : l = link[c]
      BY <1>1
    <3>. QED  BY <1>3, <2>1, <3>1 DEF Link
  <2>3. UNCHANGED <<pending_tasks, ready_sockets, task_of_socket, worker>>
    BY <1>5 DEF scheduler
\* No other connection is given the task.
  <2>4. /\ t \notin Range(pending_tasks)
        /\ \A x \in Socket \ {c} : task_of_socket[x] # t
    BY <1>3 DEF WorkInv, HeldInv
  <2>5. HeldInv'
    BY <1>5, <2>3, <2>4 DEF WorkInv, HeldInv
  <2>6. \A x \in Socket : Free(x) \/ x = c => Free(x)'
    BY <1>3, <1>5, <2>3 DEF Free, IsUnfinished
  <2>7. FreeInv'
    <3>1. c \notin Range(ready_sockets)
      BY <1>3 DEF WorkInv, FreeInv, Free, IsUnfinished
    <3>2. Range(ready_sockets) \subseteq Socket
      BY DEF Typed, TypeOK, Range
    <3>. QED  BY <2>1, <2>3, <2>6, <3>1, <3>2 DEF WorkInv, FreeInv
  <2>8. \A x \in Socket \ {c} : \A u : Expected(x, u) => Expected(x, u)'
    BY <1>5, <2>1, <2>3, <2>4 DEF Expected
  <2>9. LinkInv'
    <3>. SUFFICES ASSUME NEW x \in Socket
                  PROVE
         /\ link'[x].phase # "accepted" =>
              /\ task_of_socket'[x] = 0 /\ filter'[x] = "None"
              /\ x \notin Range(ready_sockets')
              /\ link'[x].task = 0 /\ link'[x].response = 0
         /\ link'[x].phase = "accepted" /\ filter'[x] = "None" => ~link'[x].master_open
         /\ link'[x].response # 0 => link'[x].master_open
         /\ link'[x].master_open /\ link'[x].worker_open =>
              /\ link'[x].task = 0 \/ link'[x].response = 0
              /\ Expected(x, link[x].task)' /\ Expected(x, link[x].response)'
      BY DEF LinkInv
    <3>1. CASE x = c
      BY <3>1, <2>1, <2>2 DEF Expected
    <3>2. CASE x # c
      BY <3>2, <2>1, <2>3, <2>8 DEF WorkInv, LinkInv
    <3>. QED  BY <3>1, <3>2
  <2>10. WorkerInv'
    <3>. SUFFICES ASSUME NEW w \in Worker, NEW x, x = worker[w].socket, x # 0
                  PROVE
         /\ link'[x].worker_open /\ link'[x].phase # "unused"
         /\ \A v \in Worker : worker[v].socket = x => v = w
         /\ link'[x].master_open /\ worker[w].task # 0 =>
              /\ Expected(x, worker[w].task)'
              /\ link'[x].task = 0 /\ link'[x].response = 0
      BY <2>3 DEF WorkerInv
    <3>1. /\ link[x].worker_open /\ link[x].phase # "unused"
          /\ \A v \in Worker : worker[v].socket = x => v = w
          /\ link[x].master_open /\ worker[w].task # 0 =>
               /\ Expected(x, worker[w].task)
               /\ link[x].task = 0 /\ link[x].response = 0
      BY DEF WorkInv, WorkerInv
    <3>2. CASE x = c
      <4>1. worker[w].task = 0
        BY <1>1, <1>3, <3>1, <3>2
      <4>. QED  BY <1>1, <2>2, <3>1, <3>2, <4>1
    <3>3. CASE x # c
      <4>1. PICK u : u = worker[w].task
        OBVIOUS
      <4>. QED  BY <1>1, <3>1, <3>3, <4>1, <2>1, <2>3, <2>8
    <3>. QED  BY <3>2, <3>3
  <2>. QED  BY <2>5, <2>7, <2>9, <2>10 DEF WorkInv
<1>6. ASSUME filter' = [filter EXCEPT ![c] = "Send"],
             link' = [link EXCEPT ![c].response = 0],
             IF t \notin task_is_finished
             THEN /\ MarkFinished(t)
                  /\ result' = [result EXCEPT ![t] = @ + 1]
                  /\ finished_tasks' = finished_tasks + 1
             ELSE UNCHANGED sums,
             UNCHANGED <<scheduler, program, worker, spent>>
      PROVE  WorkInv'
  <2>1. task_is_finished' = task_is_finished \cup {t}
    BY <1>3, <1>6 DEF MarkFinished
  <2>. QED  BY <1>5, <1>6, <2>1
<1>. QED  BY <1>2, <1>4, <1>6 DEF ReceiveEvent, Enable

\* What the workers do leaves the master's part alone.
LEMMA ServeInv ==
  ASSUME WorkInv, UNCHANGED <<scheduler, sums, filter>>, LinkInv', WorkerInv'
  PROVE  WorkInv'
BY DEF WorkInv, HeldInv, FreeInv, Free, IsUnfinished, scheduler, sums

\* The links and the workers, when one worker and its connection change.
LEMMA OneWorker ==
  ASSUME Typed, WorkInv, UNCHANGED <<scheduler, sums, filter>>,
         NEW w \in Worker, NEW c \in Socket, NEW l \in Link, NEW z \in WorkerState,
         link' = [link EXCEPT ![c] = l], worker' = [worker EXCEPT ![w] = z],
         l.phase = link[c].phase, l.master_open = link[c].master_open,
         worker[w].socket = c, z.socket \in {0, c},
         l.phase # "accepted" => l.task = 0 /\ l.response = 0,
         l.response # 0 => l.master_open,
         l.master_open /\ l.worker_open =>
            /\ l.task = 0 \/ l.response = 0
            /\ Expected(c, l.task) /\ Expected(c, l.response),
         z.socket = c =>
            /\ l.worker_open
            /\ l.master_open /\ z.task # 0 =>
                 Expected(c, z.task) /\ l.task = 0 /\ l.response = 0
  PROVE  WorkInv'
<1>1. /\ link \in [Socket -> Link] /\ worker \in [Worker -> WorkerState]
      /\ 0 \notin Socket /\ \A v \in Worker : worker[v].socket \in Socket \cup {0}
  BY DEF Typed, TypeOK, WorkerState, Socket
<1>2. /\ link'[c] = l /\ \A x \in Socket \ {c} : link'[x] = link[x]
      /\ worker'[w] = z /\ \A v \in Worker \ {w} : worker'[v] = worker[v]
  BY <1>1
<1>3. /\ UNCHANGED <<task_of_socket, ready_sockets, filter, task_is_finished>>
      /\ \A x, u : Expected(x, u) => Expected(x, u)'
  BY DEF scheduler, sums, Expected
<1>4. \A v \in Worker \ {w} : worker[v].socket # c
  BY <1>1 DEF WorkInv, WorkerInv
<1>5. LinkInv'
  <2>. SUFFICES ASSUME NEW x \in Socket
                PROVE
       /\ link'[x].phase # "accepted" =>
            /\ task_of_socket'[x] = 0 /\ filter'[x] = "None"
            /\ x \notin Range(ready_sockets')
            /\ link'[x].task = 0 /\ link'[x].response = 0
       /\ link'[x].phase = "accepted" /\ filter'[x] = "None" => ~link'[x].master_open
       /\ link'[x].response # 0 => link'[x].master_open
       /\ link'[x].master_open /\ link'[x].worker_open =>
            /\ link'[x].task = 0 \/ link'[x].response = 0
            /\ Expected(x, link[x].task)' /\ Expected(x, link[x].response)'
    BY DEF LinkInv
  <2>1. CASE x = c
    <3>1. /\ link[c].phase # "accepted" =>
               /\ task_of_socket[c] = 0 /\ filter[c] = "None"
               /\ c \notin Range(ready_sockets)
          /\ link[c].phase = "accepted" /\ filter[c] = "None" => ~link[c].master_open
      BY DEF WorkInv, LinkInv
    <3>. QED  BY <2>1, <3>1, <1>2, <1>3
  <2>2. CASE x # c
    BY <2>2, <1>2, <1>3 DEF WorkInv, LinkInv
  <2>. QED  BY <2>1, <2>2
<1>6. WorkerInv'
  <2>. SUFFICES ASSUME NEW v \in Worker, NEW x, x = worker'[v].socket, x # 0
                PROVE
       /\ link'[x].worker_open /\ link'[x].phase # "unused"
       /\ \A u \in Worker : worker'[u].socket = x => u = v
       /\ link'[x].master_open /\ worker'[v].task # 0 =>
            /\ Expected(x, worker[v].task)'
            /\ link'[x].task = 0 /\ link'[x].response = 0
    BY DEF WorkerInv
  <2>1. CASE v = w
    <3>1. x = c /\ link[c].phase # "unused"
      BY <2>1, <1>1, <1>2 DEF WorkInv, WorkerInv
    <3>2. \A u \in Worker : worker'[u].socket = x => u = v
      BY <2>1, <3>1, <1>2, <1>4
    <3>. QED  BY <2>1, <3>1, <3>2, <1>2, <1>3
  <2>2. CASE v # w
    <3>1. x = worker[v].socket /\ worker'[v] = worker[v] /\ x # c /\ x \in Socket
      BY <2>2, <1>1, <1>2, <1>4
    <3>2. /\ link[x].worker_open /\ link[x].phase # "unused"
          /\ \A u \in Worker : worker[u].socket = x => u = v
          /\ link[x].master_open /\ worker[v].task # 0 =>
               /\ Expected(x, worker[v].task)
               /\ link[x].task = 0 /\ link[x].response = 0
      BY <3>1 DEF WorkInv, WorkerInv
    <3>3. \A u \in Worker : worker'[u].socket = x => u = v
      BY <3>1, <3>2, <1>2
    <3>4. PICK u : u = worker[v].task
      OBVIOUS
    <3>. QED  BY <3>1, <3>2, <3>3, <3>4, <1>2, <1>3
  <2>. QED  BY <2>1, <2>2
<1>. QED  BY <1>5, <1>6, ServeInv

LEMMA StartsOverInv ==
  ASSUME Typed, WorkInv, UNCHANGED <<scheduler, sums, filter>>,
         NEW w \in Worker, NEW at \in {"waiting", "dead"}, StartsOver(w, at)
  PROVE  WorkInv'
<1>1. /\ link \in [Socket -> Link] /\ worker \in [Worker -> WorkerState]
      /\ 0 \notin Socket /\ worker[w].socket \in Socket \cup {0}
  BY DEF Typed, TypeOK, WorkerState, Socket
<1>2. PICK z \in WorkerState :
        /\ z = [at |-> at, heard |-> FALSE, socket |-> 0, task |-> 0]
        /\ z.socket = 0 /\ z.task = 0
  <2>1. [at |-> at, heard |-> FALSE, socket |-> 0, task |-> 0] \in WorkerState
    BY DEF WorkerState
  <2>. QED  BY <2>1
<1>3. worker' = [worker EXCEPT ![w] = z]
  BY <1>2 DEF StartsOver
<1>4. CASE worker[w].socket \in Socket
  <2>1. PICK c \in Socket : c = worker[w].socket
    BY <1>4
  <2>2. PICK l \in Link : /\ l = [link[c] EXCEPT !.worker_open = FALSE, !.task = 0]
                          /\ l.phase = link[c].phase /\ l.task = 0 /\ ~l.worker_open
                          /\ l.master_open = link[c].master_open
                          /\ l.response = link[c].response
    <3>1. PICK k \in Link : k = link[c]
      BY <1>1
    <3>2. [k EXCEPT !.worker_open = FALSE, !.task = 0] \in Link
      BY LinkType
    <3>. QED  BY <3>1, <3>2 DEF Link
  <2>3. link' = [link EXCEPT ![c] = l]
    BY <1>1, <2>1, <2>2 DEF StartsOver
  <2>4. /\ l.phase # "accepted" => l.response = 0
        /\ l.response # 0 => l.master_open
    BY <2>2 DEF WorkInv, LinkInv
  <2>. QED  BY <1>1, <1>2, <1>3, <2>1, <2>2, <2>3, <2>4, OneWorker
<1>5. CASE worker[w].socket = 0
  <2>1. link' = link
    BY <1>1, <1>5 DEF StartsOver
  <2>2. worker'[w] = z /\ \A v \in Worker \ {w} : worker'[v] = worker[v]
    BY <1>1, <1>3
  <2>3. LinkInv'
    BY <2>1 DEF WorkInv, LinkInv, Expected, scheduler, sums
  <2>4. WorkerInv'
    BY <1>2, <2>1, <2>2 DEF WorkInv, WorkerInv, Expected, scheduler, sums
  <2>. QED  BY <2>3, <2>4, ServeInv
<1>. QED  BY <1>1, <1>4, <1>5

LEMMA ConnectInv ==
  ASSUME Typed, WorkInv, NEW w \in Worker, Connect(w)
  PROVE  WorkInv'
<1>1. UNCHANGED <<scheduler, sums, filter>>
  BY DEF Connect
<1>2. CASE StartsOver(w, "dead")
  BY <1>1, <1>2, StartsOverInv
<1>3. ASSUME NEW c \in Socket, link[c].phase = "unused",
             link' = [link EXCEPT ![c] =
               [phase |-> "backlog", task |-> 0, response |-> 0,
                master_open |-> TRUE, worker_open |-> TRUE]],
             worker' = [worker EXCEPT ![w] =
               [at |-> "receiving", heard |-> FALSE, socket |-> c, task |-> 0]]
      PROVE  WorkInv'
  <2>1. /\ link \in [Socket -> Link] /\ worker \in [Worker -> WorkerState]
        /\ \A v \in Worker : worker[v].socket \in Socket \cup {0}
    BY DEF Typed, TypeOK, WorkerState
  <2>2. /\ link'[c].phase = "backlog" /\ link'[c].task = 0 /\ link'[c].response = 0
        /\ link'[c].worker_open
        /\ \A x \in Socket \ {c} : link'[x] = link[x]
        /\ worker'[w].socket = c /\ worker'[w].task = 0
        /\ \A v \in Worker \ {w} : worker'[v] = worker[v]
    BY <1>3, <2>1
  <2>3. /\ UNCHANGED <<task_of_socket, ready_sockets, filter, task_is_finished>>
        /\ \A x, u : Expected(x, u) => Expected(x, u)'
        /\ \A x : Expected(x, 0)'
    BY <1>1 DEF scheduler, sums, Expected
  <2>4. LinkInv'
    <3>. SUFFICES ASSUME NEW x \in Socket
                  PROVE
         /\ link'[x].phase # "accepted" =>
              /\ task_of_socket'[x] = 0 /\ filter'[x] = "None"
              /\ x \notin Range(ready_sockets')
              /\ link'[x].task = 0 /\ link'[x].response = 0
         /\ link'[x].phase = "accepted" /\ filter'[x] = "None" => ~link'[x].master_open
         /\ link'[x].response # 0 => link'[x].master_open
         /\ link'[x].master_open /\ link'[x].worker_open =>
              /\ link'[x].task = 0 \/ link'[x].response = 0
              /\ Expected(x, link[x].task)' /\ Expected(x, link[x].response)'
      BY DEF LinkInv
    <3>1. CASE x = c
      <4>1. task_of_socket[c] = 0 /\ filter[c] = "None" /\ c \notin Range(ready_sockets)
        BY <1>3 DEF WorkInv, LinkInv
      <4>. QED  BY <3>1, <4>1, <2>2, <2>3
    <3>2. CASE x # c
      BY <3>2, <2>2, <2>3 DEF WorkInv, LinkInv
    <3>. QED  BY <3>1, <3>2
  <2>5. \A v \in Worker : worker[v].socket # c
    BY <1>3 DEF WorkInv, WorkerInv, Socket
  <2>6. WorkerInv'
    <3>. SUFFICES ASSUME NEW v \in Worker, NEW x, x = worker'[v].socket, x # 0
                  PROVE
         /\ link'[x].worker_open /\ link'[x].phase # "unused"
         /\ \A u \in Worker : worker'[u].socket = x => u = v
         /\ link'[x].master_open /\ worker'[v].task # 0 =>
              /\ Expected(x, worker[v].task)'
              /\ link'[x].task = 0 /\ link'[x].response = 0
      BY DEF WorkerInv
    <3>1. CASE v = w
      BY <3>1, <2>2, <2>5
    <3>2. CASE v # w
      <4>1. x = worker[v].socket /\ worker'[v] = worker[v] /\ x # c /\ x \in Socket
        BY <3>2, <2>1, <2>2, <2>5
      <4>2. /\ link[x].worker_open /\ link[x].phase # "unused"
            /\ \A u \in Worker : worker[u].socket = x => u = v
            /\ link[x].master_open /\ worker[v].task # 0 =>
                 /\ Expected(x, worker[v].task)
                 /\ link[x].task = 0 /\ link[x].response = 0
        BY <4>1 DEF WorkInv, WorkerInv
      <4>3. PICK u : u = worker[v].task
        OBVIOUS
      <4>. QED  BY <4>1, <4>2, <4>3, <2>2, <2>3
    <3>. QED  BY <3>1, <3>2
  <2>. QED  BY <1>1, <2>4, <2>6, ServeInv
<1>. QED  BY <1>2, <1>3 DEF Connect

LEMMA ReceiveTaskInv ==
  ASSUME Typed, WorkInv, NEW w \in Worker, ReceiveTask(w)
  PROVE  WorkInv'
<1>1. /\ UNCHANGED <<scheduler, sums, filter>> /\ worker[w].at = "receiving"
      /\ link \in [Socket -> Link] /\ worker \in [Worker -> WorkerState]
  BY DEF ReceiveTask, Typed, TypeOK
<1>2. PICK c \in Socket : c = worker[w].socket
  BY <1>1 DEF Typed, ConnectedWorkers
<1>3. c # 0 /\ link[c].worker_open
  BY <1>2 DEF WorkInv, WorkerInv, Socket
<1>4. CASE StartsOver(w, "waiting")
  BY <1>1, <1>4, StartsOverInv
<1>5. ASSUME link[c].task # 0,
             worker' = [worker EXCEPT ![w].at = "computing", ![w].task = link[c].task],
             link' = [link EXCEPT ![c].task = 0]
      PROVE  WorkInv'
  <2>1. PICK k \in Link, y \in WorkerState : k = link[c] /\ y = worker[w]
    BY <1>1
  <2>2. PICK t \in Task : t = k.task
    BY <1>5, <2>1 DEF Link
  <2>3. PICK l : l = [k EXCEPT !.task = 0]
    OBVIOUS
  <2>4. PICK z : z = [y EXCEPT !.at = "computing", !.task = t]
    OBVIOUS
  <2>5. link' = [link EXCEPT ![c] = l] /\ worker' = [worker EXCEPT ![w] = z]
    BY <1>1, <1>5, <2>1, <2>2, <2>3, <2>4
  <2>6. /\ l \in Link /\ l.phase = k.phase /\ l.master_open = k.master_open
        /\ l.worker_open = k.worker_open /\ l.response = k.response /\ l.task = 0
    BY <2>3 DEF Link
  <2>7. z \in WorkerState /\ z.socket = c /\ z.task = t
    BY <1>2, <2>1, <2>4 DEF WorkerState
  <2>8. /\ k.phase # "accepted" => k.response = 0
        /\ k.response # 0 => k.master_open
        /\ k.master_open /\ k.worker_open =>
             k.response = 0 /\ Expected(c, t)
    BY <1>5, <2>1, <2>2 DEF WorkInv, LinkInv
  <2>9. Expected(c, 0) /\ l.response \in {k.response}
    BY <2>6 DEF Expected
  <2>. QED  BY <1>1, <1>2, <1>3, <2>1, <2>5, <2>6, <2>7, <2>8, <2>9, OneWorker
<1>6. ASSUME worker' = [worker EXCEPT ![w].at = "spinning"], UNCHANGED link
      PROVE  WorkInv'
  <2>1. \A v \in Worker : /\ worker'[v].socket = worker[v].socket
                          /\ worker'[v].task = worker[v].task
    BY <1>1, <1>6 DEF WorkerState
  <2>2. LinkInv'
    BY <1>1, <1>6 DEF WorkInv, LinkInv, Expected, scheduler, sums
  <2>3. WorkerInv'
    BY <1>1, <1>6, <2>1 DEF WorkInv, WorkerInv, Expected, scheduler, sums
  <2>. QED  BY <1>1, <2>2, <2>3, ServeInv
<1>. QED  BY <1>2, <1>4, <1>5, <1>6 DEF ReceiveTask

LEMMA SendResponseInv ==
  ASSUME Typed, WorkInv, NEW w \in Worker, SendResponse(w)
  PROVE  WorkInv'
<1>1. /\ UNCHANGED <<scheduler, sums, filter>> /\ worker[w].at = "computing"
      /\ link \in [Socket -> Link] /\ worker \in [Worker -> WorkerState]
  BY DEF SendResponse, Typed, TypeOK
<1>2. PICK c \in Socket : c = worker[w].socket
  BY <1>1 DEF Typed, ConnectedWorkers
<1>3. c # 0 /\ link[c].worker_open
  BY <1>2 DEF WorkInv, WorkerInv, Socket
<1>4. CASE StartsOver(w, "waiting")
  BY <1>1, <1>4, StartsOverInv
<1>5. ASSUME link[c].master_open,
             link' = [link EXCEPT ![c].response = worker[w].task],
             worker' = [worker EXCEPT ![w].at = "receiving", ![w].task = 0]
      PROVE  WorkInv'
  <2>1. PICK k \in Link, y \in WorkerState : k = link[c] /\ y = worker[w]
    BY <1>1
  <2>2. PICK t \in Task \cup {0} : t = y.task
    BY DEF WorkerState
  <2>3. PICK l : l = [k EXCEPT !.response = t]
    OBVIOUS
  <2>4. PICK z : z = [y EXCEPT !.at = "receiving", !.task = 0]
    OBVIOUS
  <2>5. link' = [link EXCEPT ![c] = l] /\ worker' = [worker EXCEPT ![w] = z]
    BY <1>1, <1>5, <2>1, <2>2, <2>3, <2>4
  <2>6. /\ l \in Link /\ l.phase = k.phase /\ l.master_open = k.master_open
        /\ l.worker_open = k.worker_open /\ l.response = t /\ l.task = k.task
    BY <2>3 DEF Link
  <2>7. z \in WorkerState /\ z.socket = c /\ z.task = 0
    BY <1>2, <2>1, <2>4 DEF WorkerState
  <2>8. /\ k.master_open
        /\ t # 0 => Expected(c, t) /\ k.task = 0 /\ k.response = 0
        /\ k.phase # "accepted" => k.task = 0 /\ filter[c] = "None"
        /\ k.master_open /\ k.worker_open => Expected(c, k.task)
    BY <1>2, <1>3, <1>5, <2>1, <2>2 DEF WorkInv, LinkInv, WorkerInv
  <2>9. /\ l.phase # "accepted" => l.task = 0 /\ l.response = 0
        /\ Expected(c, l.response)
    BY <2>6, <2>8 DEF Expected
  <2>. QED  BY <1>1, <1>2, <1>3, <2>1, <2>5, <2>6, <2>7, <2>8, <2>9, OneWorker
<1>. QED  BY <1>2, <1>4, <1>5 DEF SendResponse

LEMMA WorkInvNext ==
  ASSUME Typed, NoIdleWhilePending, WorkInv, [Next]_vars
  PROVE  WorkInv'
<1>1. CASE UNCHANGED vars
  BY <1>1 DEF vars, scheduler, sums, WorkInv, HeldInv, FreeInv, Free, IsUnfinished,
              LinkInv, WorkerInv, Expected
<1>2. ASSUME NEW reached \in SUBSET Worker, DiscoverWorkers(reached) PROVE WorkInv'
  <2>1. /\ UNCHANGED <<scheduler, sums, filter>> /\ UNCHANGED link
        /\ worker' = [w \in Worker |-> IF w \in reached
                        THEN [worker[w] EXCEPT !.heard = TRUE] ELSE worker[w]]
    BY <1>2 DEF DiscoverWorkers
  <2>2. \A w \in Worker : /\ worker'[w].socket = worker[w].socket
                          /\ worker'[w].task = worker[w].task
    BY <2>1 DEF Typed, TypeOK, WorkerState
  <2>3. LinkInv'
    BY <2>1 DEF WorkInv, LinkInv, Expected, scheduler, sums
  <2>4. WorkerInv'
    BY <2>1, <2>2 DEF WorkInv, WorkerInv, Expected, scheduler, sums
  <2>. QED  BY <2>1, <2>3, <2>4, ServeInv
<1>3. ASSUME NEW c \in Socket, ConnectionClosedEvent(c) PROVE WorkInv'
  BY <1>3, BadOwnTask DEF ConnectionClosedEvent
<1>4. ASSUME Return PROVE WorkInv'
  BY <1>4, ClosedInv DEF Return, sums
<1>5. ASSUME NEW w \in Worker, SkipDiscovery(w) \/ Die(w) PROVE WorkInv'
  BY <1>5, StartsOverInv DEF SkipDiscovery, Die
<1>. QED  BY <1>1, <1>2, <1>3, <1>4, <1>5, AcceptInv, SendInv, ReceiveInv, ConnectInv,
             ReceiveTaskInv, SendResponseInv DEF Next, Master, Serve

LEMMA WorkInvInit == Init => WorkInv
<1>. SUFFICES ASSUME Init PROVE WorkInv
  OBVIOUS
<1>1. Range(pending_tasks) = Task /\ IsInjective(pending_tasks)
  BY DEF Init, Range, IsInjective
<1>2. Range(ready_sockets) = {} /\ IsInjective(ready_sockets)
  BY DEF Init, Range, IsInjective
<1>3. \A c \in Socket : /\ task_of_socket[c] = 0 /\ filter[c] = "None"
                        /\ link[c].phase = "unused" /\ link[c].task = 0
                        /\ link[c].response = 0 /\ ~link[c].master_open
  BY DEF Init
<1>4. \A w \in Worker : worker[w].socket = 0
  BY DEF Init
<1>5. task_is_finished = {} /\ 0 \notin Task
  BY DEF Init, Task
<1>. QED  BY <1>1, <1>2, <1>3, <1>4, <1>5 DEF WorkInv, HeldInv, FreeInv, LinkInv, WorkerInv

LEMMA WorkInvHolds == Spec => []WorkInv
<1>1. Typed /\ NoIdleWhilePending /\ WorkInv /\ [Next]_vars => WorkInv'
  BY WorkInvNext
<1>2. Spec => []Typed
  BY TypedInit, TypedNext, PTL DEF Spec
<1>. QED  BY <1>1, <1>2, NoneIdle, WorkInvInit, PTL DEF Spec

\* A task without a result is in exactly one place, in the queue or with one
\* socket, and one with a result is not in the queue: neither losses at any of
\* five calls, nor broken connections, nor tasks handed from one bad socket to
\* the next drop a task or give it out twice.
THEOREM HeldOnce == Spec => []TasksHeldOnce
<1>1. TypeOK /\ WorkInv => TasksHeldOnce
  <2>. SUFFICES ASSUME TypeOK, WorkInv, NEW t \in Task
                PROVE  IF t \in task_is_finished THEN Holders(t) = {}
                       ELSE Cardinality(Holders(t)) + Cardinality(Sockets(t)) = 1
    BY DEF TasksHeldOnce
  <2>1. CASE t \in task_is_finished
    BY <2>1 DEF Holders, Range, WorkInv, HeldInv
  <2>2. CASE t \notin task_is_finished /\ t \in Range(pending_tasks)
    <3>1. PICK i \in DOMAIN pending_tasks : pending_tasks[i] = t
      BY <2>2 DEF Range
    <3>2. Holders(t) = {i}
      BY <3>1 DEF Holders, WorkInv, HeldInv, IsInjective
    <3>3. Sockets(t) = {}
      BY <2>2 DEF Sockets, WorkInv, HeldInv
    <3>4. Cardinality(Holders(t)) = 1
      BY <3>2, FS_Singleton
    <3>5. Cardinality(Sockets(t)) = 0
      BY <3>3, FS_EmptySet
    <3>. QED  BY <2>2, <3>4, <3>5
  <2>3. CASE t \notin task_is_finished /\ t \notin Range(pending_tasks)
    <3>1. PICK c \in Socket : task_of_socket[c] = t
      BY <2>3 DEF WorkInv, HeldInv
    <3>2. t # 0
      BY DEF Task
    <3>3. Sockets(t) = {c}
      BY <3>1, <3>2 DEF Sockets, WorkInv, HeldInv
    <3>4. Holders(t) = {}
      BY <2>3 DEF Holders, Range
    <3>5. Cardinality(Sockets(t)) = 1
      BY <3>3, FS_Singleton
    <3>6. Cardinality(Holders(t)) = 0
      BY <3>4, FS_EmptySet
    <3>. QED  BY <2>3, <3>5, <3>6
  <2>. QED  BY <2>1, <2>2, <2>3
<1>. QED  BY <1>1, TypeCorrect, WorkInvHolds, PTL

\* What a worker computes, or has sent, or will receive on a connection whose
\* two ends are open, is the task its socket was given, and has no result yet.
THEOREM NoWorkRepeated == Spec => []WorkIsExpected
<1>1. TypeOK /\ WorkInv => WorkIsExpected
  <2>. SUFFICES ASSUME TypeOK, WorkInv, NEW w \in Worker, NEW c, c = worker[w].socket,
                       c # 0, link[c].master_open,
                       NEW t \in {worker[w].task, link[c].task, link[c].response} \ {0}
                PROVE  /\ t = task_of_socket[c] /\ t \notin task_is_finished
                       /\ filter[c] = "Receive"
    BY DEF WorkIsExpected
  <2>1. c \in Socket
    BY DEF TypeOK, WorkerState
  <2>2. link[c].worker_open
    BY DEF WorkInv, WorkerInv
  <2>3. Expected(c, t)
    BY <2>1, <2>2 DEF WorkInv, WorkerInv, LinkInv
  <2>. QED  BY <2>3 DEF Expected
<1>. QED  BY <1>1, TypeCorrect, WorkInvHolds, PTL

=============================================================================
