----------------------------- MODULE Integration -----------------------------
(***************************************************************************)
(* The distributed integration of tasks/integration: the master's event    *)
(* loop (master.cpp), the workers (worker.cpp), the broadcast that brings  *)
(* them together and the TCP connections between them, with the losses     *)
(* that random_loss.cpp injects and workers that die.                      *)
(*                                                                         *)
(* The master is one thread: one event returned by Poll and its branch are *)
(* one action, the calls of the branch included.  A socket of the master   *)
(* stands for the Event that holds it; pieces are numbered from 1, and 0   *)
(* is the absence of one, as in the source.                                *)
(*                                                                         *)
(* A connection carries at most one task and one response at a time.  Its  *)
(* state is external; what is assumed of the kernel is said at each use.   *)
(***************************************************************************)
EXTENDS Integers, SequencesExt

CONSTANTS Worker,     \* the worker processes
          TaskCount,  \* the pieces that InitTasks cuts the interval into
          SocketCount,\* bound: connections made
          MaxLosses,  \* bound: calls of ShouldBeLost that return true
          MaxDeaths   \* bound: workers that die

ASSUME CountsAssumption == {TaskCount, SocketCount, MaxLosses, MaxDeaths} \subseteq Nat

Task   == 1..TaskCount
Socket == 1..SocketCount

VARIABLES
  pending_tasks,    \* the tasks nobody works on, the last one goes out first
  ready_sockets,    \* the sockets of idle workers, the last one is used first
  task_of_socket,   \* the task a socket was given last, 0 if none
  task_is_finished, \* the set of finished tasks
  finished_tasks,   \* and their number, counted separately
  result,           \* how often each task's integral was added
  filter,           \* the poller's enabled filter of a socket; "None" if the
                    \* socket's Event is not in the poller
  program,          \* "running", "returned", or how it ended otherwise: by an
                    \* exception of Delete, "uncaught", or of Accept and
                    \* SetOption, "refused", or by a signal, "killed"
  link,             \* the connections
  worker,           \* the workers
  spent             \* how much of the bounds is used up

scheduler == <<pending_tasks, ready_sockets, task_of_socket>>
sums      == <<task_is_finished, finished_tasks, result>>
vars      == <<scheduler, sums, filter, program, link, worker, spent>>

-----------------------------------------------------------------------------
Phase == {"unused", "backlog", "accepted"}
Link == [phase : Phase, task : Task \cup {0}, response : Task \cup {0},
         master_open : BOOLEAN, worker_open : BOOLEAN]

\* heard says that a broadcast waits in the worker's UDP socket.
WorkerState == [at : {"waiting", "receiving", "computing", "spinning", "dead"},
                heard : BOOLEAN, socket : Socket \cup {0}, task : Task \cup {0}]

Init ==
  /\ pending_tasks = [i \in Task |-> i]
  /\ ready_sockets = <<>>
  /\ task_of_socket = [c \in Socket |-> 0]
  /\ task_is_finished = {}
  /\ finished_tasks = 0
  /\ result = [t \in Task |-> 0]
  /\ filter = [c \in Socket |-> "None"]
  /\ program = "running"
  /\ link = [c \in Socket |-> [phase |-> "unused", task |-> 0, response |-> 0,
                               master_open |-> FALSE, worker_open |-> FALSE]]
  /\ worker = [w \in Worker |-> [at |-> "waiting", heard |-> FALSE,
                                 socket |-> 0, task |-> 0]]
  /\ spent = [losses |-> 0, deaths |-> 0]

\* ShouldBeLost returns true n times.
Lose(n) ==
  /\ spent.losses + n <= MaxLosses
  /\ spent' = [spent EXCEPT !.losses = @ + n]

-----------------------------------------------------------------------------
(* The master.                                                             *)

\* Mutant of LoopEnds: one task early.
LoopEnds_Early == finished_tasks + 1 >= TaskCount

\* The condition of the while loop, tested before each Poll.
LoopEnds == finished_tasks = TaskCount

Polls == program = "running" /\ ~LoopEnds

\* Mutant of IsUnfinished: whatever task a bad socket had is done again.
IsUnfinished_Any(t) == t # 0

\* Mutant of IsUnfinished: a socket without a task is not excluded.
IsUnfinished_NoTask(t) == t \notin task_is_finished

\* Mutant of IsUnfinished: the flag is tested the wrong way round.
IsUnfinished_Negated(t) == t # 0 /\ t \in task_is_finished

\* The test of ProcessBadSocket on the task of the socket.
IsUnfinished(t) == t # 0 /\ t \notin task_is_finished

\* Mutant of SomeIdle: the last idle socket is not used.
SomeIdle_MoreThanOne(idle) == Len(idle) > 1

SomeIdle(idle) == idle # <<>>

\* Mutant of Erased: the bad socket keeps its task.
Erased_Kept(c) == task_of_socket[c]

\* task_of_socket_ after the erase that ends ProcessBadSocket: no task.
Erased(c) == 0

\* The last reference to an Event closes its socket.
CloseMaster(l) == [l EXCEPT !.master_open = FALSE, !.response = 0]

\* Add, and AddAndEnable with the filter of `type', for a socket's new Event.
AddAndEnable(c, type) == filter' = [filter EXCEPT ![c] = type]

\* The program ends in the middle of its loop.
Ends(how) ==
  /\ program' = how
  /\ link' = [c \in Socket |-> CloseMaster(link[c])]
  /\ UNCHANGED <<scheduler, filter>>

\* Disable of the one filter of an Event and Enable of the other.  Neither
\* throws: Poll has just returned the Event, so the poller has it.
Enable(c, type) == filter' = [filter EXCEPT ![c] = type]

\* ProcessBadSocket on c, which had task t, and what it calls: an unfinished
\* task goes through ProcessNewTask to the idle socket at the back; if that
\* one is bad too, to the next, and so on.  The k sockets at the back are bad,
\* because the task is lost or because their worker has closed and send
\* reports the reset, or raises SIGPIPE, which ends the program; one that has
\* closed may also swallow the task.  Without an idle socket left the task
\* waits.  Delete of an Event that is not in the poller throws, and nobody
\* catches it.  `pending' are the waiting tasks, `losses' the losses before
\* the call.
ProcessBadSocket(c, t, pending, losses) ==
  \E k \in IF IsUnfinished(t) THEN 0..Len(ready_sockets) ELSE {0} :
    LET idle == SubSeq(ready_sockets, 1, Len(ready_sockets) - k)
        bad == {c} \cup
               {ready_sockets[i] : i \in (Len(idle) + 1)..Len(ready_sockets)}
        lost == {b \in bad \ {c} : link[b].worker_open}
        given == IsUnfinished(t) /\ SomeIdle(idle)
    IN /\ Lose(losses + Cardinality(lost))
       /\ \/ (\E b \in bad \ {c} : ~link[b].worker_open) /\ Ends("killed")
          \/ (\E b \in bad : filter[b] = "None") /\ Ends("uncaught")
          \/ /\ \A b \in bad : filter[b] # "None"
             /\ filter' = [b \in Socket |->
                  IF b \in bad THEN "None" ELSE filter[b]]
             /\ pending_tasks' = IF IsUnfinished(t) /\ ~given
                                 THEN Append(pending, t) ELSE pending
             /\ ready_sockets' = IF given THEN Front(idle) ELSE idle
             /\ task_of_socket' = [b \in Socket |->
                  IF b \in bad THEN Erased(b)
                  ELSE IF given /\ b = Last(idle) THEN t
                  ELSE task_of_socket[b]]
             /\ link' = [b \in Socket |->
                  IF b \in bad THEN CloseMaster(link[b])
                  ELSE IF given /\ b = Last(idle)
                  THEN [link[b] EXCEPT !.task = t] ELSE link[b]]
             /\ UNCHANGED program
       /\ UNCHANGED <<sums, worker>>

\* DiscoverWorkers, at each tick of the timer: the broadcast reaches some of
\* the workers that wait for one.  Those that do not wait throw it away with
\* their UDP socket.
DiscoverWorkers(reached) ==
  /\ Polls
  /\ reached # {}
  /\ \A w \in reached : worker[w].at = "waiting"
  /\ worker' = [w \in Worker |->
       IF w \in reached THEN [worker[w] EXCEPT !.heard = TRUE] ELSE worker[w]]
  /\ UNCHANGED <<scheduler, sums, filter, program, link, spent>>

\* Accept, or an option of the new socket, may throw when the worker has
\* already closed, and nobody catches it.
AcceptEvent(c) ==
  /\ Polls
  /\ link[c].phase = "backlog"
  /\ \/ /\ link' = [link EXCEPT ![c].phase = "accepted"]
        /\ AddAndEnable(c, "Send")
        /\ UNCHANGED <<scheduler, program>>
     \/ ~link[c].worker_open /\ Ends("refused")
  /\ UNCHANGED <<sums, worker, spent>>

\* A socket is writable at once, also when its worker has closed.
\* ProcessReadySocket: without a task the socket waits; else the last task is
\* sent, and either arrives or makes the socket a bad one.
SendEvent(c) ==
  /\ Polls
  /\ filter[c] = "Send"
  /\ \/ /\ pending_tasks = <<>>
        /\ ready_sockets' = Append(ready_sockets, c)
        /\ Enable(c, "Receive")
        /\ UNCHANGED <<pending_tasks, task_of_socket, sums, program, link,
                       worker, spent>>
     \/ /\ pending_tasks # <<>>
        /\ pending_tasks' = Front(pending_tasks)
        /\ task_of_socket' = [task_of_socket EXCEPT ![c] = Last(pending_tasks)]
        /\ link' = [link EXCEPT ![c].task = Last(pending_tasks)]
        /\ Enable(c, "Receive")
        /\ UNCHANGED <<ready_sockets, sums, program, worker, spent>>
     \/ /\ pending_tasks # <<>>
        /\ ProcessBadSocket(c, Last(pending_tasks), Front(pending_tasks),
                            IF link[c].worker_open THEN 1 ELSE 0)
     \/ /\ pending_tasks # <<>> /\ ~link[c].worker_open
        /\ Ends("killed")
        /\ UNCHANGED <<sums, worker, spent>>

MarkFinished(t) == task_is_finished' = task_is_finished \cup {t}

\* A response is there and the worker has not closed, which Poll would report
\* first.  The loss stands for a response that arrives in part, too.
ReceiveEvent(c) ==
  LET t == link[c].response
  IN /\ Polls
     /\ filter[c] = "Receive" /\ t # 0 /\ link[c].worker_open
     /\ \/ /\ Enable(c, "Send")
           /\ link' = [link EXCEPT ![c].response = 0]
           /\ IF t \notin task_is_finished
              THEN /\ MarkFinished(t)
                   /\ result' = [result EXCEPT ![t] = @ + 1]
                   /\ finished_tasks' = finished_tasks + 1
              ELSE UNCHANGED sums
           /\ UNCHANGED <<scheduler, program, worker, spent>>
        \/ ProcessBadSocket(c, task_of_socket[c], pending_tasks, 1)

\* EV_EOF on either filter: a response that is still unread goes with it.
ConnectionClosedEvent(c) ==
  /\ Polls
  /\ filter[c] # "None" /\ ~link[c].worker_open
  /\ ProcessBadSocket(c, task_of_socket[c], pending_tasks, 0)

\* The program ends with Integrate, and its sockets are closed.
Return ==
  /\ program = "running"
  /\ LoopEnds
  /\ program' = "returned"
  /\ link' = [c \in Socket |-> CloseMaster(link[c])]
  /\ UNCHANGED <<scheduler, sums, filter, worker, spent>>

-----------------------------------------------------------------------------
(* The workers.                                                            *)

\* Back to the head of the outer loop: both sockets are closed.
StartsOver(w, at) ==
  /\ worker' = [worker EXCEPT
       ![w] = [at |-> at, heard |-> FALSE, socket |-> 0, task |-> 0]]
  /\ link' = [c \in Socket |-> IF c = worker[w].socket
                THEN [link[c] EXCEPT !.worker_open = FALSE, !.task = 0]
                ELSE link[c]]

\* A broadcast is received, and may be skipped.
SkipDiscovery(w) ==
  /\ worker[w].heard
  /\ Lose(1)
  /\ StartsOver(w, "waiting")
  /\ UNCHANGED <<scheduler, sums, filter, program>>

\* Connect to a master that still listens; otherwise the exception ends the
\* worker.  Sockets are used in their order.
Connect(w) ==
  /\ worker[w].heard
  /\ IF program = "running"
     THEN \E c \in Socket :
            /\ link[c].phase = "unused"
            /\ \A b \in 1..(c - 1) : link[b].phase # "unused"
            /\ link' = [link EXCEPT ![c] =
                 [phase |-> "backlog", task |-> 0, response |-> 0,
                  master_open |-> TRUE, worker_open |-> TRUE]]
            /\ worker' = [worker EXCEPT ![w] =
                 [at |-> "receiving", heard |-> FALSE, socket |-> c, task |-> 0]]
     ELSE StartsOver(w, "dead")
  /\ UNCHANGED <<scheduler, sums, filter, program, spent>>

\* TryReceiveObject<Task>: a task that is lost breaks the connection.  After
\* the master has closed, recv returns 0 again and again, and the loop of
\* TryReceiveObjectFrom goes on for ever; a connection it never accepted is
\* reset instead, which recv reports.
ReceiveTask(w) ==
  LET c == worker[w].socket
  IN /\ worker[w].at = "receiving"
     /\ \/ /\ link[c].task # 0
           /\ worker' = [worker EXCEPT ![w].at = "computing",
                                       ![w].task = link[c].task]
           /\ link' = [link EXCEPT ![c].task = 0]
           /\ UNCHANGED spent
        \/ /\ link[c].task # 0
           /\ Lose(1)
           /\ StartsOver(w, "waiting")
        \/ /\ link[c].task = 0 /\ ~link[c].master_open
           /\ IF link[c].phase = "backlog"
              THEN StartsOver(w, "waiting")
              ELSE worker' = [worker EXCEPT ![w].at = "spinning"] /\ UNCHANGED link
           /\ UNCHANGED spent
     /\ UNCHANGED <<scheduler, sums, filter, program>>

\* NumericIntegration is done: the response is sent, or lost.  On a
\* connection the master has closed it ends in a reset.
SendResponse(w) ==
  LET c == worker[w].socket
  IN /\ worker[w].at = "computing"
     /\ \/ /\ link[c].master_open
           /\ link' = [link EXCEPT ![c].response = worker[w].task]
           /\ worker' = [worker EXCEPT ![w].at = "receiving", ![w].task = 0]
           /\ UNCHANGED spent
        \/ /\ ~link[c].master_open
           /\ StartsOver(w, "waiting")
           /\ UNCHANGED spent
        \/ /\ link[c].master_open
           /\ Lose(1)
           /\ StartsOver(w, "waiting")
     /\ UNCHANGED <<scheduler, sums, filter, program>>

\* The process or its machine is gone; keepalive reports it to the master.
Die(w) ==
  /\ worker[w].at # "dead"
  /\ spent.deaths < MaxDeaths
  /\ spent' = [spent EXCEPT !.deaths = @ + 1]
  /\ StartsOver(w, "dead")
  /\ UNCHANGED <<scheduler, sums, filter, program>>

-----------------------------------------------------------------------------
Master ==
  \/ \E reached \in SUBSET Worker : DiscoverWorkers(reached)
  \/ \E c \in Socket : \/ AcceptEvent(c) \/ SendEvent(c) \/ ReceiveEvent(c)
                       \/ ConnectionClosedEvent(c)
  \/ Return

Serve ==
  \E w \in Worker : \/ SkipDiscovery(w) \/ Connect(w) \/ ReceiveTask(w)
                    \/ SendResponse(w) \/ Die(w)

Next == Master \/ Serve

Spec == Init /\ [][Next]_vars

\* Poll returns every event that stays ready, workers run, and a worker that
\* waits is reached by one of the broadcasts.
Fairness ==
  /\ WF_vars(Return)
  /\ \A c \in Socket : /\ WF_vars(AcceptEvent(c)) /\ WF_vars(SendEvent(c))
                       /\ WF_vars(ReceiveEvent(c))
                       /\ WF_vars(ConnectionClosedEvent(c))
  /\ \A w \in Worker :
       /\ WF_vars(\E reached \in SUBSET Worker :
                    w \in reached /\ DiscoverWorkers(reached))
       /\ WF_vars(Connect(w)) /\ WF_vars(ReceiveTask(w)) /\ WF_vars(SendResponse(w))

FairSpec == Spec /\ Fairness

-----------------------------------------------------------------------------
(* Properties.                                                             *)

\* Every variable has its type.
TypeOK ==
  /\ pending_tasks \in Seq(Task) /\ ready_sockets \in Seq(Socket)
  /\ task_of_socket \in [Socket -> Task \cup {0}]
  /\ task_is_finished \subseteq Task
  /\ finished_tasks \in Nat
  /\ result \in [Task -> Nat]
  /\ filter \in [Socket -> {"None", "Send", "Receive"}]
  /\ program \in {"running", "returned", "uncaught", "refused", "killed"}
  /\ link \in [Socket -> Link]
  /\ worker \in [Worker -> WorkerState]
  /\ spent \in [losses : Nat, deaths : Nat]

\* Where a task is: its places in the queue, and the sockets that have it.
Holders(t) == {i \in DOMAIN pending_tasks : pending_tasks[i] = t}
Sockets(t) == {c \in Socket : task_of_socket[c] = t}

\* A task without a result is in exactly one place, in the queue or with one
\* socket, and one with a result is not in the queue: losses at any of five
\* calls, broken connections and tasks handed from one bad socket to the next
\* neither drop a task nor give it out twice.
TasksHeldOnce ==
  \A t \in Task :
    IF t \in task_is_finished THEN Holders(t) = {}
    ELSE Cardinality(Holders(t)) + Cardinality(Sockets(t)) = 1

\* No task waits while a worker is idle: the two ways into each of the two
\* lists, a socket that gets ready and a task that comes back, look at the
\* other one first.
NoIdleWhilePending == pending_tasks = <<>> \/ ready_sockets = <<>>

\* What a worker computes, or has sent, or will receive on a connection whose
\* two ends are open, is the task its socket was given, and has no result yet:
\* no work is repeated, so the sum never depends on the test for it.
WorkIsExpected ==
  \A w \in Worker :
    LET c == worker[w].socket
        under_way == {worker[w].task, link[c].task, link[c].response} \ {0}
    IN c # 0 /\ link[c].master_open =>
         /\ under_way \subseteq {task_of_socket[c]} \ task_is_finished
         /\ under_way # {} => filter[c] = "Receive"

\* Delete throws "Event wasn't added" for an Event that is not in the poller:
\* the callers are to delete what they added.
DeletesWhatWasAdded == program # "uncaught"

\* The master does what TaskFarm promises.
Farm == INSTANCE TaskFarm WITH sum <- result, returned <- program = "returned"

FarmSpec == Farm!Spec

\* Integrate returns, although messages are lost, connections break and a
\* worker dies, as long as one of the workers is left.  What keeps it is a
\* socket whose worker has gone: an Accept that fails, a second Delete or a
\* SIGPIPE, which end the program, or a task that such a socket swallows.
IntegrateReturns ==
  <>(\/ program # "running"
     \/ \E c \in Socket : filter[c] = "None" /\ IsUnfinished(task_of_socket[c]))

=============================================================================
