----------------------------- MODULE Connection -----------------------------
(***************************************************************************)
(* One TCP connection between the master and a worker, as cppnet carries   *)
(* it: the SocketEvent and what EventPoller and kqueue keep of it          *)
(* (event.cpp, event_poller.h), and the transfer loops of socket.h, byte   *)
(* by byte, with the branches of master.cpp and worker.cpp that use them.  *)
(*                                                                         *)
(* Integration takes an object for one message and an Event's filters for  *)
(* one value; this module is about what lies below.  Other connections     *)
(* appear as what they do to this one: they empty the queue of tasks, or   *)
(* bring a task back that this one gets while it is idle.                  *)
(*                                                                         *)
(* A step of a transfer is one sendto or recvfrom.  "closed" and "reset"   *)
(* say what the master's kernel knows of the worker's end: an orderly      *)
(* close, after which a read finds what is left and then 0 bytes, or a     *)
(* reset, which a read reports as an error.                                *)
(***************************************************************************)
EXTENDS Integers, SequencesExt, FiniteSetsExt

CONSTANTS Size,      \* the bytes of an object
          MaxObjects \* bound: tasks sent on the connection

ASSUME SizeAssumption == Size \in Nat \ {0} /\ MaxObjects \in Nat

VARIABLES
  event,   \* the SocketEvent, and the poller's records of it
  holders, \* the containers of Client that hold a reference to it
  master, worker, \* what the two ends do
  channel  \* the transfers in the two directions

vars == <<event, holders, master, worker, channel>>

-----------------------------------------------------------------------------
Filter == {"EVFILT_READ", "EVFILT_WRITE"}

\* count is what storage_ maps the event to, 0 without an entry; failed says
\* that a call of the poller has thrown, and ended the program.
Event == [type_ : {"Receive", "Send"}, is_closed_ : BOOLEAN, count : 0..2,
          filter : [Filter -> {"absent", "disabled", "enabled"}], failed : BOOLEAN]

\* A byte is known by its object and its place there; <<0, 0>> is what an
\* uninitialized buffer holds.
Byte == ((1..MaxObjects) \X (0..(Size - 1))) \cup {<<0, 0>>}
Buffer == [0..(Size - 1) -> Byte]

\* object is the number of the object sent last; returned is what
\* TryReceiveObject has returned (history).
Transfer == [object : 0..MaxObjects, total_bytes_sent : 0..Size, wire : Seq(Byte),
             total_bytes_received : 0..Size, object_buffer : Buffer,
             returned : Seq(Buffer)]

Uninitialized == [i \in 0..(Size - 1) |-> <<0, 0>>]

Init ==
  /\ event = [type_ |-> "Receive", is_closed_ |-> FALSE, count |-> 0,
              filter |-> [f \in Filter |-> "absent"], failed |-> FALSE]
  /\ holders = {}
  /\ master = "listening"
  /\ worker = "receiving"
  /\ channel = [d \in {"task", "response"} |->
       [object |-> 0, total_bytes_sent |-> 0, wire |-> <<>>,
        total_bytes_received |-> 0, object_buffer |-> Uninitialized,
        returned |-> <<>>]]

-----------------------------------------------------------------------------
(* EventPoller: operators on the event.                                    *)

\* The filter of GetEvent.
FilterOf(e) == IF e.type_ = "Send" THEN "EVFILT_WRITE" ELSE "EVFILT_READ"

SetSocketEventType(e, type) == [e EXCEPT !.type_ = type]

\* A call that throws is the last one.
Attempt(e, possible, after) ==
  IF e.failed \/ ~possible THEN [e EXCEPT !.failed = TRUE] ELSE after

\* The kevent call; without EV_ADD, kqueue must have the filter.
Kevent(e, status) == [e EXCEPT !.filter[FilterOf(e)] = status]
Change(e, status) == Attempt(e, e.filter[FilterOf(e)] # "absent", Kevent(e, status))

Add(e)          == Kevent([e EXCEPT !.count = @ + 1], "disabled")
AddAndEnable(e) == Kevent([e EXCEPT !.count = @ + 1], "enabled")
Enable(e)       == Attempt(e, e.count > 0, Change(e, "enabled"))
Disable(e)      == Attempt(e, e.count > 0, Change(e, "disabled"))

\* Mutant of Delete: the entry goes with the first of its filters.
Delete_Erases(e) == Attempt(e, e.count > 0, Change([e EXCEPT !.count = 0], "absent"))

Delete(e) == Attempt(e, e.count > 0, Change([e EXCEPT !.count = @ - 1], "absent"))

\* Mutant of Turn: the other filter stays enabled.
Turn_Both(e, type) == Enable(SetSocketEventType(e, type))

\* Mutant of Turn: nothing is enabled again.
Turn_Off(e, type) == SetSocketEventType(Disable(e), type)

\* Both branches of the loop turn the event round before they use its socket.
Turn(e, type) == Enable(SetSocketEventType(Disable(e), type))

-----------------------------------------------------------------------------
(* Socket: operators on a transfer.                                        *)

\* Mutant of Remaining: each call is made for the whole object.
Remaining_Whole(total) == Size

\* Mutant of Remaining: the last byte is forgotten.
Remaining_Short(total) == Size - 1 - total

\* What sendto and recvfrom are called for.
Remaining(total) == Size - total

\* TrySendObject of the next object, and one sendto of k bytes.
NewObject(c) == [c EXCEPT !.object = @ + 1, !.total_bytes_sent = 0]

SendTo(c, k) ==
  [c EXCEPT !.wire = @ \o [i \in 1..k |-> <<c.object, c.total_bytes_sent + i - 1>>],
            !.total_bytes_sent = @ + k]

\* How many bytes a recvfrom may return.
Readable(c) == 1..Min({Len(c.wire), Remaining(c.total_bytes_received)})

\* Where they are put: object_buffer is an array, and &object_buffer + n is n
\* arrays further.
Offset(c) == Size * c.total_bytes_received

\* One recvfrom of k bytes; those behind the array are not in it.
ReceiveFrom(c, k) ==
  [c EXCEPT !.wire = SubSeq(@, k + 1, Len(@)),
            !.total_bytes_received = @ + k,
            !.object_buffer = [i \in DOMAIN @ |->
              IF i - Offset(c) \in 0..(k - 1) THEN c.wire[i - Offset(c) + 1] ELSE @[i]]]

\* The beginning of TryReceiveObject, and its end.
NewBuffer(c) == [c EXCEPT !.total_bytes_received = 0, !.object_buffer = Uninitialized]
Return(c) == NewBuffer([c EXCEPT !.returned = Append(@, c.object_buffer)])

-----------------------------------------------------------------------------
(* The master.                                                             *)

\* The worker's end is no more.
Gone == worker \in {"closed", "reset"}

\* The socket is closed with the last reference to its Event.
MasterOpen ==
  /\ master # "ended"
  /\ master # "polling" \/ event.count > 0 \/ holders # {}

Accept ==
  /\ master = "listening"
  /\ master' = "polling"
  /\ event' = AddAndEnable(SetSocketEventType(Add(event), "Send"))
  /\ UNCHANGED <<holders, worker, channel>>

\* Poll returns the event for filter f.
Polls(f) == master = "polling" /\ event.filter[f] = "enabled"

\* An exception of the poller is not caught.
GoesOn(next) == master' = IF event'.failed THEN "ended" ELSE next

\* Mutant of Forget: the event is deleted twice as what it is.
Forget_AsItIs(e) == Delete(Delete(e))

\* The two Deletes of ProcessBadSocket.
Forget(e) ==
  Delete(SetSocketEventType(Delete(SetSocketEventType(e, "Send")), "Receive"))

\* `held' are the containers with a reference before the call.
ProcessBadSocket(e, held) ==
  /\ event' = Forget(e)
  /\ holders' = held \ {"task_of_socket_"}
  /\ GoesOn("polling")

\* ProcessSocketWithTask: the next task is sent, or lost.
ProcessSocketWithTask(e) ==
  LET held == (holders \ {"ready_sockets_"}) \cup {"task_of_socket_"}
  IN /\ channel.task.object < MaxObjects
     /\ \/ /\ event' = e
           /\ holders' = held
           /\ GoesOn("sending")
           /\ channel' = [channel EXCEPT !.task = NewObject(@)]
        \/ ProcessBadSocket(e, held) /\ UNCHANGED channel
     /\ UNCHANGED worker

\* EVFILT_WRITE is ready at all times.  Without a task the event waits.
SendEvent ==
  /\ Polls("EVFILT_WRITE")
  /\ \/ ProcessSocketWithTask(Turn(event, "Receive"))
     \/ /\ event' = Turn(event, "Receive")
        /\ holders' = holders \cup {"ready_sockets_"}
        /\ GoesOn("polling")
        /\ UNCHANGED <<worker, channel>>

\* A task comes back from another connection.
ProcessNewTask ==
  /\ master = "polling" /\ "ready_sockets_" \in holders
  /\ ProcessSocketWithTask(event)

\* EVFILT_READ with bytes to read, and no EV_EOF.
ReceiveEvent ==
  /\ Polls("EVFILT_READ")
  /\ channel.response.wire # <<>> /\ ~Gone
  /\ event' = Turn(event, "Send")
  /\ GoesOn("receiving")
  /\ channel' = [channel EXCEPT !.response = NewBuffer(@)]
  /\ UNCHANGED <<holders, worker>>

\* EV_EOF, on whichever filter is enabled.
ConnectionClosedEvent ==
  /\ \E f \in Filter : Polls(f)
  /\ Gone
  /\ ProcessBadSocket([event EXCEPT !.is_closed_ = TRUE], holders)
  /\ UNCHANGED <<worker, channel>>

\* The loop of TrySendObject.  A connection whose other end has gone ends it
\* with an error, or, as SIGPIPE keeps its default, the whole process.
MasterSends ==
  /\ master = "sending"
  /\ \/ /\ \E k \in 1..Remaining(channel.task.total_bytes_sent) :
             channel' = [channel EXCEPT !.task = SendTo(@, k)]
        /\ master' = IF channel'.task.total_bytes_sent = Size
                     THEN "polling" ELSE "sending"
        /\ UNCHANGED <<event, holders, worker>>
     \/ /\ Gone
        /\ \/ ProcessBadSocket(event, holders)
           \/ master' = "ended" /\ UNCHANGED <<event, holders>>
        /\ UNCHANGED <<worker, channel>>

\* Mutant of ReceiveFails: the master comes back to the socket later.
ReceiveFails_Later == master' = "polling" /\ UNCHANGED <<event, holders>>

\* TryReceiveObject returns an error: the connection is given up.
ReceiveFails == ProcessBadSocket(event, holders)

\* The loop of TryReceiveObject with MSG_DONTWAIT.  Poll has seen a byte; the
\* next ones may be late, which is an error, as a reset is.  After an orderly
\* close none is late: the loop reads what is left, and then 0 bytes again and
\* again, which is no step.  A write behind the array may end the process.  A
\* response that is whole may count as lost.
MasterReceives ==
  /\ master = "receiving"
  /\ \/ /\ \E k \in Readable(channel.response) :
             channel' = [channel EXCEPT !.response = ReceiveFrom(@, k)]
        /\ channel'.response.total_bytes_received # Size
        /\ UNCHANGED <<event, holders, master>>
     \/ /\ \E k \in Readable(channel.response) :
             LET c == ReceiveFrom(channel.response, k)
             IN c.total_bytes_received = Size
                /\ channel' = [channel EXCEPT !.response = Return(c)]
        /\ \/ master' = "polling" /\ UNCHANGED <<event, holders>>
           \/ ProcessBadSocket(event, holders)
     \/ /\ \/ channel.response.total_bytes_received > 0 /\ ~Gone
           \/ worker = "reset"
        /\ ReceiveFails
        /\ UNCHANGED channel
     \/ /\ channel.response.total_bytes_received > 0
        /\ channel.response.wire # <<>>
        /\ master' = "ended"
        /\ UNCHANGED <<event, holders, channel>>
  /\ UNCHANGED worker

\* The last result has come in on another connection: the program ends.
Integrated ==
  /\ master \in {"listening", "polling"}
  /\ master' = "ended"
  /\ UNCHANGED <<event, holders, worker, channel>>

-----------------------------------------------------------------------------
(* The worker.                                                             *)

\* The blocking loop of TryReceiveObject; when the master has closed it reads
\* 0 bytes for ever: no step.
WorkerReceives ==
  /\ worker = "receiving"
  /\ \E k \in Readable(channel.task) :
       LET c == ReceiveFrom(channel.task, k)
           whole == c.total_bytes_received = Size
       IN /\ channel' = [channel EXCEPT !.task = IF whole THEN Return(c) ELSE c]
          /\ worker' = IF whole THEN "computing" ELSE "receiving"
  /\ UNCHANGED <<event, holders, master>>

WorkerAnswers ==
  /\ worker = "computing"
  /\ worker' = "sending"
  /\ channel' = [channel EXCEPT !.response = NewObject(@)]
  /\ UNCHANGED <<event, holders, master>>

WorkerSends ==
  /\ worker = "sending"
  /\ \E k \in 1..Remaining(channel.response.total_bytes_sent) :
       channel' = [channel EXCEPT !.response = SendTo(@, k)]
  /\ worker' = IF channel'.response.total_bytes_sent = Size
               THEN "receiving" ELSE "sending"
  /\ UNCHANGED <<event, holders, master>>

\* A loss, an error, a signal or a write behind the array: the worker leaves
\* the connection, or dies.  With something unread, or with its host, its end
\* goes in a reset, which may also follow a close.
WorkerCloses ==
  /\ worker # "reset"
  /\ worker' \in {"closed", "reset"} \ {worker}
  /\ UNCHANGED <<event, holders, master, channel>>

-----------------------------------------------------------------------------
Next ==
  \/ Accept \/ SendEvent \/ ProcessNewTask \/ ReceiveEvent
  \/ ConnectionClosedEvent \/ MasterSends \/ MasterReceives \/ Integrated
  \/ WorkerReceives \/ WorkerAnswers \/ WorkerSends \/ WorkerCloses

\* Poll returns the events that stay ready, and both programs run.
Spec ==
  /\ Init /\ [][Next]_vars
  /\ WF_vars(ReceiveEvent) /\ WF_vars(ConnectionClosedEvent)
  /\ WF_vars(MasterSends) /\ WF_vars(MasterReceives)
  /\ WF_vars(WorkerReceives) /\ WF_vars(WorkerAnswers) /\ WF_vars(WorkerSends)

-----------------------------------------------------------------------------
(* Properties.                                                             *)

\* Every variable has its type: no transfer goes past the end of its object.
TypeOK ==
  /\ event \in Event
  /\ holders \subseteq {"ready_sockets_", "task_of_socket_"}
  /\ master \in {"listening", "polling", "sending", "receiving", "ended"}
  /\ worker \in {"receiving", "computing", "sending", "closed", "reset"}
  /\ channel \in [{"task", "response"} -> Transfer]

\* Poll dereferences the pointer to a storage_ entry that comes back from
\* kqueue.  Whatever calls fail in between, kqueue has a filter of the event
\* only while its entry is there, one for each of its counts.
PolledIsStored ==
  Cardinality({f \in Filter : event.filter[f] # "absent"}) = event.count

\* The loop looks at type_, not at the filter that Poll was woken by: while
\* the event is in the poller, the filter of its type and no other is enabled.
WokenByItsType ==
  event.count > 0 /\ ~event.failed =>
    {f \in Filter : event.filter[f] = "enabled"} = {FilterOf(event)}

\* A poller call fails only for an event that was deleted when its connection
\* was closed and that some container still holds.
FailsOnlyWhenStale == event.failed => event.is_closed_

\* Each byte of the i-th object that TryReceiveObject returns is the byte of
\* the i-th object sent, or was never written: no error, loss or partial
\* transfer before leaves a reader in the middle of an object.  (After a read
\* in two parts the second is missing, as Offset shows.)
BytesInPlace ==
  \A d \in DOMAIN channel : \A i \in DOMAIN channel[d].returned :
    \A j \in 0..(Size - 1) :
      channel[d].returned[i][j] \in {<<i, j>>} \cup (IF j = 0 THEN {} ELSE {<<0, 0>>})

\* The worker has closed in the middle of its response, and the master reads 0
\* bytes again and again.
Spins ==
  /\ master = "receiving" /\ worker = "closed"
  /\ channel.response.wire = <<>>
  /\ channel.response.total_bytes_received < Size

\* The master, one thread for all connections, comes back to Poll from every
\* transfer, whatever arrives late or is reset; an orderly close in the middle
\* of a response is all that keeps it.
MasterComesBack ==
  master \in {"sending", "receiving"} ~> master \in {"polling", "ended"} \/ Spins

\* An object that is sent is received, unless one end closes.
SentIsReceived ==
  \A d \in {"task", "response"}, n \in 1..MaxObjects :
    channel[d].object = n ~>
      Len(channel[d].returned) >= n \/ Gone \/ ~MasterOpen

=============================================================================
