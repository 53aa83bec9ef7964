-------------------------- MODULE Connection_proofs --------------------------
(***************************************************************************)
(* Theorems about Connection, for objects of every size and any number of  *)
(* tasks.  EventInv speaks of the Event alone: kqueue and the poller's     *)
(* storage_ always agree on it, and the loop is woken by the filter that   *)
(* it acts on.  ConnectionInv adds the bytes under way in each direction   *)
(* and who may be at work on them: what is returned is in its place, and   *)
(* only the Event of a closed connection makes the poller throw.           *)
(***************************************************************************)
EXTENDS Connection, TLAPS, FiniteSetTheorems, SequenceTheorems

-----------------------------------------------------------------------------
(* The invariant.                                                          *)

\* An Event is in the poller with both filters, of which that of its type is
\* enabled, or with none.
Kept(e) ==
  \/ /\ e.count = 0
     /\ \A f \in Filter : e.filter[f] = "absent"
  \/ /\ e.count = 2 /\ ~e.failed
     /\ \A f \in Filter :
          e.filter[f] = IF f = FilterOf(e) THEN "enabled" ELSE "disabled"

\* An Event that has not been added yet can be added.
New(e) == e.count = 0 /\ ~e.failed /\ e.type_ = "Receive"

EventInv ==
  /\ event \in Event
  /\ Kept(event)
  /\ master = "listening" => New(event)

-----------------------------------------------------------------------------
(* What the calls do to an Event.                                          *)

LEMMA FilterOfType ==
  ASSUME NEW e PROVE FilterOf(e) \in Filter
BY DEF FilterOf, Filter

LEMMA KeventEffect ==
  ASSUME NEW e \in Event, NEW status,
         status = "absent" \/ status = "disabled" \/ status = "enabled"
  PROVE  /\ Kevent(e, status) \in Event
         /\ Kevent(e, status).count = e.count
         /\ Kevent(e, status).failed = e.failed
         /\ Kevent(e, status).type_ = e.type_
         /\ Kevent(e, status).is_closed_ = e.is_closed_
         /\ Kevent(e, status).filter = [e.filter EXCEPT ![FilterOf(e)] = status]
<1>. DEFINE f == FilterOf(e)
            k == [e EXCEPT !.filter = [e.filter EXCEPT ![f] = status]]
<1>1. f \in Filter
  BY FilterOfType
<1>. HIDE DEF f
<1>2. [e.filter EXCEPT ![f] = status] \in [Filter -> {"absent", "disabled", "enabled"}]
  BY <1>1 DEF Event
<1>3. /\ k \in Event /\ k.count = e.count /\ k.failed = e.failed
      /\ k.type_ = e.type_ /\ k.is_closed_ = e.is_closed_
      /\ k.filter = [e.filter EXCEPT ![f] = status]
  BY <1>2 DEF Event
<1>4. Kevent(e, status) = k
  BY DEF Kevent, f
<1>. HIDE DEF k
<1>. QED  BY <1>3, <1>4 DEF f

\* What changes the count of an Event's entry changes nothing else.
LEMMA CountEffect ==
  ASSUME NEW e \in Event, NEW n \in 0..2
  PROVE  /\ [e EXCEPT !.count = n] \in Event
         /\ [e EXCEPT !.count = n].count = n
         /\ [e EXCEPT !.count = n].failed = e.failed
         /\ [e EXCEPT !.count = n].type_ = e.type_
         /\ [e EXCEPT !.count = n].is_closed_ = e.is_closed_
         /\ [e EXCEPT !.count = n].filter = e.filter
         /\ FilterOf([e EXCEPT !.count = n]) = FilterOf(e)
BY DEF Event, FilterOf

\* Accept: Add, SetSocketEventType and AddAndEnable put an Event in.
LEMMA AddedTwice ==
  ASSUME NEW e \in Event, Kept(e), New(e)
  PROVE  LET a == AddAndEnable(SetSocketEventType(Add(e), "Send"))
         IN a \in Event /\ Kept(a) /\ a.count = 2
<1>1. /\ e.count = 0 /\ ~e.failed /\ e.type_ = "Receive"
      /\ \A f \in Filter : e.filter[f] = "absent"
  BY DEF Kept, New
<1>. DEFINE b == Add(e)
            c == SetSocketEventType(b, "Send")
            a == AddAndEnable(c)
<1>2. /\ b \in Event /\ b.count = 1 /\ ~b.failed
      /\ b.filter = [e.filter EXCEPT !["EVFILT_READ"] = "disabled"]
  <2>1. e.count + 1 = 1 /\ 1 \in 0..2 /\ FilterOf(e) = "EVFILT_READ"
    BY <1>1 DEF FilterOf
  <2>. DEFINE counted == [e EXCEPT !.count = 1]
  <2>2. b = Kevent(counted, "disabled")
    BY <1>1, <2>1 DEF Add
  <2>3. /\ counted \in Event /\ counted.count = 1 /\ ~counted.failed
        /\ counted.filter = e.filter /\ FilterOf(counted) = "EVFILT_READ"
    BY <1>1, <2>1, CountEffect
  <2>. HIDE DEF b, counted
  <2>. QED  BY <2>2, <2>3, KeventEffect
<1>3. /\ c \in Event /\ c.count = 1 /\ ~c.failed /\ c.type_ = "Send"
      /\ c.filter = b.filter
  BY <1>2 DEF SetSocketEventType, Event
<1>4. /\ a \in Event /\ a.count = 2 /\ ~a.failed /\ a.type_ = "Send"
      /\ a.filter = [c.filter EXCEPT !["EVFILT_WRITE"] = "enabled"]
  <2>1. c.count + 1 = 2 /\ 2 \in 0..2 /\ FilterOf(c) = "EVFILT_WRITE"
    BY <1>3 DEF FilterOf
  <2>. HIDE DEF b, c
  <2>. DEFINE counted == [c EXCEPT !.count = 2]
  <2>2. a = Kevent(counted, "enabled")
    BY <2>1, <1>3 DEF AddAndEnable
  <2>3. /\ counted \in Event /\ counted.count = 2 /\ ~counted.failed
        /\ counted.type_ = "Send"
        /\ counted.filter = c.filter /\ FilterOf(counted) = "EVFILT_WRITE"
    BY <1>3, <2>1, CountEffect
  <2>. HIDE DEF a, counted
  <2>. QED  BY <2>2, <2>3, KeventEffect
<1>5. FilterOf(a) = "EVFILT_WRITE"
  BY <1>4 DEF FilterOf
<1>. HIDE DEF a, b, c
<1>6. Kept(a)
  BY <1>1, <1>2, <1>3, <1>4, <1>5 DEF Kept, Filter, Event
<1>. QED  BY <1>4, <1>6 DEF a, b, c

\* Disable, SetSocketEventType and Enable turn an Event round that is in.
LEMMA TurnKeeps ==
  ASSUME NEW e \in Event, Kept(e), e.count # 0,
         NEW type \in {"Receive", "Send"}
  PROVE  /\ Turn(e, type) \in Event /\ Kept(Turn(e, type))
         /\ Turn(e, type).count = 2 /\ ~Turn(e, type).failed
         /\ Turn(e, type).type_ = type
<1>1. /\ e.count = 2 /\ ~e.failed
      /\ \A f \in Filter :
           e.filter[f] = IF f = FilterOf(e) THEN "enabled" ELSE "disabled"
  BY DEF Kept
<1>. DEFINE b == Disable(e)
            c == SetSocketEventType(b, type)
            a == Enable(c)
<1>2. /\ b \in Event /\ b.count = 2 /\ ~b.failed
      /\ \A f \in Filter : b.filter[f] = "disabled"
  BY <1>1, FilterOfType DEF Disable, Change, Attempt, Kevent, Event
<1>3. /\ c \in Event /\ c.count = 2 /\ ~c.failed /\ c.type_ = type
      /\ \A f \in Filter : c.filter[f] = "disabled"
  BY <1>2 DEF SetSocketEventType, Event
<1>. HIDE DEF b, c
<1>4. /\ a \in Event /\ a.count = 2 /\ ~a.failed /\ a.type_ = type
      /\ FilterOf(a) = FilterOf(c)
      /\ \A f \in Filter :
           a.filter[f] = IF f = FilterOf(c) THEN "enabled" ELSE "disabled"
  <2>1. a = [c EXCEPT !.filter[FilterOf(c)] = "enabled"]
    BY <1>3, FilterOfType DEF Enable, Change, Attempt, Kevent, Event
  <2>2. FilterOf(c) \in Filter
    BY FilterOfType
  <2>3. a.type_ = c.type_
    BY <2>1, <1>3 DEF Event
  <2>4. FilterOf(a) = FilterOf(c)
    BY <2>3 DEF FilterOf
  <2>. HIDE DEF a
  <2>. QED  BY <2>1, <2>2, <2>3, <2>4, <1>3 DEF Event
<1>5. a = Turn(e, type)
  BY DEF Turn, a, b, c
<1>. HIDE DEF a
<1>. QED  BY <1>4, <1>5 DEF Kept

\* Delete of an Event that is not in the poller, and of one whose filter is.
LEMMA DeleteThrows ==
  ASSUME NEW e \in Event, e.count = 0
  PROVE  /\ Delete(e) \in Event /\ Delete(e).count = 0 /\ Delete(e).failed
         /\ Delete(e).filter = e.filter /\ Delete(e).is_closed_ = e.is_closed_
<1>1. Delete(e) = [e EXCEPT !.failed = TRUE]
  BY DEF Delete, Attempt
<1>. QED  BY <1>1 DEF Event

LEMMA DeleteEffect ==
  ASSUME NEW e \in Event, e.count # 0, ~e.failed, e.filter[FilterOf(e)] # "absent"
  PROVE  /\ Delete(e) \in Event /\ Delete(e).count = e.count - 1
         /\ ~Delete(e).failed /\ Delete(e).is_closed_ = e.is_closed_
         /\ Delete(e).filter = [e.filter EXCEPT ![FilterOf(e)] = "absent"]
<1>. DEFINE counted == [e EXCEPT !.count = e.count - 1]
<1>1. e.count \in 0..2 /\ e.count - 1 \in 0..2 /\ e.count > 0
  BY DEF Event
<1>2. /\ counted \in Event /\ counted.count = e.count - 1 /\ ~counted.failed
      /\ counted.is_closed_ = e.is_closed_
      /\ counted.filter = e.filter /\ FilterOf(counted) = FilterOf(e)
  BY <1>1, CountEffect
<1>3. Delete(e) = Attempt(e, TRUE, Change(counted, "absent"))
  BY <1>1 DEF Delete
<1>. HIDE DEF counted
<1>4. Change(counted, "absent") = Kevent(counted, "absent")
  BY <1>2 DEF Change, Attempt
<1>5. Delete(e) = Kevent(counted, "absent")
  BY <1>3, <1>4 DEF Attempt
<1>. QED  BY <1>2, <1>5, KeventEffect

\* The two Deletes of ProcessBadSocket take out an Event that is in, and throw
\* for one that is not.
LEMMA ForgetKeeps ==
  ASSUME NEW e \in Event, Kept(e)
  PROVE  /\ Forget(e) \in Event /\ Kept(Forget(e)) /\ Forget(e).count = 0
         /\ Forget(e).is_closed_ = e.is_closed_
         /\ Forget(e).failed => e.count = 0
<1>. DEFINE b == SetSocketEventType(e, "Send")
            c == Delete(b)
            d == SetSocketEventType(c, "Receive")
            a == Delete(d)
<1>1. /\ b \in Event /\ b.count = e.count /\ b.failed = e.failed
      /\ b.type_ = "Send" /\ b.filter = e.filter /\ b.is_closed_ = e.is_closed_
  BY DEF SetSocketEventType, Event
<1>. HIDE DEF b
<1>2. FilterOf(b) = "EVFILT_WRITE"
  BY <1>1 DEF FilterOf
<1>3. a = Forget(e)
  BY DEF Forget, a, b, c, d
<1>4. CASE e.count = 0
  <2>1. /\ c \in Event /\ c.count = 0 /\ c.filter = e.filter
        /\ c.is_closed_ = e.is_closed_
    BY <1>1, <1>4, DeleteThrows
  <2>. HIDE DEF c
  <2>2. /\ d \in Event /\ d.count = 0 /\ d.filter = e.filter
        /\ d.is_closed_ = e.is_closed_
    BY <2>1 DEF SetSocketEventType, Event
  <2>. HIDE DEF d
  <2>3. /\ a \in Event /\ a.count = 0 /\ a.filter = e.filter
        /\ a.is_closed_ = e.is_closed_
    BY <2>2, DeleteThrows
  <2>. HIDE DEF a
  <2>. QED  BY <2>3, <1>3, <1>4 DEF Kept
<1>5. CASE e.count # 0
  <2>1. e.count = 2 /\ ~e.failed /\ \A f \in Filter : e.filter[f] # "absent"
    BY <1>5 DEF Kept
  <2>2. /\ c \in Event /\ c.count = 1 /\ ~c.failed /\ c.is_closed_ = e.is_closed_
        /\ c.filter = [e.filter EXCEPT !["EVFILT_WRITE"] = "absent"]
    <3>1. b.count # 0 /\ ~b.failed /\ b.filter[FilterOf(b)] # "absent"
      BY <1>1, <1>2, <2>1 DEF Filter
    <3>. QED  BY <1>1, <1>2, <2>1, <3>1, DeleteEffect
  <2>. HIDE DEF c
  <2>3. /\ d \in Event /\ d.count = 1 /\ ~d.failed /\ d.type_ = "Receive"
        /\ d.filter = c.filter /\ d.is_closed_ = e.is_closed_
    BY <2>2 DEF SetSocketEventType, Event
  <2>. HIDE DEF d
  <2>4. FilterOf(d) = "EVFILT_READ"
    BY <2>3 DEF FilterOf
  <2>5. /\ a \in Event /\ a.count = 0 /\ ~a.failed /\ a.is_closed_ = e.is_closed_
        /\ a.filter = [d.filter EXCEPT !["EVFILT_READ"] = "absent"]
    <3>1. d.count # 0 /\ d.filter[FilterOf(d)] # "absent"
      BY <2>1, <2>2, <2>3, <2>4 DEF Filter, Event
    <3>. QED  BY <2>3, <2>4, <3>1, DeleteEffect
  <2>. HIDE DEF a
  <2>6. \A f \in Filter : a.filter[f] = "absent"
    BY <2>2, <2>3, <2>5 DEF Filter, Event
  <2>. QED  BY <2>5, <2>6, <1>3 DEF Kept
<1>. QED  BY <1>4, <1>5

\* An Event that Poll returns is in the poller.
LEMMA PolledIsIn ==
  ASSUME Kept(event), NEW f \in Filter, Polls(f)
  PROVE  event.count # 0
BY DEF Kept, Polls

LEMMA BadSocketKeeps ==
  ASSUME NEW e \in Event, Kept(e), NEW held, ProcessBadSocket(e, held)
  PROVE  event' \in Event /\ Kept(event') /\ master' # "listening"
BY ForgetKeeps DEF ProcessBadSocket, GoesOn

LEMMA SocketWithTaskKeeps ==
  ASSUME NEW e \in Event, Kept(e), ProcessSocketWithTask(e)
  PROVE  event' \in Event /\ Kept(event') /\ master' # "listening"
<1>. DEFINE held == (holders \ {"ready_sockets_"}) \cup {"task_of_socket_"}
<1>1. CASE ProcessBadSocket(e, held)
  BY <1>1, BadSocketKeeps
<1>2. CASE event' = e /\ GoesOn("sending")
  BY <1>2 DEF GoesOn
<1>. QED  BY <1>1, <1>2 DEF ProcessSocketWithTask

-----------------------------------------------------------------------------
(* The invariant is inductive.                                             *)

LEMMA EventInvInit == Init => EventInv
BY DEF Init, EventInv, Event, Filter, Kept, New

LEMMA EventInvNext == EventInv /\ [Next]_vars => EventInv'
<1>. SUFFICES ASSUME EventInv, [Next]_vars PROVE EventInv'
  OBVIOUS
<1>. USE DEF EventInv
<1>1. CASE Accept
  <2>1. New(event)
    BY <1>1 DEF Accept
  <2>2. event' \in Event /\ Kept(event')
    BY <1>1, <2>1, AddedTwice DEF Accept
  <2>. QED  BY <1>1, <2>2 DEF Accept
<1>2. CASE SendEvent
  <2>1. event.count # 0
    BY <1>2, PolledIsIn DEF SendEvent, Filter
  <2>2. Turn(event, "Receive") \in Event /\ Kept(Turn(event, "Receive"))
    BY <2>1, TurnKeeps
  <2>3. CASE ProcessSocketWithTask(Turn(event, "Receive"))
    BY <2>2, <2>3, SocketWithTaskKeeps
  <2>4. CASE event' = Turn(event, "Receive") /\ GoesOn("polling")
    BY <2>2, <2>4 DEF GoesOn
  <2>. QED  BY <1>2, <2>3, <2>4 DEF SendEvent
<1>3. CASE ProcessNewTask
  BY <1>3, SocketWithTaskKeeps DEF ProcessNewTask
<1>4. CASE ReceiveEvent
  <2>1. event.count # 0
    BY <1>4, PolledIsIn DEF ReceiveEvent, Filter
  <2>2. event' \in Event /\ Kept(event')
    BY <1>4, <2>1, TurnKeeps DEF ReceiveEvent
  <2>. QED  BY <1>4, <2>2 DEF ReceiveEvent, GoesOn
<1>5. CASE ConnectionClosedEvent
  <2>. DEFINE closed == [event EXCEPT !.is_closed_ = TRUE]
  <2>1. closed \in Event /\ Kept(closed)
    BY DEF Event, Kept, FilterOf
  <2>. HIDE DEF closed
  <2>2. ProcessBadSocket(closed, holders)
    BY <1>5 DEF ConnectionClosedEvent, closed
  <2>. QED  BY <2>1, <2>2, BadSocketKeeps
<1>6. CASE MasterSends
  <2>1. CASE ProcessBadSocket(event, holders)
    BY <2>1, BadSocketKeeps
  <2>2. CASE event' = event /\ master' \in {"polling", "sending", "ended"}
    BY <2>2
  <2>. QED  BY <1>6, <2>1, <2>2 DEF MasterSends
<1>7. CASE MasterReceives
  <2>1. CASE ProcessBadSocket(event, holders)
    BY <2>1, BadSocketKeeps
  <2>2. CASE event' = event /\ master' \in {"polling", "receiving", "ended"}
    BY <2>2
  <2>. QED  BY <1>7, <2>1, <2>2 DEF MasterReceives, ReceiveFails
<1>8. CASE Integrated
  BY <1>8 DEF Integrated
<1>9. CASE UNCHANGED <<event, master>>
  BY <1>9
<1>. QED
  BY <1>1, <1>2, <1>3, <1>4, <1>5, <1>6, <1>7, <1>8, <1>9
  DEF Next, WorkerReceives, WorkerAnswers, WorkerSends, WorkerCloses, vars

LEMMA EventInvHolds == Spec => []EventInv
BY EventInvInit, EventInvNext, PTL DEF Spec

-----------------------------------------------------------------------------
(* The transfers, and who may work on them: the stronger invariant that    *)
(* FailsOnlyWhenStale, BytesInPlace and the types rest on.                 *)

\* What an object's buffer holds at place j, when some of the object is there.
InPlace(buffer, n, j) ==
  buffer[j] \in {<<n, j>>} \cup (IF j = 0 THEN {} ELSE {<<0, 0>>})

\* Between two objects nothing is on the wire.
Done(c) ==
  /\ Len(c.returned) = c.object
  /\ c.wire = <<>> /\ c.total_bytes_received = 0
  /\ c.object_buffer = Uninitialized

\* While an object is under way, what was sent and not received of it is on the
\* wire, and nothing else.
Flight(c) ==
  /\ Len(c.returned) + 1 = c.object
  /\ c.total_bytes_received < Size
  /\ Len(c.wire) = c.total_bytes_sent - c.total_bytes_received
  /\ \A i \in DOMAIN c.wire : c.wire[i] = <<c.object, c.total_bytes_received + i - 1>>
  /\ IF c.total_bytes_received = 0 THEN c.object_buffer = Uninitialized
     ELSE \A j \in 0..(Size - 1) : InPlace(c.object_buffer, c.object, j)

TransferInv(c) ==
  /\ c \in Transfer
  /\ Done(c) \/ Flight(c)
  /\ \A i \in DOMAIN c.returned : \A j \in 0..(Size - 1) : InPlace(c.returned[i], i, j)

\* No task and no response is under way, nor being computed.
Quiet ==
  /\ Done(channel.task) /\ Done(channel.response)
  /\ worker \in {"receiving", "closed", "reset"}

\* What the worker does fits the object that is under way.
WorkerInv ==
  /\ worker = "computing" => Done(channel.task) /\ Done(channel.response)
  /\ worker = "sending" =>
       /\ Done(channel.task)
       /\ Flight(channel.response) /\ channel.response.total_bytes_sent < Size
  /\ Flight(channel.task) => Done(channel.response)
  /\ Flight(channel.task) \/ worker = "computing" =>
       channel.response.object < channel.task.object
  /\ channel.response.object <= channel.task.object

\* The master waits for a task, sends or receives only as the Event's type and
\* the containers say, and only when the other end has nothing to say.
MasterInv ==
  /\ master = "listening" => Quiet /\ holders = {}
  /\ "ready_sockets_" \in holders => Quiet
  /\ "ready_sockets_" \in holders /\ event.count # 0 => event.type_ = "Receive"
  /\ master = "polling" /\ event.count # 0 /\ event.type_ = "Send" => Quiet
  /\ master = "polling" /\ event.count # 0 => channel.response.total_bytes_received = 0
  /\ master = "sending" =>
       /\ Flight(channel.task) /\ channel.task.total_bytes_sent < Size
       /\ worker \in {"receiving", "closed", "reset"}
       /\ "ready_sockets_" \notin holders
       /\ event.count # 0 => event.type_ = "Receive"
  /\ master = "receiving" =>
       /\ Flight(channel.response) /\ event.count # 0 /\ event.type_ = "Send"
       /\ "ready_sockets_" \notin holders

\* An Event that is out of the poller and may be used again was closed.
StaleInv ==
  /\ (master = "sending" \/ "ready_sockets_" \in holders) /\ event.count = 0 =>
       event.is_closed_
  /\ event.failed => event.is_closed_

\* The variables other than the Event.
OthersType ==
  /\ holders \subseteq {"ready_sockets_", "task_of_socket_"}
  /\ master \in {"listening", "polling", "sending", "receiving", "ended"}
  /\ worker \in {"receiving", "computing", "sending", "closed", "reset"}
  /\ channel \in [{"task", "response"} -> Transfer]

ChannelInv == TransferInv(channel.task) /\ TransferInv(channel.response)

ConnectionInv ==
  EventInv /\ OthersType /\ ChannelInv /\ WorkerInv /\ MasterInv /\ StaleInv

-----------------------------------------------------------------------------
(* What the loops of socket.h do to a transfer.                            *)

LEMMA SizeIsNat == Size \in Nat /\ Size > 0 /\ MaxObjects \in Nat
BY SizeAssumption

LEMMA UninitializedType ==
  /\ Uninitialized \in Buffer
  /\ \A j \in 0..(Size - 1) : Uninitialized[j] = <<0, 0>>
BY SizeIsNat DEF Uninitialized, Buffer, Byte

LEMMA DoneOrFlight ==
  ASSUME NEW c \in Transfer PROVE ~(Done(c) /\ Flight(c))
BY DEF Done, Flight, Transfer

\* TrySendObject begins with the next object.
LEMMA NewObjectEffect ==
  ASSUME NEW c, TransferInv(c), Done(c), c.object < MaxObjects
  PROVE  /\ TransferInv(NewObject(c)) /\ Flight(NewObject(c))
         /\ NewObject(c).object = c.object + 1
         /\ NewObject(c).total_bytes_sent = 0
         /\ NewObject(c).total_bytes_received = 0
<1>. DEFINE n == NewObject(c)
<1>1. c \in Transfer /\ c.object \in 0..MaxObjects
  BY DEF TransferInv, Transfer
<1>2. /\ n \in Transfer /\ n.object = c.object + 1 /\ n.total_bytes_sent = 0
      /\ n.wire = c.wire /\ n.total_bytes_received = c.total_bytes_received
      /\ n.object_buffer = c.object_buffer /\ n.returned = c.returned
  <2>1. c.object + 1 \in 0..MaxObjects /\ 0 \in 0..Size
    BY <1>1, SizeIsNat
  <2>. DEFINE o == c.object + 1
  <2>2. n = [c EXCEPT !.object = o, !.total_bytes_sent = 0]
    BY DEF NewObject
  <2>3. o \in 0..MaxObjects
    BY <2>1
  <2>. HIDE DEF o, n
  <2>4. /\ n \in Transfer /\ n.object = o /\ n.total_bytes_sent = 0
        /\ n.wire = c.wire /\ n.total_bytes_received = c.total_bytes_received
        /\ n.object_buffer = c.object_buffer /\ n.returned = c.returned
    BY <1>1, <2>1, <2>2, <2>3 DEF Transfer
  <2>. QED  BY <2>4 DEF o
<1>. HIDE DEF n
<1>3. Flight(n)
  BY <1>1, <1>2, SizeIsNat DEF Flight, Done
<1>. QED  BY <1>2, <1>3 DEF TransferInv, Done, n

\* One sendto puts the next bytes of the object on the wire.
LEMMA SendToEffect ==
  ASSUME NEW c, TransferInv(c), Flight(c),
         NEW k \in 1..Remaining(c.total_bytes_sent)
  PROVE  /\ TransferInv(SendTo(c, k)) /\ Flight(SendTo(c, k))
         /\ SendTo(c, k).total_bytes_sent \in 0..Size
         /\ SendTo(c, k).object = c.object
         /\ SendTo(c, k).total_bytes_received = c.total_bytes_received
<1>. DEFINE n == SendTo(c, k)
            sent == [i \in 1..k |-> <<c.object, c.total_bytes_sent + i - 1>>]
<1>1. /\ c \in Transfer /\ c.object \in 0..MaxObjects /\ c.wire \in Seq(Byte)
      /\ c.total_bytes_sent \in 0..Size /\ c.total_bytes_received \in 0..Size
      /\ c.returned \in Seq(Buffer)
  BY DEF TransferInv, Transfer
<1>2. k \in Nat /\ k > 0 /\ c.total_bytes_sent + k \in 0..Size
  BY <1>1, SizeIsNat DEF Remaining
<1>3. c.object \in 1..MaxObjects
  BY <1>1 DEF Flight
<1>4. sent \in Seq(Byte) /\ Len(sent) = k
  <2>1. \A i \in 1..k : <<c.object, c.total_bytes_sent + i - 1>> \in Byte
    BY <1>1, <1>2, <1>3, SizeIsNat DEF Byte
  <2>. QED  BY <1>2, <2>1
<1>5. \A i \in 1..k : sent[i] = <<c.object, c.total_bytes_sent + i - 1>>
  OBVIOUS
<1>. HIDE DEF sent
<1>6. /\ c.wire \o sent \in Seq(Byte)
      /\ Len(c.wire \o sent) = Len(c.wire) + k
      /\ \A i \in 1..Len(c.wire) + k :
           (c.wire \o sent)[i] = IF i <= Len(c.wire) THEN c.wire[i]
                                 ELSE sent[i - Len(c.wire)]
  BY <1>1, <1>4, ConcatProperties
<1>7. /\ n \in Transfer /\ n.wire = c.wire \o sent
      /\ n.total_bytes_sent = c.total_bytes_sent + k
      /\ n.total_bytes_received = c.total_bytes_received
      /\ n.object = c.object /\ n.object_buffer = c.object_buffer
      /\ n.returned = c.returned
  BY <1>1, <1>2, <1>6 DEF SendTo, sent, Transfer
<1>. HIDE DEF n
<1>8. Len(c.wire) = c.total_bytes_sent - c.total_bytes_received /\ Len(c.wire) \in Nat
  BY <1>1 DEF Flight
<1>9. Len(n.wire) = n.total_bytes_sent - n.total_bytes_received
  BY <1>1, <1>2, <1>6, <1>7, <1>8
<1>10. \A i \in DOMAIN n.wire :
         n.wire[i] = <<n.object, n.total_bytes_received + i - 1>>
  <2>1. DOMAIN n.wire = 1..Len(c.wire) + k
    BY <1>6, <1>7, <1>8, <1>2
  <2>. SUFFICES ASSUME NEW i \in 1..Len(c.wire) + k
                PROVE  n.wire[i] = <<c.object, c.total_bytes_received + i - 1>>
    BY <2>1, <1>7
  <2>2. i \in Nat /\ i > 0 /\ i <= Len(c.wire) + k
    BY <1>2, <1>8
  <2>3. CASE i <= Len(c.wire)
    <3>1. i \in DOMAIN c.wire
      BY <2>2, <2>3, <1>1, <1>8
    <3>2. n.wire[i] = c.wire[i]
      BY <2>3, <1>6, <1>7
    <3>. QED  BY <3>1, <3>2 DEF Flight
  <2>4. CASE ~(i <= Len(c.wire))
    <3>1. i - Len(c.wire) \in 1..k
      BY <2>2, <2>4, <1>2, <1>8
    <3>2. c.total_bytes_sent + (i - Len(c.wire)) - 1 = c.total_bytes_received + i - 1
      <4>1. c.total_bytes_sent \in Int /\ c.total_bytes_received \in Int
        BY <1>1, SizeIsNat
      <4>2. \A a, b, l, x \in Int : l = a - b => a + (x - l) - 1 = b + x - 1
        OBVIOUS
      <4>3. Len(c.wire) \in Int /\ i \in Int
        BY <1>8, <2>2
      <4>. QED  BY <4>1, <4>2, <4>3, <1>8
    <3>3. n.wire[i] = sent[i - Len(c.wire)]
      BY <2>4, <1>6, <1>7
    <3>. QED  BY <3>1, <3>2, <3>3, <1>5
  <2>. QED  BY <2>3, <2>4
<1>11. Flight(n)
  BY <1>7, <1>9, <1>10 DEF Flight
<1>. QED  BY <1>2, <1>7, <1>11 DEF TransferInv, n

\* A recvfrom has bytes to read only of an object that is under way.
LEMMA ReadableOnlyInFlight ==
  ASSUME NEW c, TransferInv(c), NEW k \in Readable(c)
  PROVE  /\ Flight(c) /\ k \in Nat /\ k > 0 /\ k <= Len(c.wire)
         /\ c.total_bytes_received + k <= Size
<1>. DEFINE left == Remaining(c.total_bytes_received)
            m == Min({Len(c.wire), left})
<1>1. /\ c.wire \in Seq(Byte) /\ Len(c.wire) \in Nat
      /\ c.total_bytes_received \in 0..Size /\ left \in Int
      /\ left = Size - c.total_bytes_received
  BY SizeIsNat DEF TransferInv, Transfer, Remaining
<1>. HIDE DEF left
<1>2. m \in {Len(c.wire), left} /\ m <= Len(c.wire) /\ m <= left
  <2>1. \E x \in {Len(c.wire), left} : \A y \in {Len(c.wire), left} : x <= y
    <3>1. CASE Len(c.wire) <= left
      BY <3>1, <1>1
    <3>2. CASE left <= Len(c.wire)
      BY <3>2, <1>1
    <3>. QED  BY <3>1, <3>2, <1>1
  <2>. QED  BY <2>1 DEF Min
<1>3. k \in 1..m
  BY DEF Readable, left
<1>. HIDE DEF m
<1>4. k \in Nat /\ k > 0 /\ k <= Len(c.wire) /\ k <= left
  BY <1>1, <1>2, <1>3
<1>5. Flight(c)
  BY <1>1, <1>4 DEF TransferInv, Done
<1>6. c.total_bytes_received + k <= Size
  BY <1>1, <1>4, SizeIsNat
<1>. QED  BY <1>4, <1>5, <1>6

\* One recvfrom takes the next bytes of the object; what it puts in the buffer
\* is in its place, as Offset is 0 at first and behind the array afterwards.
LEMMA ReceiveFromEffect ==
  ASSUME NEW c, TransferInv(c), NEW k \in Readable(c), NEW n, n = ReceiveFrom(c, k)
  PROVE  /\ n \in Transfer /\ n.object = c.object /\ n.returned = c.returned
         /\ n.total_bytes_sent = c.total_bytes_sent
         /\ n.total_bytes_received = c.total_bytes_received + k
         /\ \A j \in 0..(Size - 1) : InPlace(n.object_buffer, n.object, j)
         /\ Len(n.wire) = n.total_bytes_sent - n.total_bytes_received
         /\ \A i \in DOMAIN n.wire :
              n.wire[i] = <<n.object, n.total_bytes_received + i - 1>>
<1>1. /\ Flight(c) /\ k \in Nat /\ k > 0 /\ k <= Len(c.wire)
      /\ c.total_bytes_received + k <= Size
  BY ReadableOnlyInFlight
<1>2. /\ c \in Transfer /\ c.object \in 0..MaxObjects /\ c.wire \in Seq(Byte)
      /\ Len(c.wire) \in Nat /\ c.object_buffer \in Buffer
      /\ c.total_bytes_sent \in 0..Size /\ c.total_bytes_received \in 0..Size
  BY DEF TransferInv, Transfer
<1>3. /\ c.total_bytes_sent \in Int /\ c.total_bytes_received \in Int
      /\ c.total_bytes_received >= 0
  BY <1>2, SizeIsNat
<1>. DEFINE rest == SubSeq(c.wire, k + 1, Len(c.wire))
            got == c.total_bytes_received + k
            buffer == [i \in DOMAIN c.object_buffer |->
                        IF i - Offset(c) \in 0..(k - 1) THEN c.wire[i - Offset(c) + 1]
                        ELSE c.object_buffer[i]]
<1>4. n = [c EXCEPT !.wire = rest, !.total_bytes_received = got,
                    !.object_buffer = buffer]
  BY DEF ReceiveFrom
<1>5. got \in 0..Size
  BY <1>1, <1>3, SizeIsNat
<1>6. /\ rest \in Seq(Byte) /\ Len(rest) = Len(c.wire) - k
      /\ \A i \in 1..(Len(c.wire) - k) : rest[i] = c.wire[i + k]
  <2>1. \A i \in 1..Len(c.wire) : c.wire[i] \in Byte
    BY <1>2, ElementOfSeq
  <2>2. \A i \in (k + 1)..Len(c.wire) : c.wire[i] \in Byte
    BY <1>1, <1>2, <2>1
  <2>3. k + 1 \in 1..(Len(c.wire) + 1) /\ Len(c.wire) \in k..Len(c.wire)
    BY <1>1, <1>2
  <2>4. /\ rest \in Seq(Byte)
        /\ Len(rest) = IF k + 1 <= Len(c.wire) THEN Len(c.wire) - (k + 1) + 1 ELSE 0
        /\ \A i \in 1..(Len(c.wire) - (k + 1) + 1) : rest[i] = c.wire[k + 1 + i - 1]
    BY <1>1, <1>2, <2>2, <2>3, SubSeqProperties
  <2>. HIDE DEF rest
  <2>. QED  BY <1>1, <1>2, <2>4
<1>7. buffer \in Buffer /\ \A j \in 0..(Size - 1) : InPlace(buffer, c.object, j)
  <2>1. DOMAIN c.object_buffer = 0..(Size - 1)
    BY <1>2 DEF Buffer
  <2>2. CASE c.total_bytes_received = 0
    <3>1. Offset(c) = 0
      BY <2>2, SizeIsNat DEF Offset
    <3>2. /\ c.object_buffer = Uninitialized
          /\ \A j \in 0..(Size - 1) : c.object_buffer[j] = <<0, 0>>
      BY <2>2, <1>1, UninitializedType DEF Flight
    <3>3. ASSUME NEW j \in 0..(Size - 1)
          PROVE  buffer[j] \in Byte /\ InPlace(buffer, c.object, j)
      <4>1. j \in Int /\ j >= 0 /\ j - Offset(c) = j /\ j - Offset(c) + 1 = j + 1
        BY <3>1, SizeIsNat
      <4>2. buffer[j] = IF j \in 0..(k - 1) THEN c.wire[j + 1] ELSE <<0, 0>>
        BY <2>1, <3>2, <4>1
      <4>3. CASE j \in 0..(k - 1)
        <5>1. j + 1 \in DOMAIN c.wire /\ j + 1 \in 1..Len(c.wire)
          BY <4>3, <1>1, <1>2
        <5>2. c.wire[j + 1] = <<c.object, c.total_bytes_received + (j + 1) - 1>>
          BY <5>1, <1>1 DEF Flight
        <5>3. c.wire[j + 1] \in Byte
          BY <5>1, <1>2, ElementOfSeq
        <5>4. c.total_bytes_received + (j + 1) - 1 = j
          BY <2>2, <4>1
        <5>. QED  BY <4>2, <4>3, <5>2, <5>3, <5>4 DEF InPlace
      <4>4. CASE j \notin 0..(k - 1)
        <5>1. j # 0
          BY <4>4, <1>1
        <5>2. <<0, 0>> \in Byte
          BY DEF Byte
        <5>. QED  BY <4>2, <4>4, <5>1, <5>2 DEF InPlace
      <4>. QED  BY <4>3, <4>4
    <3>. HIDE DEF buffer
    <3>4. buffer = [j \in 0..(Size - 1) |-> buffer[j]]
      BY <2>1 DEF buffer
    <3>. QED  BY <3>3, <3>4 DEF Buffer
  <2>3. CASE c.total_bytes_received # 0
    <3>1. \A j \in 0..(Size - 1) : j - Offset(c) \notin 0..(k - 1)
      <4>1. c.total_bytes_received >= 1
        BY <2>3, <1>3
      <4>2. \A s, m \in Nat : m >= 1 => s * m >= s
        OBVIOUS
      <4>3. Offset(c) \in Int /\ Offset(c) >= Size
        BY <4>1, <4>2, <1>3, SizeIsNat DEF Offset
      <4>. QED  BY <4>3, SizeIsNat
    <3>2. buffer = c.object_buffer
      BY <2>1, <3>1, <1>2 DEF Buffer
    <3>. QED  BY <2>3, <3>2, <1>1, <1>2 DEF Flight
  <2>. QED  BY <2>2, <2>3
<1>. HIDE DEF rest, got, buffer
<1>8. /\ n \in Transfer /\ n.object = c.object /\ n.returned = c.returned
      /\ n.total_bytes_sent = c.total_bytes_sent /\ n.total_bytes_received = got
      /\ n.wire = rest /\ n.object_buffer = buffer
  BY <1>2, <1>4, <1>5, <1>6, <1>7 DEF Transfer
<1>9. Len(c.wire) = c.total_bytes_sent - c.total_bytes_received
  BY <1>1 DEF Flight
<1>10. Len(n.wire) = n.total_bytes_sent - n.total_bytes_received
  BY <1>1, <1>3, <1>6, <1>8, <1>9 DEF got
<1>11. ASSUME NEW i \in DOMAIN n.wire
       PROVE  n.wire[i] = <<n.object, n.total_bytes_received + i - 1>>
  <2>1. i \in 1..(Len(c.wire) - k) /\ i \in Int
    BY <1>6, <1>8
  <2>2. n.wire[i] = c.wire[i + k] /\ i + k \in DOMAIN c.wire
    BY <2>1, <1>1, <1>2, <1>6, <1>8
  <2>3. c.wire[i + k] = <<c.object, c.total_bytes_received + (i + k) - 1>>
    BY <2>2, <1>1 DEF Flight
  <2>4. c.total_bytes_received + (i + k) - 1 = got + i - 1
    BY <2>1, <1>1, <1>3 DEF got
  <2>. QED  BY <2>2, <2>3, <2>4, <1>8
<1>. QED  BY <1>7, <1>8, <1>10, <1>11 DEF got

\* A recvfrom in the middle of an object leaves it under way.
LEMMA PartReceived ==
  ASSUME NEW c, TransferInv(c), NEW k \in Readable(c), NEW n, n = ReceiveFrom(c, k),
         n.total_bytes_received # Size
  PROVE  TransferInv(n) /\ Flight(n)
<1>1. Flight(c) /\ k \in Nat /\ k > 0 /\ c.total_bytes_received + k <= Size
  BY ReadableOnlyInFlight
<1>2. /\ n \in Transfer /\ n.object = c.object /\ n.returned = c.returned
      /\ n.total_bytes_received = c.total_bytes_received + k
      /\ \A j \in 0..(Size - 1) : InPlace(n.object_buffer, n.object, j)
      /\ Len(n.wire) = n.total_bytes_sent - n.total_bytes_received
      /\ \A i \in DOMAIN n.wire :
           n.wire[i] = <<n.object, n.total_bytes_received + i - 1>>
  BY ReceiveFromEffect
<1>3. c.total_bytes_received \in Nat
  BY SizeIsNat DEF TransferInv, Transfer
<1>4. n.total_bytes_received < Size /\ n.total_bytes_received # 0
  BY <1>1, <1>2, <1>3, SizeIsNat
<1>5. Flight(n)
  BY <1>1, <1>2, <1>4 DEF Flight
<1>. QED  BY <1>2, <1>5 DEF TransferInv

\* The last recvfrom of an object returns it, and nothing is left.
LEMMA WholeReceived ==
  ASSUME NEW c, TransferInv(c), NEW k \in Readable(c), NEW n, n = ReceiveFrom(c, k),
         n.total_bytes_received = Size
  PROVE  /\ TransferInv(Return(n)) /\ Done(Return(n))
         /\ Return(n).object = c.object
         /\ c.total_bytes_sent = Size
<1>. DEFINE b == n.object_buffer
            got == Append(n.returned, b)
            a == [n EXCEPT !.returned = got]
            r == [a EXCEPT !.total_bytes_received = 0, !.object_buffer = Uninitialized]
<1>1. Flight(c) /\ c.object \in 0..MaxObjects /\ c.total_bytes_sent \in 0..Size
  BY ReadableOnlyInFlight DEF TransferInv, Transfer
<1>2. /\ n \in Transfer /\ n.object = c.object /\ n.returned = c.returned
      /\ n.total_bytes_sent = c.total_bytes_sent
      /\ \A j \in 0..(Size - 1) : InPlace(n.object_buffer, n.object, j)
      /\ Len(n.wire) = n.total_bytes_sent - n.total_bytes_received
  BY ReceiveFromEffect
<1>3. /\ n.returned \in Seq(Buffer) /\ b \in Buffer /\ n.wire \in Seq(Byte)
      /\ Len(n.returned) \in Nat /\ Len(n.wire) \in Nat
  BY <1>2 DEF Transfer
<1>4. c.total_bytes_sent = Size /\ Len(n.wire) = 0
  BY <1>1, <1>2, <1>3, SizeIsNat
<1>5. n.wire = <<>>
  BY <1>3, <1>4, EmptySeq
<1>6. Len(n.returned) + 1 = n.object
  BY <1>1, <1>2 DEF Flight
<1>7. /\ got \in Seq(Buffer) /\ Len(got) = n.object
      /\ \A i \in 1..Len(n.returned) : got[i] = n.returned[i]
      /\ got[n.object] = b
  BY <1>3, <1>6, AppendProperties
<1>. HIDE DEF b, got
<1>8. /\ a \in Transfer /\ a.object = n.object /\ a.wire = n.wire /\ a.returned = got
      /\ a.total_bytes_sent = n.total_bytes_sent
  BY <1>2, <1>7 DEF Transfer
<1>9. a = [n EXCEPT !.returned = Append(n.returned, n.object_buffer)]
  BY DEF got, b
<1>. HIDE DEF a
<1>10. /\ r \in Transfer /\ r.object = n.object /\ r.wire = <<>> /\ r.returned = got
       /\ r.total_bytes_received = 0 /\ r.object_buffer = Uninitialized
  <2>1. 0 \in 0..Size /\ Uninitialized \in Buffer
    BY SizeIsNat, UninitializedType
  <2>. QED  BY <2>1, <1>5, <1>8 DEF Transfer
<1>11. r = Return(n)
  BY <1>9 DEF Return, NewBuffer
<1>. HIDE DEF r
<1>12. Done(r)
  BY <1>7, <1>10 DEF Done
<1>13. ASSUME NEW i \in DOMAIN r.returned, NEW j \in 0..(Size - 1)
       PROVE  InPlace(r.returned[i], i, j)
  <2>1. i \in 1..n.object /\ n.object \in Int
    BY <1>1, <1>2, <1>7, <1>10
  <2>2. CASE i = n.object
    BY <2>2, <1>2, <1>7, <1>10 DEF b
  <2>3. CASE i # n.object
    <3>1. i \in 1..Len(n.returned) /\ i \in DOMAIN c.returned
      BY <2>1, <2>3, <1>2, <1>3, <1>6
    <3>. QED  BY <3>1, <1>2, <1>7, <1>10 DEF TransferInv
  <2>. QED  BY <2>2, <2>3
<1>14. TransferInv(r)
  BY <1>10, <1>12, <1>13 DEF TransferInv
<1>. QED  BY <1>2, <1>4, <1>10, <1>11, <1>12, <1>14

\* Before the first byte of an object is read a new buffer is the one before.
LEMMA NewBufferEffect ==
  ASSUME NEW c, TransferInv(c), c.total_bytes_received = 0
  PROVE  NewBuffer(c) = c
<1>1. c \in Transfer /\ c.object_buffer = Uninitialized
  BY DEF TransferInv, Done, Flight
<1>. QED  BY <1>1 DEF NewBuffer, Transfer

-----------------------------------------------------------------------------
(* The stronger invariant is inductive.                                    *)

\* An object is under way or not, and bytes on the wire belong to one that is.
LEMMA UnderWay ==
  ASSUME NEW c, TransferInv(c)
  PROVE  /\ c \in Transfer /\ (Flight(c) <=> ~Done(c))
         /\ c.wire # <<>> => Flight(c)
         /\ Done(c) => c.total_bytes_received = 0
BY DoneOrFlight DEF TransferInv, Done

\* A transfer in one direction leaves the other alone.
LEMMA ChannelStep ==
  ASSUME OthersType, NEW c \in Transfer
  PROVE  /\ channel' = [channel EXCEPT !.task = c] =>
              /\ channel' \in [{"task", "response"} -> Transfer]
              /\ channel'.task = c /\ channel'.response = channel.response
         /\ channel' = [channel EXCEPT !.response = c] =>
              /\ channel' \in [{"task", "response"} -> Transfer]
              /\ channel'.response = c /\ channel'.task = channel.task
BY DEF OthersType

\* ProcessBadSocket leaves an Event that nobody uses again, or a closed one.
LEMMA BadSocketInv ==
  ASSUME NEW e \in Event, Kept(e), NEW held, ProcessBadSocket(e, held),
         held \subseteq {"ready_sockets_", "task_of_socket_"},
         e.count = 0 => e.is_closed_,
         "ready_sockets_" \in held => e.is_closed_ /\ Quiet'
  PROVE  /\ holders' \subseteq {"ready_sockets_", "task_of_socket_"}
         /\ master' \in {"polling", "ended"}
         /\ MasterInv' /\ StaleInv'
<1>1. /\ event'.count = 0 /\ event'.is_closed_ = e.is_closed_
      /\ event'.failed => e.count = 0
  BY ForgetKeeps DEF ProcessBadSocket
<1>2. /\ holders' = held \ {"task_of_socket_"} /\ master' \in {"polling", "ended"}
  BY DEF ProcessBadSocket, GoesOn
<1>3. MasterInv'
  BY <1>1, <1>2 DEF MasterInv
<1>4. StaleInv'
  BY <1>1, <1>2 DEF StaleInv
<1>. QED  BY <1>2, <1>3, <1>4

\* ProcessSocketWithTask, for an idle connection.
LEMMA SocketWithTaskInv ==
  ASSUME ConnectionInv, NEW e \in Event, Kept(e), ProcessSocketWithTask(e), Quiet,
         e.count = 0 => e.is_closed_, e.count # 0 => e.type_ = "Receive"
  PROVE  OthersType' /\ ChannelInv' /\ WorkerInv' /\ MasterInv' /\ StaleInv'
<1>. DEFINE held == (holders \ {"ready_sockets_"}) \cup {"task_of_socket_"}
            n == NewObject(channel.task)
<1>1. worker' = worker /\ channel.task.object < MaxObjects
  BY DEF ProcessSocketWithTask
<1>2. held \subseteq {"ready_sockets_", "task_of_socket_"} /\ "ready_sockets_" \notin held
  BY DEF ConnectionInv, OthersType
<1>3. CASE /\ event' = e /\ holders' = held /\ GoesOn("sending")
           /\ channel' = [channel EXCEPT !.task = n]
  <2>1. /\ TransferInv(n) /\ Flight(n) /\ n.object = channel.task.object + 1
        /\ n.total_bytes_sent = 0
    BY <1>1, NewObjectEffect DEF ConnectionInv, ChannelInv, Quiet
  <2>. HIDE DEF n, held
  <2>2. /\ channel' \in [{"task", "response"} -> Transfer]
        /\ channel'.task = n /\ channel'.response = channel.response
    BY <1>3, <2>1, UnderWay, ChannelStep DEF ConnectionInv
  <2>3. master' \in {"sending", "ended"} /\ (event'.failed => event'.count = 0)
    BY <1>3 DEF GoesOn, Kept
  <2>4. OthersType'
    BY <1>1, <1>2, <1>3, <2>2, <2>3 DEF ConnectionInv, OthersType
  <2>5. ChannelInv'
    BY <2>1, <2>2 DEF ConnectionInv, ChannelInv
  <2>6. WorkerInv'
    <3>1. channel.response.object <= channel.task.object /\ ~Done(n)
      BY <2>1, UnderWay DEF ConnectionInv, WorkerInv
    <3>2. channel.response.object \in Int /\ channel.task.object \in Int
      BY SizeIsNat, UnderWay DEF ConnectionInv, ChannelInv, Transfer
    <3>3. channel.response.object < n.object
      BY <3>1, <3>2, <2>1
    <3>4. channel.response.object <= n.object
      BY <3>1, <3>2, <2>1
    <3>. QED  BY <1>1, <2>2, <3>3, <3>4 DEF Quiet, WorkerInv
  <2>7. MasterInv'
    BY <1>1, <1>2, <1>3, <2>1, <2>2, <2>3, SizeIsNat DEF MasterInv, Quiet
  <2>8. StaleInv'
    BY <1>3, <2>3 DEF StaleInv
  <2>. QED  BY <2>4, <2>5, <2>6, <2>7, <2>8
<1>4. CASE ProcessBadSocket(e, held) /\ channel' = channel
  <2>. HIDE DEF held
  <2>1. /\ holders' \subseteq {"ready_sockets_", "task_of_socket_"}
        /\ master' \in {"polling", "ended"} /\ MasterInv' /\ StaleInv'
    BY <1>2, <1>4, BadSocketInv
  <2>. QED  BY <1>1, <1>4, <2>1 DEF ConnectionInv, OthersType, ChannelInv, WorkerInv
<1>. QED  BY <1>3, <1>4 DEF ProcessSocketWithTask

LEMMA ConnectionInvInit == Init => ConnectionInv
<1>. SUFFICES ASSUME Init PROVE ConnectionInv
  OBVIOUS
<1>. DEFINE c == [object |-> 0, total_bytes_sent |-> 0, wire |-> <<>>,
                  total_bytes_received |-> 0, object_buffer |-> Uninitialized,
                  returned |-> <<>>]
<1>1. 0 \in 0..MaxObjects /\ 0 \in 0..Size /\ Uninitialized \in Buffer
  BY SizeIsNat, UninitializedType
<1>2. c \in Transfer
  BY <1>1 DEF Transfer
<1>3. /\ c.wire = <<>> /\ c.returned = <<>> /\ c.total_bytes_received = 0
      /\ c.object = 0 /\ c.object_buffer = Uninitialized
  OBVIOUS
<1>. HIDE DEF c
<1>4. Done(c) /\ TransferInv(c)
  BY <1>2, <1>3 DEF Done, TransferInv
<1>5. channel = [d \in {"task", "response"} |-> c]
  BY DEF Init, c
<1>6. /\ channel \in [{"task", "response"} -> Transfer]
      /\ channel.task = c /\ channel.response = c
  BY <1>2, <1>5
<1>7. OthersType /\ ChannelInv
  BY <1>4, <1>6 DEF Init, OthersType, ChannelInv
<1>8. WorkerInv
  <2>1. ~Flight(c)
    BY <1>4, UnderWay
  <2>. QED  BY <2>1, <1>3, <1>6 DEF Init, WorkerInv
<1>9. MasterInv /\ StaleInv
  BY <1>4, <1>6 DEF Init, MasterInv, StaleInv, Quiet
<1>. QED  BY <1>7, <1>8, <1>9, EventInvInit DEF ConnectionInv

\* The steps of the master between two transfers.
LEMMA ConnectionInvPolling ==
  ASSUME ConnectionInv, EventInv',
         Accept \/ SendEvent \/ ProcessNewTask \/ ReceiveEvent
           \/ ConnectionClosedEvent \/ Integrated
  PROVE  OthersType' /\ ChannelInv' /\ WorkerInv' /\ MasterInv' /\ StaleInv'
<1>0. /\ event \in Event /\ Kept(event) /\ Kept(event')
      /\ event.failed => event.count = 0
      /\ event'.failed => event'.count = 0
  BY DEF ConnectionInv, EventInv, Kept
<1>1. UNCHANGED <<worker, channel>> => ChannelInv' /\ WorkerInv' /\ Quiet' = Quiet
  BY DEF ConnectionInv, ChannelInv, WorkerInv, Quiet
<1>2. CASE Accept
  <2>1. New(event) /\ Quiet /\ holders = {}
    BY <1>2 DEF Accept, ConnectionInv, EventInv, MasterInv
  <2>2. /\ event'.count = 2 /\ master' = "polling"
        /\ UNCHANGED <<holders, worker, channel>>
    BY <1>2, <1>0, <2>1, AddedTwice DEF Accept
  <2>3. channel.response.total_bytes_received = 0
    BY <2>1 DEF Quiet, Done
  <2>4. MasterInv'
    BY <1>1, <2>1, <2>2, <2>3 DEF MasterInv
  <2>5. StaleInv'
    BY <1>0, <2>2 DEF StaleInv
  <2>. QED  BY <1>1, <2>2, <2>4, <2>5 DEF ConnectionInv, OthersType
<1>3. CASE SendEvent
  <2>. DEFINE e == Turn(event, "Receive")
  <2>1. event.count # 0 /\ FilterOf(event) = "EVFILT_WRITE" /\ master = "polling"
    BY <1>0, <1>3 DEF SendEvent, Polls, Kept, Filter
  <2>2. Quiet
    BY <2>1, <1>0 DEF FilterOf, ConnectionInv, MasterInv
  <2>3. e \in Event /\ Kept(e) /\ e.count = 2 /\ e.type_ = "Receive" /\ ~e.failed
    BY <1>0, <2>1, TurnKeeps
  <2>4. CASE ProcessSocketWithTask(e)
    <3>. HIDE DEF e
    <3>. QED  BY <2>2, <2>3, <2>4, SocketWithTaskInv
  <2>5. CASE /\ event' = e /\ holders' = holders \cup {"ready_sockets_"}
             /\ GoesOn("polling") /\ UNCHANGED <<worker, channel>>
    <3>. HIDE DEF e
    <3>1. master' = "polling"
      BY <2>3, <2>5 DEF GoesOn
    <3>2. channel.response.total_bytes_received = 0
      BY <2>2 DEF Quiet, Done
    <3>3. MasterInv'
      BY <1>1, <2>2, <2>3, <2>5, <3>1, <3>2 DEF MasterInv
    <3>4. StaleInv'
      BY <2>3, <2>5 DEF StaleInv
    <3>5. OthersType'
      BY <2>5, <3>1 DEF ConnectionInv, OthersType
    <3>. QED  BY <1>1, <2>5, <3>3, <3>4, <3>5
  <2>. QED  BY <1>3, <2>4, <2>5 DEF SendEvent
<1>4. CASE ProcessNewTask
  <2>1. /\ Quiet
        /\ event.count = 0 => event.is_closed_
        /\ event.count # 0 => event.type_ = "Receive"
    BY <1>4 DEF ProcessNewTask, ConnectionInv, MasterInv, StaleInv
  <2>. QED  BY <1>0, <1>4, <2>1, SocketWithTaskInv DEF ProcessNewTask
<1>5. CASE ReceiveEvent
  <2>1. event.count # 0 /\ master = "polling" /\ channel.response.wire # <<>>
    <3>1. Polls("EVFILT_READ") /\ channel.response.wire # <<>>
      BY <1>5 DEF ReceiveEvent
    <3>2. "EVFILT_READ" \in Filter
      BY DEF Filter
    <3>3. event.count # 0
      BY <3>1, <3>2, <1>0, PolledIsIn
    <3>. QED  BY <3>1, <3>3 DEF Polls
  <2>2. /\ event' = Turn(event, "Send") /\ event'.count = 2 /\ ~event'.failed
        /\ event'.type_ = "Send" /\ master' = "receiving"
    BY <1>0, <1>5, <2>1, TurnKeeps DEF ReceiveEvent, GoesOn
  <2>3. Flight(channel.response) /\ ~Done(channel.response)
    BY <2>1, UnderWay DEF ConnectionInv, ChannelInv
  <2>4. "ready_sockets_" \notin holders
    BY <2>3 DEF ConnectionInv, MasterInv, Quiet
  <2>5. NewBuffer(channel.response) = channel.response
    BY <2>1, NewBufferEffect DEF ConnectionInv, ChannelInv, MasterInv
  <2>6. UNCHANGED <<holders, worker, channel>>
    BY <1>5, <2>5 DEF ReceiveEvent, ConnectionInv, OthersType
  <2>7. MasterInv'
    BY <2>2, <2>3, <2>4, <2>6 DEF MasterInv
  <2>8. StaleInv'
    BY <2>2 DEF StaleInv
  <2>. QED  BY <1>1, <2>2, <2>6, <2>7, <2>8 DEF ConnectionInv, OthersType
<1>6. CASE ConnectionClosedEvent
  <2>. DEFINE closed == [event EXCEPT !.is_closed_ = TRUE]
  <2>1. closed \in Event /\ Kept(closed) /\ closed.is_closed_
    BY <1>0 DEF Event, Kept, FilterOf
  <2>. HIDE DEF closed
  <2>2. ProcessBadSocket(closed, holders) /\ UNCHANGED <<worker, channel>>
    BY <1>6 DEF ConnectionClosedEvent, closed
  <2>3. "ready_sockets_" \in holders => Quiet'
    BY <1>1, <2>2 DEF ConnectionInv, MasterInv
  <2>4. /\ holders' \subseteq {"ready_sockets_", "task_of_socket_"}
        /\ master' \in {"polling", "ended"} /\ MasterInv' /\ StaleInv'
    BY <2>1, <2>2, <2>3, BadSocketInv DEF ConnectionInv, OthersType
  <2>. QED  BY <1>1, <2>2, <2>4 DEF ConnectionInv, OthersType
<1>7. CASE Integrated
  <2>1. master' = "ended" /\ UNCHANGED <<event, holders, worker, channel>>
    BY <1>7 DEF Integrated
  <2>2. MasterInv' /\ StaleInv'
    BY <1>1, <2>1 DEF ConnectionInv, MasterInv, StaleInv
  <2>. QED  BY <1>1, <2>1, <2>2 DEF ConnectionInv, OthersType
<1>. QED  BY <1>2, <1>3, <1>4, <1>5, <1>6, <1>7

\* The master's transfers.
LEMMA ConnectionInvMaster ==
  ASSUME ConnectionInv, EventInv', MasterSends \/ MasterReceives
  PROVE  OthersType' /\ ChannelInv' /\ WorkerInv' /\ MasterInv' /\ StaleInv'
<1>0. /\ event \in Event /\ Kept(event)
      /\ TransferInv(channel.task) /\ TransferInv(channel.response)
      /\ worker' = worker
      /\ holders \subseteq {"ready_sockets_", "task_of_socket_"}
  BY DEF ConnectionInv, EventInv, ChannelInv, OthersType, MasterSends, MasterReceives
<1>2. UNCHANGED channel => ChannelInv' /\ WorkerInv'
  BY <1>0 DEF ConnectionInv, ChannelInv, WorkerInv
\* Not even an error finds the connection among those that wait for a task.
<1>3. master \in {"sending", "receiving"} /\ ProcessBadSocket(event, holders) =>
        /\ holders' \subseteq {"ready_sockets_", "task_of_socket_"}
        /\ master' \in {"polling", "ended"} /\ MasterInv' /\ StaleInv'
  <2>. SUFFICES ASSUME master \in {"sending", "receiving"},
                       ProcessBadSocket(event, holders)
                PROVE  /\ holders' \subseteq {"ready_sockets_", "task_of_socket_"}
                       /\ master' \in {"polling", "ended"} /\ MasterInv' /\ StaleInv'
    OBVIOUS
  <2>1. "ready_sockets_" \notin holders
    BY DEF ConnectionInv, MasterInv
  <2>2. event.count = 0 => event.is_closed_
    BY DEF ConnectionInv, MasterInv, StaleInv
  <2>. QED  BY <1>0, <2>1, <2>2, BadSocketInv
<1>4. CASE MasterSends
  <2>1. /\ master = "sending" /\ Flight(channel.task) /\ Done(channel.response)
        /\ worker \in {"receiving", "closed", "reset"} /\ "ready_sockets_" \notin holders
        /\ event.count # 0 => event.type_ = "Receive"
    BY <1>4 DEF MasterSends, ConnectionInv, MasterInv, WorkerInv
  <2>2. ASSUME NEW k \in 1..Remaining(channel.task.total_bytes_sent),
               channel' = [channel EXCEPT !.task = SendTo(@, k)],
               master' = IF channel'.task.total_bytes_sent = Size
                         THEN "polling" ELSE "sending",
               UNCHANGED <<event, holders, worker>>
        PROVE  OthersType' /\ ChannelInv' /\ WorkerInv' /\ MasterInv' /\ StaleInv'
    <3>. DEFINE n == SendTo(channel.task, k)
    <3>1. /\ TransferInv(n) /\ Flight(n) /\ n.object = channel.task.object
          /\ n.total_bytes_sent \in 0..Size
      BY <1>0, <2>1, SendToEffect
    <3>. HIDE DEF n
    <3>2. channel' = [channel EXCEPT !.task = n]
      BY <2>2 DEF n
    <3>3. /\ channel' \in [{"task", "response"} -> Transfer]
          /\ channel'.task = n /\ channel'.response = channel.response
      BY <3>1, <3>2, UnderWay, ChannelStep DEF ConnectionInv
    <3>4. OthersType' /\ ChannelInv'
      BY <2>2, <3>1, <3>3 DEF ConnectionInv, OthersType, ChannelInv
    <3>5. WorkerInv'
      BY <2>1, <2>2, <3>1, <3>3 DEF ConnectionInv, WorkerInv
    <3>6. n.total_bytes_sent # Size => n.total_bytes_sent < Size
      BY <3>1, SizeIsNat
    <3>7. channel.response.total_bytes_received = 0
      BY <2>1 DEF Done
    <3>8. MasterInv'
      BY <2>1, <2>2, <3>1, <3>3, <3>6, <3>7 DEF MasterInv
    <3>9. StaleInv'
      BY <2>1, <2>2 DEF ConnectionInv, StaleInv
    <3>. QED  BY <3>4, <3>5, <3>8, <3>9
  <2>3. CASE ProcessBadSocket(event, holders) /\ UNCHANGED channel
    BY <1>0, <1>2, <1>3, <2>1, <2>3 DEF ConnectionInv, OthersType
  <2>4. CASE master' = "ended" /\ UNCHANGED <<event, holders, channel>>
    <3>1. MasterInv'
      BY <2>1, <2>4 DEF MasterInv
    <3>2. StaleInv'
      BY <2>1, <2>4 DEF ConnectionInv, StaleInv
    <3>. QED  BY <1>0, <1>2, <2>4, <3>1, <3>2 DEF ConnectionInv, OthersType
  <2>. QED  BY <1>4, <2>2, <2>3, <2>4 DEF MasterSends
<1>5. CASE MasterReceives
  <2>1. /\ master = "receiving" /\ Flight(channel.response) /\ ~Done(channel.response)
        /\ event.count # 0 /\ event.type_ = "Send" /\ "ready_sockets_" \notin holders
    BY <1>0, <1>5, UnderWay DEF MasterReceives, ConnectionInv, MasterInv
  <2>2. Done(channel.task) /\ ~Flight(channel.task) /\ worker # "computing"
    BY <1>0, <2>1, UnderWay DEF ConnectionInv, WorkerInv
  <2>3. ASSUME NEW k \in Readable(channel.response),
               channel' = [channel EXCEPT !.response = ReceiveFrom(@, k)],
               channel'.response.total_bytes_received # Size,
               UNCHANGED <<event, holders, master>>
        PROVE  OthersType' /\ ChannelInv' /\ WorkerInv' /\ MasterInv' /\ StaleInv'
    <3>. DEFINE n == ReceiveFrom(channel.response, k)
    <3>1. channel' = [channel EXCEPT !.response = n] /\ n \in Transfer
      BY <1>0, <2>3, ReceiveFromEffect
    <3>2. /\ n.object = channel.response.object
          /\ n.total_bytes_sent = channel.response.total_bytes_sent
      BY <1>0, ReceiveFromEffect
    <3>3. /\ channel' \in [{"task", "response"} -> Transfer]
          /\ channel'.response = n /\ channel'.task = channel.task
      BY <3>1, ChannelStep DEF ConnectionInv
    <3>4. TransferInv(n) /\ Flight(n)
      BY <1>0, <2>3, <3>3, PartReceived
    <3>. HIDE DEF n
    <3>5. OthersType' /\ ChannelInv'
      BY <1>0, <2>3, <3>3, <3>4 DEF ConnectionInv, OthersType, ChannelInv
    <3>6. WorkerInv'
      BY <1>0, <2>2, <3>2, <3>3, <3>4 DEF ConnectionInv, WorkerInv
    <3>7. MasterInv'
      BY <2>1, <2>3, <3>4, <3>3 DEF MasterInv
    <3>8. StaleInv'
      BY <2>1, <2>3 DEF ConnectionInv, StaleInv
    <3>. QED  BY <3>5, <3>6, <3>7, <3>8
  <2>4. ASSUME NEW k \in Readable(channel.response), NEW n,
               n = ReceiveFrom(channel.response, k), n.total_bytes_received = Size,
               channel' = [channel EXCEPT !.response = Return(n)],
               \/ master' = "polling" /\ UNCHANGED <<event, holders>>
               \/ ProcessBadSocket(event, holders)
        PROVE  OthersType' /\ ChannelInv' /\ WorkerInv' /\ MasterInv' /\ StaleInv'
    <3>1. /\ TransferInv(Return(n)) /\ Done(Return(n))
          /\ Return(n).object = channel.response.object
          /\ channel.response.total_bytes_sent = Size
      BY <1>0, <2>4, WholeReceived
    <3>2. /\ channel' \in [{"task", "response"} -> Transfer]
          /\ channel'.response = Return(n) /\ channel'.task = channel.task
      BY <2>4, <3>1, UnderWay, ChannelStep DEF ConnectionInv
    <3>3. worker \in {"receiving", "closed", "reset"}
      <4>1. ~(channel.response.total_bytes_sent < Size)
        BY <3>1, SizeIsNat
      <4>. QED  BY <4>1, <2>2 DEF ConnectionInv, OthersType, WorkerInv
    <3>4. ChannelInv'
      BY <1>0, <3>1, <3>2 DEF ChannelInv
    <3>5. WorkerInv'
      BY <1>0, <2>2, <3>1, <3>2, <3>3 DEF ConnectionInv, WorkerInv
    <3>6. CASE master' = "polling" /\ UNCHANGED <<event, holders>>
      <4>1. Quiet'
        BY <1>0, <2>2, <3>1, <3>2, <3>3 DEF Quiet
      <4>2. Return(n).total_bytes_received = 0
        BY <3>1 DEF Done
      <4>3. MasterInv'
        BY <2>1, <3>2, <3>6, <4>1, <4>2 DEF MasterInv
      <4>4. StaleInv'
        BY <2>1, <3>6 DEF ConnectionInv, StaleInv
      <4>. QED  BY <1>0, <3>2, <3>4, <3>5, <3>6, <4>3, <4>4 DEF ConnectionInv, OthersType
    <3>7. CASE ProcessBadSocket(event, holders)
      BY <1>0, <1>3, <2>1, <3>2, <3>4, <3>5, <3>7 DEF ConnectionInv, OthersType
    <3>. QED  BY <2>4, <3>6, <3>7
  <2>5. CASE ProcessBadSocket(event, holders) /\ UNCHANGED channel
    BY <1>0, <1>2, <1>3, <2>1, <2>5 DEF ConnectionInv, OthersType
  <2>6. CASE master' = "ended" /\ UNCHANGED <<event, holders, channel>>
    <3>1. MasterInv'
      BY <2>1, <2>6 DEF MasterInv
    <3>2. StaleInv'
      BY <2>1, <2>6 DEF ConnectionInv, StaleInv
    <3>. QED  BY <1>0, <1>2, <2>6, <3>1, <3>2 DEF ConnectionInv, OthersType
  <2>. QED  BY <1>5, <2>3, <2>4, <2>5, <2>6 DEF MasterReceives, ReceiveFails
<1>. QED  BY <1>4, <1>5

\* The worker's steps.
LEMMA ConnectionInvWorker ==
  ASSUME ConnectionInv, EventInv',
         WorkerReceives \/ WorkerAnswers \/ WorkerSends \/ WorkerCloses
  PROVE  OthersType' /\ ChannelInv' /\ WorkerInv' /\ MasterInv' /\ StaleInv'
<1>. DEFINE t == channel.task
            r == channel.response
<1>0. /\ TransferInv(t) /\ TransferInv(r)
      /\ UNCHANGED <<event, holders, master>>
  BY DEF ConnectionInv, ChannelInv, WorkerReceives, WorkerAnswers, WorkerSends,
         WorkerCloses
<1>. HIDE DEF t, r
<1>1. /\ t.object \in 0..MaxObjects /\ r.object \in 0..MaxObjects
      /\ t.object \in Int /\ r.object \in Int
  <2>1. t.object \in 0..MaxObjects /\ r.object \in 0..MaxObjects
    BY <1>0 DEF TransferInv, Transfer
  <2>. QED  BY <2>1, SizeIsNat
<1>2. StaleInv'
  BY <1>0 DEF ConnectionInv, StaleInv
<1>3. CASE WorkerReceives
  <2>. PICK k \in Readable(t) :
         LET c == ReceiveFrom(t, k)
             whole == c.total_bytes_received = Size
         IN /\ channel' = [channel EXCEPT !.task = IF whole THEN Return(c) ELSE c]
            /\ worker' = IF whole THEN "computing" ELSE "receiving"
    BY <1>3 DEF WorkerReceives, t
  <2>. DEFINE n == ReceiveFrom(t, k)
  <2>1. /\ Flight(t) /\ ~Done(t) /\ Done(r) /\ ~Flight(r) /\ r.object < t.object
        /\ worker = "receiving"
    BY <1>0, <1>3, ReadableOnlyInFlight, UnderWay
    DEF ConnectionInv, WorkerInv, WorkerReceives, t, r
  <2>2. /\ "ready_sockets_" \notin holders /\ master \notin {"listening", "receiving"}
        /\ ~(master = "polling" /\ event.count # 0 /\ event.type_ = "Send")
    BY <2>1 DEF ConnectionInv, MasterInv, Quiet, t, r
  <2>3. /\ n \in Transfer /\ n.object = t.object
        /\ n.total_bytes_sent = t.total_bytes_sent
    BY <1>0, ReceiveFromEffect
  <2>4. CASE n.total_bytes_received # Size
    <3>1. TransferInv(n) /\ Flight(n)
      BY <1>0, <2>4, PartReceived
    <3>2. channel' = [channel EXCEPT !.task = n] /\ worker' = "receiving"
      BY <2>4
    <3>. HIDE DEF n
    <3>3. /\ channel' \in [{"task", "response"} -> Transfer]
          /\ channel'.task = n /\ channel'.response = r
      BY <3>1, <3>2, UnderWay, ChannelStep DEF ConnectionInv, r
    <3>4. OthersType' /\ ChannelInv'
      BY <1>0, <3>1, <3>2, <3>3 DEF ConnectionInv, OthersType, ChannelInv
    <3>5. WorkerInv'
      BY <1>1, <2>1, <2>3, <3>1, <3>2, <3>3 DEF WorkerInv
    <3>6. MasterInv'
      BY <1>0, <2>2, <2>3, <3>1, <3>2, <3>3 DEF ConnectionInv, MasterInv, t, r
    <3>. QED  BY <1>2, <3>4, <3>5, <3>6
  <2>5. CASE n.total_bytes_received = Size
    <3>1. /\ TransferInv(Return(n)) /\ Done(Return(n)) /\ Return(n).object = t.object
          /\ t.total_bytes_sent = Size
      BY <1>0, <2>5, WholeReceived
    <3>2. channel' = [channel EXCEPT !.task = Return(n)] /\ worker' = "computing"
      BY <2>5
    <3>. HIDE DEF n
    <3>3. /\ channel' \in [{"task", "response"} -> Transfer]
          /\ channel'.task = Return(n) /\ channel'.response = r
      BY <3>1, <3>2, UnderWay, ChannelStep DEF ConnectionInv, r
    <3>4. OthersType' /\ ChannelInv'
      BY <1>0, <3>1, <3>2, <3>3 DEF ConnectionInv, OthersType, ChannelInv
    <3>5. WorkerInv'
      BY <1>1, <2>1, <3>1, <3>2, <3>3, UnderWay DEF WorkerInv
    <3>6. master # "sending"
      <4>1. ~(t.total_bytes_sent < Size)
        BY <3>1, SizeIsNat
      <4>. QED  BY <4>1 DEF ConnectionInv, MasterInv, t
    <3>7. MasterInv'
      BY <1>0, <2>2, <3>2, <3>3, <3>6 DEF ConnectionInv, MasterInv, r
    <3>. QED  BY <1>2, <3>4, <3>5, <3>7
  <2>. QED  BY <2>4, <2>5
<1>4. CASE WorkerAnswers
  <2>. DEFINE n == NewObject(r)
  <2>1. /\ worker = "computing" /\ worker' = "sending"
        /\ channel' = [channel EXCEPT !.response = n]
    BY <1>4 DEF WorkerAnswers, r
  <2>2. Done(t) /\ Done(r) /\ ~Flight(t) /\ ~Flight(r) /\ r.object < t.object
    BY <1>0, <2>1, UnderWay DEF ConnectionInv, WorkerInv, t, r
  <2>3. /\ "ready_sockets_" \notin holders
        /\ master \notin {"listening", "sending", "receiving"}
        /\ ~(master = "polling" /\ event.count # 0 /\ event.type_ = "Send")
    BY <2>1, <2>2 DEF ConnectionInv, MasterInv, Quiet, r
  <2>4. r.object < MaxObjects
    BY <1>1, <2>2, SizeIsNat
  <2>5. /\ TransferInv(n) /\ Flight(n) /\ n.object = r.object + 1
        /\ n.total_bytes_sent = 0 /\ n.total_bytes_received = 0
    BY <1>0, <2>2, <2>4, NewObjectEffect
  <2>. HIDE DEF n
  <2>6. /\ channel' \in [{"task", "response"} -> Transfer]
        /\ channel'.response = n /\ channel'.task = t
    BY <2>1, <2>5, UnderWay, ChannelStep DEF ConnectionInv, t
  <2>7. OthersType' /\ ChannelInv'
    BY <1>0, <2>1, <2>5, <2>6 DEF ConnectionInv, OthersType, ChannelInv
  <2>8. WorkerInv'
    <3>1. n.object <= t.object
      BY <1>1, <2>2, <2>5
    <3>. QED  BY <2>1, <2>2, <2>5, <2>6, <3>1, SizeIsNat DEF WorkerInv
  <2>9. MasterInv'
    BY <1>0, <2>3, <2>5, <2>6 DEF MasterInv
  <2>. QED  BY <1>2, <2>7, <2>8, <2>9
<1>5. CASE WorkerSends
  <2>1. PICK k \in 1..Remaining(r.total_bytes_sent) :
          channel' = [channel EXCEPT !.response = SendTo(r, k)]
    BY <1>5 DEF WorkerSends, r
  <2>. DEFINE n == SendTo(r, k)
  <2>2. /\ worker = "sending"
        /\ worker' = IF channel'.response.total_bytes_sent = Size
                     THEN "receiving" ELSE "sending"
    BY <1>5 DEF WorkerSends
  <2>3. Done(t) /\ Flight(r) /\ ~Flight(t) /\ ~Done(r)
    BY <1>0, <2>2, UnderWay DEF ConnectionInv, WorkerInv, t, r
  <2>4. /\ "ready_sockets_" \notin holders /\ master \notin {"listening", "sending"}
        /\ ~(master = "polling" /\ event.count # 0 /\ event.type_ = "Send")
    BY <2>3 DEF ConnectionInv, MasterInv, Quiet, t, r
  <2>5. /\ TransferInv(n) /\ Flight(n) /\ n.total_bytes_sent \in 0..Size
        /\ n.object = r.object /\ n.total_bytes_received = r.total_bytes_received
    BY <1>0, <2>3, SendToEffect
  <2>6. channel' = [channel EXCEPT !.response = n]
    BY <2>1
  <2>. HIDE DEF n
  <2>7. /\ channel' \in [{"task", "response"} -> Transfer]
        /\ channel'.response = n /\ channel'.task = t
    BY <2>5, <2>6, UnderWay, ChannelStep DEF ConnectionInv, t
  <2>8. OthersType' /\ ChannelInv'
    BY <1>0, <2>2, <2>5, <2>7 DEF ConnectionInv, OthersType, ChannelInv
  <2>9. WorkerInv'
    <3>1. n.total_bytes_sent # Size => n.total_bytes_sent < Size
      BY <2>5, SizeIsNat
    <3>2. n.object <= t.object
      BY <2>5 DEF ConnectionInv, WorkerInv, t, r
    <3>. QED  BY <2>2, <2>3, <2>5, <2>7, <3>1, <3>2 DEF WorkerInv
  <2>10. MasterInv'
    BY <1>0, <2>4, <2>5, <2>7 DEF ConnectionInv, MasterInv, r
  <2>. QED  BY <1>2, <2>8, <2>9, <2>10
<1>6. CASE WorkerCloses
  <2>1. worker' \in {"closed", "reset"} /\ UNCHANGED channel
    BY <1>6 DEF WorkerCloses
  <2>2. OthersType' /\ ChannelInv'
    BY <1>0, <2>1 DEF ConnectionInv, OthersType, ChannelInv
  <2>3. WorkerInv'
    BY <2>1 DEF ConnectionInv, WorkerInv
  <2>4. MasterInv'
    BY <1>0, <2>1 DEF ConnectionInv, MasterInv, Quiet
  <2>. QED  BY <1>2, <2>2, <2>3, <2>4
<1>. QED  BY <1>3, <1>4, <1>5, <1>6

LEMMA ConnectionInvNext == ConnectionInv /\ [Next]_vars => ConnectionInv'
<1>. SUFFICES ASSUME ConnectionInv, [Next]_vars PROVE ConnectionInv'
  OBVIOUS
<1>1. EventInv'
  BY EventInvNext DEF ConnectionInv
<1>2. CASE Next
  <2>1. OthersType' /\ ChannelInv' /\ WorkerInv' /\ MasterInv' /\ StaleInv'
    BY <1>1, <1>2, ConnectionInvPolling, ConnectionInvMaster, ConnectionInvWorker
    DEF Next
  <2>. QED  BY <1>1, <2>1 DEF ConnectionInv
<1>3. CASE UNCHANGED vars
  BY <1>3 DEF vars, ConnectionInv, EventInv, OthersType, ChannelInv, WorkerInv,
     MasterInv, StaleInv, Quiet
<1>. QED  BY <1>2, <1>3

LEMMA ConnectionInvHolds == Spec => []ConnectionInv
BY ConnectionInvInit, ConnectionInvNext, PTL DEF Spec

-----------------------------------------------------------------------------
(* The theorems.                                                           *)

\* The pointer that Poll gets back from kqueue always belongs to an entry of
\* storage_ (event_poller.h:99): there are as many filters as the count says.
THEOREM PolledStored == Spec => []PolledIsStored
<1>1. EventInv => PolledIsStored
  <2>. SUFFICES ASSUME EventInv PROVE PolledIsStored
    OBVIOUS
  <2>1. CASE event.count = 0
    <3>1. {f \in Filter : event.filter[f] # "absent"} = {}
      BY <2>1 DEF EventInv, Kept
    <3>. QED  BY <2>1, <3>1, FS_EmptySet DEF PolledIsStored
  <2>2. CASE event.count # 0
    <3>1. event.count = 2
      BY <2>2 DEF EventInv, Kept
    <3>2. {f \in Filter : event.filter[f] # "absent"}
            = {"EVFILT_READ"} \cup {"EVFILT_WRITE"}
      BY <2>2 DEF EventInv, Kept, Filter
    <3>3. /\ IsFiniteSet({"EVFILT_READ"}) /\ Cardinality({"EVFILT_READ"}) = 1
          /\ "EVFILT_WRITE" \notin {"EVFILT_READ"}
      BY FS_Singleton
    <3>4. Cardinality({"EVFILT_READ"} \cup {"EVFILT_WRITE"}) = 2
      BY <3>3, FS_AddElement
    <3>. QED  BY <3>1, <3>2, <3>4 DEF PolledIsStored
  <2>. QED  BY <2>1, <2>2
<1>. QED  BY <1>1, EventInvHolds, PTL

\* The branch the loop takes by type_ is that of the only enabled filter
\* (master.cpp:53-77), after any sequence of branches, losses and closes.
THEOREM WokenByType == Spec => []WokenByItsType
<1>1. EventInv => WokenByItsType
  BY FilterOfType DEF EventInv, Kept, WokenByItsType
<1>. QED  BY <1>1, EventInvHolds, PTL

\* Every variable has its type, which bounds the transfers: neither end sends
\* or takes more bytes than an object has (socket.h:126, 177).
THEOREM TypeCorrect == Spec => []TypeOK
<1>1. ConnectionInv => TypeOK
  BY DEF ConnectionInv, EventInv, OthersType, TypeOK
<1>. QED  BY <1>1, ConnectionInvHolds, PTL

\* A call of the poller throws (event_poller.h:44, 58, 72) only for an Event
\* that was deleted when its connection was closed and that ready_sockets_ or
\* task_of_socket_ still holds.
THEOREM ThrowsOnlyWhenStale == Spec => []FailsOnlyWhenStale
<1>1. ConnectionInv => FailsOnlyWhenStale
  BY DEF ConnectionInv, StaleInv, FailsOnlyWhenStale
<1>. QED  BY <1>1, ConnectionInvHolds, PTL

\* Whatever was lost, cut or given up before, an object that TryReceiveObject
\* returns (socket.h:162-184) starts with its own first byte and holds no byte
\* of another object or of another place.
THEOREM ObjectsInPlace == Spec => []BytesInPlace
<1>1. ConnectionInv => BytesInPlace
  BY DEF ConnectionInv, OthersType, ChannelInv, TransferInv, InPlace, BytesInPlace
<1>. QED  BY <1>1, ConnectionInvHolds, PTL
=============================================================================
