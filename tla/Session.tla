------------------------------- MODULE Session -------------------------------
(***************************************************************************)
(* Clients (tasks/raft/client.py) and the HTTP routes (server.py) that     *)
(* serve them through replicate_entry and get_operation_result.            *)
(*                                                                         *)
(* The cluster below the routes is what Raft promises: one node in office, *)
(* a log whose committed entries stay, nodes that process a prefix of it.  *)
(* RaftNode says where raft_node.py falls short of that; what goes wrong   *)
(* here goes wrong above it.                                               *)
(*                                                                         *)
(* A thread is one request in Flask.  Its client may have given it up: a   *)
(* request that runs into the timeout of 0.3 s is still served.            *)
(***************************************************************************)
EXTENDS Handlers, Integers, Sequences, FiniteSets

CONSTANTS Node, Client,
          Operations,   \* the operations that clients call
          MaxCalls,     \* bound: calls of all clients
          MaxFailures,  \* bound: requests that fail or time out in office
          MaxElections  \* bound: changes of office

ASSUME SessionAssumption ==
  /\ Operations \subseteq Operation
  /\ None \notin Node
  /\ {MaxCalls, MaxFailures, MaxElections} \subseteq Nat

VARIABLES
  log,            \* of the node in office
  applied,        \* how many of them each node has processed
  leader,         \* the node in office, None at first
  current_leader, \* whom each node takes for the leader
  threads,        \* the requests that are served
  client,         \* the clients
  finished,       \* the calls that returned, in their order (history)
  spent           \* calls, failures and changes of office so far

cluster == <<log, applied, leader, current_leader>>
vars    == <<cluster, threads, client, finished, spent>>

-----------------------------------------------------------------------------
CallId == 1..MaxCalls

\* The term of an entry is the number of the office it was appended in.
LogEntry == [term : Nat, op : Operations, call : CallId]

\* live says that the client waits for the answer; attempt tells the copies of a
\* request apart; office is the change of office in which the entry was
\* appended (history).  A thread that waits for the commit of its entry changes
\* nothing any more once its client has given it up, and is left out.
Thread == [client : Client, call : CallId, op : Operations, node : Node,
           attempt : Nat, at : {"arrived", "appended"}, entry_id : Nat, office : Nat,
           live : BOOLEAN]

\* since is history: the last position that was answered before the call; so
\* is kept: the node that answers has been in office since it appended the
\* entry of the call.
ClientState == [at : {"idle", "requesting", "fetching"}, call : CallId \cup {0},
                op : Operations \cup {None}, since : Nat,
                current_leader_address : Node,
                node_id : Node \cup {None}, operation_id : Nat, kept : BOOLEAN]

\* The answer to a call, and the position it is the result of.
Answer == [call : CallId, op : Operations, result : Result, since : Nat,
           position : Nat \ {0}, kept : BOOLEAN]

Idle(call, n) ==
  [at |-> "idle", call |-> call, op |-> None, since |-> 0,
   current_leader_address |-> n, node_id |-> None, operation_id |-> 0,
   kept |-> FALSE]

Init ==
  /\ log = <<>>
  /\ applied = [n \in Node |-> 0]
  /\ leader = None
  /\ current_leader = [n \in Node |-> None]
  /\ threads = {}
  /\ client \in [Client -> {Idle(0, n) : n \in Node}]
  /\ finished = <<>>
  /\ spent = [calls |-> 0, failures |-> 0, elections |-> 0]

Committed == CHOOSE i \in {applied[n] : n \in Node} : \A n \in Node : applied[n] <= i

\* The dictionary after the first i entries, and the result of entry i.
StoreAfter[i \in Nat] ==
  IF i = 0 THEN [k \in Key |-> None]
  ELSE LET o == log[i].op
       IN [StoreAfter[i - 1] EXCEPT ![o.key] = handler(o, @).new]

ResultAt(i) == handler(log[i].op, StoreAfter[i - 1][log[i].op.key]).result

\* The last position that some call was answered from.
Acknowledged ==
  LET positions == {finished[i].position : i \in DOMAIN finished} \cup {0}
  IN CHOOSE p \in positions : \A q \in positions : q <= p

-----------------------------------------------------------------------------
(* The cluster.                                                            *)

\* n takes office with all that is committed; its voters, and the node that
\* loses office, forget their leader.
Elect(n) ==
  /\ spent.elections < MaxElections
  /\ n # leader
  /\ leader' = n
  /\ spent' = [spent EXCEPT !.elections = @ + 1]
  /\ \E i \in Committed..Len(log) : log' = SubSeq(log, 1, i)
  /\ \E voters \in SUBSET Node :
       /\ n \in voters /\ 2 * Cardinality(voters) > Cardinality(Node)
       /\ current_leader' = [m \in Node |->
            IF m \in voters \cup {leader} THEN None ELSE current_leader[m]]
  /\ UNCHANGED <<applied, threads, client, finished>>

\* A majority has the log up to an entry of the leader's own term: what older
\* terms left is committed with it, and not before.
Commit ==
  /\ leader # None
  /\ \E i \in (applied[leader] + 1)..Len(log) :
       /\ log[i].term = spent.elections
       /\ applied' = [applied EXCEPT ![leader] = i]
  /\ UNCHANGED <<log, leader, current_leader, threads, client, finished, spent>>

\* How far the node in office may commit without another call.
Committable(p) ==
  p <= applied[leader] \/ \E i \in p..Len(log) : log[i].term = spent.elections

\* AppendEntries reaches a follower, which may be ahead of a new leader.
Follow(n) ==
  /\ leader \notin {None, n}
  /\ current_leader' = [current_leader EXCEPT ![n] = leader]
  /\ \E i \in {applied[n]} \cup applied[n]..applied[leader] :
       applied' = [applied EXCEPT ![n] = i]
  /\ UNCHANGED <<log, leader, threads, client, finished, spent>>

-----------------------------------------------------------------------------
(* The client.                                                             *)

\* send_request sends the request of c's call to node n; rest are the threads
\* besides the new one.
Request(c, s, n, rest) ==
  /\ client' = [client EXCEPT ![c] =
       [s EXCEPT !.at = "requesting", !.current_leader_address = n,
                 !.node_id = None, !.operation_id = 0, !.kept = FALSE]]
  /\ threads' = rest \cup
       {[client |-> c, call |-> s.call, op |-> s.op, node |-> n,
         attempt |-> spent'.failures, at |-> "arrived",
         entry_id |-> 0, office |-> 0, live |-> TRUE]}

Call(c, o) ==
  /\ client[c].at = "idle"
  /\ spent.calls < MaxCalls
  /\ spent' = [spent EXCEPT !.calls = @ + 1]
  /\ Request(c, [client[c] EXCEPT !.call = spent.calls + 1, !.op = o,
                                  !.since = Acknowledged],
             client[c].current_leader_address, threads)
  /\ UNCHANGED <<cluster, finished>>

\* The thread cannot answer before another call or change of office: its node
\* has lost it, or its entry is gone or cannot be committed.
Stuck(t) == t.at = "appended" /\ (t.node # leader \/ ~Committable(t.entry_id))

\* A RequestException in send_request: the request did not arrive, or it is
\* served although its client has given it up.  The client asks any node.
Fail(t) ==
  /\ t.live
  /\ IF Stuck(t) THEN UNCHANGED spent
     ELSE /\ spent.failures < MaxFailures
          /\ spent' = [spent EXCEPT !.failures = @ + 1]
  /\ \E n \in Node, left \in {{}, {[t EXCEPT !.live = FALSE]}} :
       /\ t.at = "appended" => left = {}
       /\ Request(t.client, client[t.client], n, (threads \ {t}) \cup left)
  /\ UNCHANGED <<cluster, finished>>

\* The call returns with the result at position p.
Return(c, p, kept) ==
  /\ client' = [client EXCEPT ![c] = Idle(@.call, @.current_leader_address)]
  /\ finished' = Append(finished,
       [call |-> client[c].call, op |-> client[c].op, result |-> ResultAt(p),
        since |-> client[c].since, position |-> p, kept |-> kept])

\* The second request of a read fails, and the read starts over.
FetchFails(c) ==
  /\ client[c].at = "fetching"
  /\ spent.failures < MaxFailures
  /\ spent' = [spent EXCEPT !.failures = @ + 1]
  /\ Request(c, client[c], client[c].current_leader_address, threads)
  /\ UNCHANGED <<cluster, finished>>

-----------------------------------------------------------------------------
(* The routes.                                                             *)

\* Mutant of RedirectTargets: leader_id is not compared with -1.
RedirectTargets_Unchecked(n) == {current_leader[n]}

\* Where a client goes that n has redirected: to the leader that n knows, or,
\* without one, to any node.
RedirectTargets(n) == IF current_leader[n] = None THEN Node ELSE {current_leader[n]}

Redirect(t) ==
  /\ t.at = "arrived" /\ t.node # leader
  /\ UNCHANGED <<cluster, finished, spent>>
  /\ IF t.live
     THEN \E n \in RedirectTargets(t.node) :
            Request(t.client, client[t.client], n, threads \ {t})
     ELSE threads' = threads \ {t} /\ UNCHANGED client

\* Mutant of AppendEntry: a thread that waits appends its entry again.
AppendEntry_Again(t) ==
  /\ t.node = leader
  /\ log' = Append(log, [term |-> spent.elections, op |-> t.op, call |-> t.call])
  /\ threads' = (threads \ {t}) \cup
       {[t EXCEPT !.at = "appended", !.entry_id = Len(log) + 1,
                  !.office = spent.elections]}
  /\ UNCHANGED <<applied, leader, current_leader, client, finished, spent>>

\* replicate_entry up to its wait.
AppendEntry(t) ==
  /\ t.at = "arrived" /\ t.node = leader
  /\ log' = Append(log, [term |-> spent.elections, op |-> t.op, call |-> t.call])
  /\ LET waiting == [t EXCEPT !.at = "appended", !.entry_id = Len(log) + 1,
                              !.office = spent.elections]
     IN threads' = (threads \ {t}) \cup (IF t.live THEN {waiting} ELSE {})
  /\ UNCHANGED <<applied, leader, current_leader, client, finished, spent>>

\* Mutant of Answers: an entry is answered before it is committed.
Answers_Early(t) ==
  /\ t.at = "appended" /\ t.node = leader /\ t.entry_id <= Len(log)

\* Mutant of Answers: the entry's own commit does not end the wait.
Answers_Later(t) == t.at = "appended" /\ t.node = leader /\ applied[leader] > t.entry_id

\* The wait of replicate_entry is over.
Answers(t) == t.at = "appended" /\ t.node = leader /\ applied[leader] >= t.entry_id

\* The first answer to a read names a follower that has the entry; any other
\* answer is the result at the entry's position, whoever put that entry there.
Answered(t) ==
  /\ Answers(t)
  /\ threads' = threads \ {t}
  /\ LET kept == t.office = spent.elections
     IN IF t.op.type = "read"
        THEN /\ \E n \in Node \ {leader} :
                  client' = [client EXCEPT ![t.client] =
                    [@ EXCEPT !.at = "fetching", !.node_id = n,
                              !.operation_id = t.entry_id, !.kept = kept]]
             /\ UNCHANGED finished
        ELSE Return(t.client, t.entry_id, kept)
  /\ UNCHANGED <<cluster, spent>>

\* The second request of a read waits for the follower, without a timeout.
Fetch(c) ==
  /\ client[c].at = "fetching"
  /\ applied[client[c].node_id] >= client[c].operation_id
  /\ Return(c, client[c].operation_id, client[c].kept)
  /\ UNCHANGED <<cluster, threads, spent>>

-----------------------------------------------------------------------------
Next ==
  \/ \E n \in Node : Elect(n) \/ Follow(n)
  \/ Commit
  \/ \E c \in Client : \/ \E o \in Operations : Call(c, o)
                       \/ FetchFails(c) \/ Fetch(c)
  \/ \E t \in threads : Fail(t) \/ Redirect(t) \/ AppendEntry(t) \/ Answered(t)

Spec == Init /\ [][Next]_vars

\* A node gets into office, and what it has reaches the others; threads run; a
\* request that cannot be answered runs into its timeout.
FairSpec ==
  /\ Spec
  /\ WF_vars(leader = None /\ \E n \in Node : Elect(n))
  /\ WF_vars(Commit)
  /\ \A n \in Node : WF_vars(Follow(n))
  /\ \A c \in Client :
       /\ WF_vars(\E t \in threads : t.client = c /\ t.live /\ Redirect(t))
       /\ WF_vars(\E t \in threads : t.client = c /\ t.live /\ AppendEntry(t))
       /\ WF_vars(\E t \in threads : t.client = c /\ Answered(t))
       /\ WF_vars(\E t \in threads : t.client = c /\ Stuck(t) /\ Fail(t))
       /\ WF_vars(Fetch(c))

-----------------------------------------------------------------------------
(* Properties.                                                             *)

\* Every variable has its type.
TypeOK ==
  /\ log \in Seq(LogEntry)
  /\ applied \in [Node -> Nat]
  /\ leader \in Node \cup {None}
  /\ current_leader \in [Node -> Node \cup {None}]
  /\ threads \subseteq Thread
  /\ client \in [Client -> ClientState]
  /\ finished \in Seq(Answer)
  /\ spent \in [calls : Nat, failures : Nat, elections : Nat]

\* A call sees every call that returned before it was made: its result is that
\* of a later position of the log, whatever was repeated, redirected or lost
\* with an office in between.
SeesAcknowledged == \A i \in DOMAIN finished : finished[i].position > finished[i].since

\* A call gets the result of an entry of its own, which stays in the log, if
\* the node that answers has been in office since it appended it.
AnswersAreOwn ==
  \A i \in DOMAIN finished :
    LET a == finished[i]
    IN a.kept => a.position \in DOMAIN log /\ log[a.position].call = a.call

\* Nothing marks the copies of a request as one operation.  Yet in each office
\* a call gets into the log once at most, and once more for each request that
\* failed or timed out although it could be answered: redirects, answers that
\* come late and changes of office multiply it no further.
CopiesAreBounded ==
  \A call \in CallId :
    Cardinality({i \in DOMAIN log : log[i].call = call})
      <= spent.failures + spent.elections

\* The second request of c's read has no timeout, and the follower it waits for
\* never learns of the commit: the office has changed, the new leader may not
\* commit what the old one left, and nobody calls.
Stranded(c) ==
  /\ client[c].at = "fetching"
  /\ applied[client[c].node_id] < client[c].operation_id
  /\ ~Committable(client[c].operation_id)

\* Every call returns once no request fails and nobody else gets into office,
\* whatever was redirected, repeated or lost before; only a read may be left
\* stranded for ever.
CallsReturn ==
  \A c \in Client :
    [](client[c].at # "idle" => <>(client[c].at = "idle" \/ []Stranded(c)))

\* tests.py:47-49: after a client's delete has returned, its own read does not
\* find the key, unless the client has created it again.
DeletedIsGone ==
  \A i, j \in DOMAIN finished :
    (/\ i < j
     /\ finished[i].op.type = "delete" /\ finished[j].op.type = "read"
     /\ finished[i].op.key = finished[j].op.key
     /\ \A k \in i..j : finished[k].op.type # "create")
    => finished[j].result.status # "OK"

=============================================================================
