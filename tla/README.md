# tftds: a verification project

The repository holds two distributed programs and one library:

* `tasks/raft` – a key-value store replicated with Raft (Python, gRPC between
  the servers, HTTP to the clients);
* `tasks/integration` – a master that hands pieces of a numeric integral to
  workers it finds by broadcast (C++);
* `subprojects/cppnet` – the socket and event library the second one uses.

This directory holds TLA+ models of them, the TLC configurations that check the
models on small instances, and proofs checked by TLAPS.

## Inventory

| Component | State | Operations | Talks to | What is hard | What makes it correct |
|---|---|---|---|---|---|
| Raft node (`raft_node.py`) | role, term, vote, log, commit index, next/match indexes, two timers, condition lock | `start_election`, `request_vote`, `become_leader`, `downgrade_to_follower`, `piggyback_heartbeat`, `append_entries`, `replicate_entry`, the servicers `AppendEntries` and `RequestVote` | its peers (gRPC), its state machine (calls under its lock), the HTTP routes | one lock, but every operation is several locked blocks with RPCs between them; timers that have fired cannot be cancelled; RPCs time out while their request is still served; nothing is on disk | timers never lost, terms monotonic, one vote per term, leaders append only, no commit without a result, waiting calls answered |
| State machine (`state_machine.py`) | the dictionary, the list of results | `process_new_entries`, `get_operation_result`, five handlers | Raft node, HTTP server | waits under two locks; results are found by position | one result per applied entry, results a function of the sequence applied |
| HTTP server (`server.py`) | none of its own | five routes | Raft node, state machine, client | threads that wait as long as the node does | an answer belongs to its request |
| Client (`client.py`) | the address it believes in | `create`, `read`, `update`, `cas`, `delete` over `send_request` | any HTTP server | retries after a timeout repeat the operation; a read is two requests to two servers | what a call returns is what its operation did |
| Master (`master.cpp`) | tasks, pending tasks, finished flags, task of each socket, idle sockets | the `Integrate` loop, one branch per event | workers (TCP), everybody (UDP broadcast), poller | closed sockets, lost messages, one task computed twice | every task counted once, no task lost, the sum complete at the end |
| Worker (`worker.cpp`) | one connection | the `Serve` loop | master | loses and breaks connections at three places | answers belong to the task received |
| Poller, events (`event_poller.h`, `event.h`) | registered events and their reference counts | `Add`, `Enable`, `Disable`, `Delete`, `Poll` | kernel queue, master | events identified by descriptor and filter, a closed socket reports both | no event lost, no use after delete |
| Sockets (`socket.h`) | a descriptor | send/receive of whole objects | kernel | partial transfers | the object arrives whole or an error is reported |
| Addresses, interfaces, multicast, time | none | conversions | kernel | – | – |

Generated code (`rpc/raft_pb2*`), scripts and build files have no behaviour of
their own that is worth a model.

## Modules

| Module | What it is |
|---|---|
| `RaftNode` | the Raft cluster: every node, its threads and timers, the calls on the network, clients' calls, crashes and restarts; its properties, safety and liveness; the mutants of its operators |
| `MCRaftNode` | its instance for TLC (the symmetry of servers and heartbeat slots) |
| `RaftNode_proofs` | theorems about `RaftNode` for every number of servers, calls, elections, failures and crashes |
| `OneLeader_proofs` | theorems about `RaftNode` as long as there was one election and no kill |
| `Handlers` | the operations of a log entry and what the handlers of `state_machine.py` do with them (pure operators) |
| `StateMachine` | the dictionary and the list of results, `process_new_entries`, the threads in `get_operation_result` |
| `StateMachine_proofs` | theorems about `StateMachine` for any keys, values, threads and bounds |
| `ReplicatedLog` | what a replicated state machine promises to its callers: one sequence, processed in order everywhere, and answers from it; implemented by `RaftNode` with one leader |
| `Session` | clients and HTTP routes over a cluster that keeps Raft's promises |
| `MCSession` | its instance for TLC: the operations of the runs, the symmetry of nodes and clients |
| `Session_proofs` | theorems about `Session` for any nodes, clients, operations and bounds |
| `NaturalLemmas` | the least and the greatest number with a property, and induction over a set of naturals, which the library states with an operator parameter |
| `TaskFarm` | what `Integrate` promises: each task is added once, and the sum is returned when all are in |
| `Integration` | the master's event loop, the workers' loops, broadcast and connections between them, injected losses, dying workers; shown to implement `TaskFarm` |
| `MCIntegration` | its instance for TLC (the symmetry of workers) |
| `Integration_proofs` | theorems about `Integration` for every number of workers, tasks, losses and deaths |
| `Connection` | one connection between master and worker below that: the `SocketEvent`, the poller's and kqueue's records of it, and the transfer loops of `socket.h` byte by byte |
| `Connection_proofs` | theorems about `Connection` for objects of every size and any number of tasks |

### RaftNode and the code

A record `node[n]` is one `RaftNode` object with its fields under their own
names; `log[i]` is `self.log[i]` for `i >= 1`, the constant entry 0 is left
out, and `applied` stands for the list of results (one per operation applied).
One `with self.lock` block is one action, and between the blocks of a thread
every other thread runs, so the interleavings are those of the program:

| Code | Actions |
|---|---|
| election timer, `start_election` | `ElectionTimeout` (the timer fires and can no longer be cancelled), `start_election` (first block), `SendRequestVote`, `HandleRequestVoteReply`, `RequestVoteFails` (a pool thread), `FinishElection` (last block) |
| heartbeat timer, `piggyback_heartbeat` | `piggyback_heartbeat`, `SendAppendEntries`, `HandleAppendReply`, `AppendEntriesFails` (an RPC thread), `FinishRound` |
| servicers | `AppendEntries`, `RequestVote`, each with a pure operator (`AfterAppendEntries`, `AfterRequestVote`) for what happens to the object |
| `replicate_entry` | `replicate_entry` up to its first wait, `WaiterWakes` for a notified thread that tests its condition again |
| tests that kill and start servers | `Crash`, `Restart` |

An RPC is a request that waits to be handled and a reply that waits to be used.
A call that runs into its timeout loses its reply; its request is lost or stays
(`live = FALSE`) and is handled at any later moment; the same holds for the
requests of a process that is killed. Durations are not
modelled: an armed timer may fire at any time. `waiters` are threads asleep in
`replicate_entry`; `awake` is what `notify_all` sets. `answers` is a history of
what calls returned, `after` of which calls had been answered before.

`Contract` reads the cluster as a `ReplicatedLog`: `processed` is the sequence
of calls each node has applied, `answered` the positions that calls were answered
with. `ReplicatedLog` knows nothing of logs, terms or indexes.

Not in the module: the content of operations (`StateMachine`), redirects and
retries (`Session`), the ten threads of the gRPC
server's pool (a servicer never waits for anything but the lock), the console.

### StateMachine and the code

`kv_storage` is total: `None` stands for a key that is missing. A result is its
status and the value a read returns; the wordings of errors follow from status
and operation. `Begin`, `HandleEntry` (once per entry) and `Finish` are one call
of `process_new_entries`, which holds the lock all along; `get_operation_result`
and `WakeUp` are the two moments at which a reader tests its condition. The node
calls `process_new_entries` under its own lock, so calls do not overlap, and
sometimes with no entries at all. `entries` is a history variable.

### Session and the code

| Code | Actions |
|---|---|
| `create`, `read`, `update`, `cas`, `delete` of a client | `Call`, `Return` |
| `send_request`: a `RequestException`, a timeout | `Fail`, with the operator `Request` for the next attempt |
| `send_request`: a redirect; the first test of `replicate_entry` | `Redirect` |
| a route in `replicate_entry`, up to the wait and after it | `AppendEntry`, `Answered` |
| the second request of a read | `Fetch`, `FetchFails` |
| the cluster | `Elect`, `Commit`, `Follow` |

A thread whose client has given it up stays (`live = FALSE`): Flask goes on with
it, until it has appended its entry; from there on it changes nothing and is left
out. `attempt` tells the copies of a request apart. The cluster is what Raft
promises (one node in office with everything that is committed, followers that
process a prefix), not what `raft_node.py` does: `RaftNode` shows where it falls
short, `Session` asks what the layer above makes of a cluster without fault, and
what it says holds over such a cluster. Where the two differ in what a client sees,
as in the read that is answered without `node_id`, the run is one of `RaftNode`.

What the cluster commits is what the code lets a leader commit: an entry of its own
term with all before it (`Commit`, raft_node.py:194). A leader that has been elected
appends nothing of its own, so what the last office left uncommitted stays so until
somebody calls (`Committable`). A thread whose node has lost office, or whose entry
is gone or cannot be committed, runs into the client's timeout (`Stuck`). The second
request of a read has none (`Stranded`).

### Integration and the code

The master is one thread, so one event that `Poll` returns and its branch are
one action, with every call the branch makes. A number in `Socket` stands for
the master's `Event` of one connection and the connection itself, `link[c]`;
`filter[c]` is its enabled filter in the poller, `"None"` if the poller does not
have it. `pending_tasks`, `ready_sockets`, `task_of_socket`, `task_is_finished`,
`finished_tasks` and `result` are the variables of `master.cpp` (`result` counts
how often each task was added instead of adding floating-point numbers).

| Code | Actions |
|---|---|
| timer event, `DiscoverWorkers` | `DiscoverWorkers` |
| `Accept` branch | `AcceptEvent` |
| `Send` branch, `ProcessReadySocket`, `ProcessSocketWithTask` | `SendEvent` |
| `Receive` branch | `ReceiveEvent` |
| `EV_EOF`, `ConnectionClosed` branch | `ConnectionClosedEvent` |
| `ProcessBadSocket`, `ProcessNewTask` and their mutual calls | `ProcessBadSocket`, an operator: `k` idle sockets in a row turn out bad |
| end of the loop | `Return` |
| `Serve` of a worker | `SkipDiscovery`, `Connect`, `ReceiveTask`, `SendResponse` |
| a worker's process or host is gone | `Die` |

Assumed of the kernel: a connected socket is always writable; a closed peer is
reported (`EV_EOF`) before data that is still unread; sending to a closed peer
swallows the message, reports the reset, or raises SIGPIPE, which nothing in the
repository handles (`Ends("killed")`); `accept`, or an option of the new socket, may
fail when the worker has gone while it waited, and nothing catches that
(`Ends("refused")`). Whole objects arrive or are lost:
`ReceiveEvent`'s loss stands for an answer that arrives in part, and a worker
that leaves while the master reads is taken to leave before or after it; what
lies between is the subject of `Connection`.

### Connection and the code

`event` is one `SocketEvent` (`type_`, `is_closed_`), its entry in `storage_`
(`count`), its two kqueue filters, and whether a call of the poller has thrown.
`Add`, `AddAndEnable`, `Enable`, `Disable`, `Delete` are operators on that record
under the names of the methods; a branch of the loop composes them in the order of
its calls (`Turn`, `Forget`), and one that throws ends the program. `channel` holds
the two directions: the bytes on the wire, and the counters and the buffer of
the loops that send and receive. A byte is known by its object and its place.

| Code | Actions |
|---|---|
| `Accept` branch | `Accept` |
| `Send` branch with `ProcessReadySocket` | `SendEvent` |
| `ProcessNewTask` from another connection | `ProcessNewTask` |
| `Receive` branch up to the first `recvfrom` | `ReceiveEvent` |
| `Poll` with `EV_EOF`, `ConnectionClosed` branch | `ConnectionClosedEvent` |
| one `sendto`, one `recvfrom` of the master | `MasterSends`, `MasterReceives` |
| `Serve` of the worker, one system call at a time | `WorkerReceives`, `WorkerAnswers`, `WorkerSends`, `WorkerCloses` |
| the end of the program | `Integrated` |

`&object_buffer + total_bytes_received` (socket.h:175) points whole arrays further:
`ReceiveFrom` puts what a second `recvfrom` brings behind the buffer (`Offset`), and
the process may or may not survive that. The worker's end may be `closed`, after
which a read returns what is left and then 0 bytes for ever (the loop takes no
further step: `Spins`), or `reset`, which every read reports as an error.

### Bounds

`RaftNode`: `MaxElections`, `MaxFailures`, `MaxCrashes` bound expired election
timers, failing calls between live nodes, and kills; `Slot` bounds the heartbeat
rounds of a node at the same time; `Op` is the set of calls clients make, each
once. With bounds used up the system comes to rest, so the runs do not check for
deadlock. Three servers make a majority of two, the smallest in which a
committed entry can be missing somewhere.

`StateMachine`: `MaxEntries` and `MaxBatch`; three entries on a key and two
values let it be created, changed by a `cas` and then read or deleted; keys do
not meet in any handler, and the theorems below are for any number of them.
An empty batch can always be processed, so the runs check for deadlock.

`Session`: `MaxCalls`, `MaxFailures` and `MaxElections` bound calls, requests
that fail or time out although they could be answered, and changes of office. A
request that cannot be answered (`Stuck`) always runs into its timeout. Two
calls are the fewest of which one follows the other, and two nodes in office in
turn let an entry be lost on the way; a copy of a request that its client gave up
competes with the next one for positions of the log, as the requests of two
clients do. A late copy that a client sees takes three calls. With calls used up the
system rests, so deadlock is not checked.

`Integration`: `SocketCount` bounds the connections ever made, `MaxLosses` the
calls of `ShouldBeLost` that return true, `MaxDeaths` the workers that die. The
program ends when `Integrate` returns, and workers may be left spinning, so
deadlock is not checked. Three workers are the fewest in which a busy worker's
connection breaks while one idle worker is dead and another alive; with two
tasks one of them is idle, and a task that comes back meets it.

`Connection`: `Size` bytes of an object and `MaxObjects` tasks. Three bytes let a
transfer come in two or three parts, cut at the first byte or later; three tasks let
a connection be used again after an idle time. The program ends, and transfers to a
peer that has gone never do, so deadlock is not checked.

## Runs

Of `RaftNode`, three servers:

| Run | Bounds (elections, failures, crashes; calls; slots) | Question |
|---|---|---|
| `raft_election` | 2, 1, 0; 1; 1 | Do two overlapping elections with a failing or late call keep votes, terms, roles and timers consistent? |
| `raft_replication` | 2, 0, 0; 2; 1 | Do two leaders in turn with conflicting entries keep logs ordered, leaders append-only and requests true to their leader's log? Does a leader commit only what half of the servers acknowledged in its own term, and has each node a result for all that it commits? |
| `raft_stable` | 1, 0, 0; a write and a read; 2 | Do the servers under one leader implement `ReplicatedLog`, with stale replies and logs that late requests cut, and is a position the same call everywhere? |
| `raft_crash` | 1, 0, 1; 1; 1, with fairness, without symmetry | Do the elections of a running node keep coming after a kill at any step, with its requests still under way, and a restart with empty memory? Are calls of a leader that keeps office answered, and do elections end? |
| `raft_read_after_create` | 2, 0, 0; a write and a read; 1 | **Violated**: a read after a successful create may not see it |
| `raft_read_names_follower` | 1, 0, 0; a read; 2 | **Violated**: the first request of a read may be answered without `node_id` |

Each bound is the smallest with the case in question: two elections for a
second leader, two operations for a conflict, two slots for requests of one
leader that overtake each other, one failure for a call handled late. In
`raft_crash` the requests of the killed server are the late ones.

Of `StateMachine`:

| Run | Bounds (keys, values, readers; entries, batch) | Question |
|---|---|---|
| `state_machine` | 1, 2, 2; 3, 2, with fairness | Are the results those of a store that does one operation after the other? Does each reader get the result of its entry, for good, is no wake-up lost, and does it return? |

Of `Session`, three nodes, one client, one key, one value:

| Run | Bounds (operations; calls, failures, offices) | Question |
|---|---|---|
| `session` | create and read; 2, 1, 2, with fairness, without symmetry | Does a call see those that returned before it, get an answer of its own, get into the log no oftener than it should, and return, while requests fail or time out and the office changes? |
| `session_late_copy` | create, read, delete; 3, 1, 1 | **Violated**: a client finds a key that it has deleted |

Of `Integration`:

| Run | Bounds (workers, tasks, sockets; losses, deaths) | Question |
|---|---|---|
| `integration` | 3, 2, 4; 1, 1, with fairness, without symmetry | Is every task held exactly once, and is the sum complete, with a loss at any of the places where `ShouldBeLost` is asked, and a worker that dies at any step, an idle one included? Does `Integrate` return, unless it ends otherwise or a dead socket has swallowed a task? |
| `integration_delete` | 3, 2, 4; 1, 1 | **Violated**: `Delete` is called for an event that was not added |

Of `Connection`:

| Run | Bounds (bytes, tasks) | Question |
|---|---|---|
| `connection` | 3, 3, with fairness | Do the poller's entry and kqueue's filters agree, does each branch act on the filter it was woken by, does a poller call fail only for an event deleted before, does every reader start at the first byte of an object, does the master come back to `Poll`, does what is sent arrive? |

### What the violations show

`raft_read_after_create`: `RequestVote` compares logs only for a node that has
already voted for the candidate (`or` binds weaker than `and`, lines 331-341),
and a request of a newer term has just cleared the vote. A server without a
committed entry becomes leader and removes it from the others. No crash, no
lost message is needed, two election timers suffice.

`raft_read_names_follower`: an `AppendEntries` reply of an older request sets
`match_index` back (line 187), while `commit_index` stays; the read then finds
no follower with its entry and is answered from the leader itself, without the
`node_id` the client reads.

`session_late_copy`: `send_request` repeats a request that timed out, and nothing
marks the copies as one operation. A `create` times out and is sent again; the second
copy is answered, the client deletes the key and is answered; then the first copy of
the `create` is appended, and the client reads a key that it has deleted. `tests.py`
expects that it finds none (lines 47-49).

`CallsReturn` has one exception (`Stranded`), because the code does not return then. The
second request of a `read` has no timeout (client.py:68-71) and waits for a follower to
apply the entry. When the office changes before this follower has learned of the commit,
the new leader may not commit the entry, which is of an older term (raft_node.py:194),
and has none of its own; a client that is alone waits in its read and calls nothing
else. One read, two offices and no request that fails are enough for TLC to find this
when the exception is left out. `CallsReturn` says that it is the only way in which a
call is left without an end.

A killed server forgets its term. It restarts in term 0, may be elected in a term it
has led before, now with an empty log, and its old requests of that term may
still be under way: `RequestsComeFromTheLog` is violated with one kill and two elections.
Nothing in the repository speaks of that case, so no run asserts the property with kills.

`AnswersAreOwn` holds for answers of a node that kept its office. A thread waits
for an index (line 245) and not for its entry; after its node has lost office
and got it back, another entry may be there. Nothing in the repository speaks
of that case, so no run asserts it.

`ResultsCoverCommits` is checked where two leaders overwrite each other's entries and
a deposed one commits from a late reply. A `commit_index` that exceeds a shortened log
or moves back needs more elections and calls than that run has: there the theorem
`CommitsHaveResults` is all there is.

`integration_delete`: `ProcessBadSocket` takes a closed connection out of the
poller but not out of `ready_sockets_`. When another connection breaks, its task
goes to the dead socket at the back of that list; the send fails, and the second
`Delete` throws "Event wasn't added" (event_poller.h:75-77), which nobody
catches. If the kernel swallows the task instead, the task is held by a socket
that the poller no longer watches, and `Integrate` never returns; no text of the
repository says which of its failures it survives, so `IntegrateReturns` names
that outcome and the three ways in which the program ends early.

A worker whose connection the master closed never notices: `recv` returns 0,
and the loop of `TryReceiveObjectFrom` (socket.h:174-182) goes on for ever. The
models have it (`spinning`; in `Connection`, `Spins`); no text of the repository
says otherwise. With as many losses and deaths as workers, all of them may end
there, so `integration` leaves one. `Connection` shows the same loop in the master,
when a worker closes in the middle of a response (a reset ends it): `MasterComesBack`
says that this is the only way in which a transfer keeps the master from its other
connections.

What `Connection` shows besides, and no text speaks of: an object that arrives in parts is
returned with the bytes of its first part only (`BytesInPlace` leaves the others
unwritten), and the rest goes behind the buffer.

What the model of Raft also shows, and why it is not a property: with three elections
two nodes may lead the same term (votes of an older election are counted in a
newer term, lines 122-126); `commit_index` may exceed the log and may go back
(lines 300-311), after which entries are applied again. Election safety, leader
completeness, log matching and state machine safety therefore do not hold of
this code, and the properties state what does.

## Fairness

`FairSpec` of `RaftNode` assumes weak fairness of each thread of each node: a fired timer's
thread gets the lock, an RPC thread sends its request, a servicer handles a
request that has arrived, a reply that has arrived is used, a notified waiter
runs, the heartbeat timer fires, a call to a dead server fails. No fairness is
assumed of election timers, of failures, of clients or of crashes. Threads of
CPython and gRPC are scheduled eventually, and the two timers are
`threading.Timer` objects, which run out. Calls between live servers fail at
most `MaxFailures` times, so in the end the network delivers.

`FairSpec` of `StateMachine` assumes that a call of `process_new_entries` ends,
and strong fairness of the readers: a notified thread gets the lock, although
the node takes it again and again; the node holds it for microseconds between
RPCs. `FairSpec` of `Session` assumes that some node gets into office, that it
commits what its term lets it commit, that followers are reached, that threads run,
and that a request nobody can answer times out; nothing of further changes of office,
failures or calls.

`FairSpec` of `Integration` assumes that the poller returns every event that
stays ready, that the loop tests its condition, that workers run, and that the
master's periodic broadcast in the end reaches a worker that keeps waiting for
one. `kqueue` hands out ready events in turn, and the timer event repeats. No
fairness is assumed of losses, skipped discoveries or deaths. `Connection` assumes the same of its one
connection: `Poll` returns what stays ready, and each program makes its next
system call; nothing of closes, nor of tasks that come back from elsewhere.

## Proofs

`RaftNode_proofs` proves, for every set of servers and every bound:

| Theorem | States |
|---|---|
| `TypeCorrect` | `[]TypeOK` |
| `CommitsHaveResults` | `[]ResultsCoverCommits` |
| `TermsOnlyGrow` | `TermsNeverDecrease` |
| `VotesStay` | `VotesAreNotTransferred` |
| `ElectionsKeepComing` | `[]ElectionKeepsComing` |
| `LeadersKeepBeating` | `[]LeaderKeepsBeating` |
| `CandidatesHold` | `[]CandidatesHoldTheirVote` |
| `LeadersMatch` | `[]LeaderMatchesItself` |
| `LeadersAppend` | `LeaderAppendOnly` |
| `LogsOrdered` | `[]LogTermsOrdered` |
| `RequestsFromTheLog` | `[](spent.crashes = 0 => RequestsComeFromTheLog)` |
| `LeadersCommitMatched` | `LeadersCommitWhatIsMatched` |

The only assumption is `ConstantsAssumption` of `RaftNode`.

The argument. The lemma `NodeSteps` lists the ways in which one step changes
one node (`NodeStep`), so that a statement about single nodes is proved once
per way instead of once per action. `AfterAppendEntriesEffect`,
`AfterAppendReplyEffect` and `AfterRequestVoteEffect` say what the handlers do
to role, term, vote, log and indexes.

* `ResultsCoverCommits` is inductive with `TypeOK`: `CommitUpTo` raises
  `commit_index` to `end` by applying a slice that reaches up to `end`, also
  where the slice ends with a log that is shorter than the index, and every
  other step leaves both alone (`CommitUpToCovers`).
* `ElectionKeepsComing` speaks of running nodes only; the inductive form
  (`TimerOrElection`) drops that condition, because a node is restarted with
  the state that `Crash` gave it.
* `LeaderMatchesItself` and `LeaderAppendOnly` need to know that no node sends
  calls to itself (`CallsGoToPeers`, proved inductive in `PeersNext`):
  otherwise a leader's own reply could set its own `match_index`.
  `LeaderMatchesItself` and `CandidatesHoldTheirVote` are then inductive
  (`NodeStepOffice`).
* `LogTermsOrdered` is not inductive: a follower appends what a request brings. The
  inductive form `TermsInv` says the same of the entries of every request, wherever
  the request is, and puts them between `prev_log_term` and the term of the
  request. `AfterAppendEntries` then joins a prefix whose last entry has
  `prev_log_term` with entries that follow it.
* `RequestsComeFromTheLog` speaks of requests of the term their sender leads now. Its
  inductive form `OfficeInv` also says where requests come from: each is of a
  term that its sender has reached and in which it does not stand for election
  any more. A node that comes to lead a term therefore has no requests of that
  term under way: it never leads a term twice, unless it is killed in between.
  That is why the theorem excludes kills; with them the statement is false (see
  "What the violations show").
* `LeadersCommitMatched` rests on `MedianMatched`: at least half of the servers have
  an index in `match_index` that is not below the median. The median exists
  because there is a least `k` such that more than half of the indexes are at most
  `k` (`MedianExists`); no induction over the set of servers is needed, only
  cardinalities of the two halves. For an odd number of servers half of them is
  a majority; for an even number it is one short of `majority_cnt`, and so is the code
  (line 154).
* The other action properties follow from one step under `TypeOK`.

`OneLeader_proofs` proves, for every set of servers, calls and slots and any number of
failed RPCs, what holds as long as one election timer at most has run out and no
server was killed (`OneElection`). With a second election both statements are false (TLC
finds counterexamples to both with `MaxElections = 2`, for the reason shown by
`raft_read_after_create`), and a killed server loses what it has processed.

| Theorem | States |
|---|---|
| `ResultsOwn` | `[](OneElection => ResultsAreOwn)` |
| `OneOfficeImplementsReplicatedLog` | `[]OneElection => ReplicatedLogSpec` |

The argument. The inductive invariant `OneLeader` names the one server `L` that has
stood or will stand: all others are followers with no expired timer (`Alone`), all
calls and replies under way belong to it (`MessagesOf`), and before it stands nothing
has happened (`Untouched`). `LedBy` is what that gives: each server's log is a beginning
of `L`'s log and what it has applied is that log up to its `commit_index`; each request
carries a piece of `L`'s log and a `leader_commit` that this piece reaches; each call
that waits or was answered has its own entry in `L`'s log. `commit_index` may lie behind
the end of a follower's log, because a late request cuts the log (line 300), but then
what was applied is still `L`'s. `LeaderStep` says that `L` only appends and only commits
forward, `FollowerStep` that a follower stays one, whichever request it serves, and
`SentSteps` and `ServedSteps` where messages, waiting calls and answers come from.
For the refinement a step in which a `commit_index` grows is `Process`, a waiter that
returns is `Answer`, all else stutters. In passing, the proof shows that `commit_index`
never moves back in one office.

`StateMachine_proofs` proves, for any keys, values, readers and bounds, from
`NoneAssumption` and `BoundsAssumption`:

| Theorem | States |
|---|---|
| `TypeCorrect` | `[]TypeOK` |
| `ResultsSequential` | `[]ResultsAreSequential` |
| `AnswersFinal` | `[]AnswersAreFinal` |
| `NobodySleeps` | `[]NobodySleepsOver` |

The argument. `HandlerEffect` says of all handlers at once when an operation
succeeds and what it leaves. `ResultsAreSequential` speaks of results only; it is
inductive together with `StorageIsWritten`, which says that the dictionary holds
what the last successful write of each key left, and `EarlierWrites`: one more
entry does not change what the earlier ones wrote. `AnswersAreFinal` follows from
`ResultsGrow` (results are only appended), `NobodySleepsOver` from `ReaderSteps`
(a reader falls asleep only when its result is missing, and the call that brings
it notifies all before it lets the lock go).

`Integration_proofs` proves, for every set of workers and every bound, from
`CountsAssumption` (the four numbers are naturals):

| Theorem | States |
|---|---|
| `TypeCorrect` | `[]TypeOK` |
| `ImplementsTaskFarm` | `FarmSpec`: the master implements `TaskFarm` |
| `NoneIdle` | `[]NoIdleWhilePending` |
| `HeldOnce` | `[]TasksHeldOnce` |
| `NoWorkRepeated` | `[]WorkIsExpected` |

The argument. `TypeOK` is inductive together with `ConnectedWorkers` (a worker
that receives or computes has a socket): without it a worker could write to
connection 0. `ProcessBadSocketType`, `ProcessBadSocketSums` and `ProcessBadSocketIdle` say
once what the mutual recursion behind `ProcessBadSocket` preserves, and every
branch that ends in it cites them. For the refinement, `SumsAgree` says that the flags
(`task_is_finished`), the counts (`result`) and the separate counter
(`finished_tasks`) agree; so the loop ends exactly when each task has been added
once, and only `ReceiveEvent` and `Return` are steps of `TaskFarm`, all others
stutter. `NoIdleWhilePending` is inductive with `TypeOK`: each of the four ways
into one of the lists looks at the other list first.

`TasksHeldOnce` and `WorkIsExpected` need each other, and more: `WorkInv`. Its parts say
that queue and sockets together hold each unfinished task once (`HeldInv`); that new
and idle sockets hold nothing that is unfinished, and no socket is twice in
`ready_sockets` (`FreeInv`); that a connection carries a task or an answer only if
the master waits for it there (`LinkInv`); and that each worker has a connection of its
own and computes what it received from it (`WorkerInv`). `BadStep` says what one round of
`ProcessBadSocket` does to the lists, and `ProcessBadSocketEffect` what all of them do.
`SendEvent` also needs `NoIdleWhilePending`.

`Session_proofs` proves, for any nodes, clients, operations and bounds, from
`SessionAssumption` (the bounds are naturals) and `NoneAssumption` of `Handlers`:

| Theorem | States |
|---|---|
| `TypeCorrect` | `[]TypeOK` |
| `SeesWhatReturned` | `[]SeesAcknowledged` |
| `OwnAnswers` | `[]AnswersAreOwn` |
| `CopiesBounded` | `[]CopiesAreBounded` |

The argument. The inductive form is `SessionInv`: a position that was answered has
been committed, and a new office never takes it back; an entry stands behind
everything that was acknowledged before its call began; and what a thread whose node
kept its office waits for stays in its place. `SeesAcknowledged` is the second part
for threads that have returned, `AnswersAreOwn` the third. Both rest on `Elect`, which
keeps what is committed: they say what clients and routes make of Raft's promises.

`CopiesAreBounded` does not look at what is committed. Its inductive form `CopyInv`
counts with the entries of a call in the log also the threads that may still append
one: together they are bounded by the failed requests and the offices so far, or by the
failed requests and one before the first office (`CountInv`). A redirect replaces a
thread by another one, a failure leaves one behind and pays for it, and the repetition
of a request that could not be answered is paid for by the office that came after the
one in which its entry was appended.

That `StoreAfter` (a recursive function over the log) gives a store in every case is an
induction over naturals, done by least counterexample with `NaturalLemmas`.

`Connection_proofs` proves, for objects of every size and any number of tasks, from
`SizeAssumption` (an object has at least one byte):

| Theorem | States |
|---|---|
| `TypeCorrect` | `[]TypeOK` |
| `PolledStored` | `[]PolledIsStored` |
| `WokenByType` | `[]WokenByItsType` |
| `ThrowsOnlyWhenStale` | `[]FailsOnlyWhenStale` |
| `ObjectsInPlace` | `[]BytesInPlace` |

The argument. The Event has an inductive invariant of its own, `EventInv`: it is in
the poller with both filters, that of its type enabled, or with none (`Kept`).
`AddedTwice`, `TurnKeeps` and `ForgetKeeps` say that the sequences of calls the master
makes lead from one to the other, whichever of them throws; `PolledIsStored` and
`WokenByItsType` follow. The other three need `ConnectionInv`. It says that each
direction is between two objects (`Done`) or carries exactly the bytes of one that were
sent and not received (`Flight`), and, in `WorkerInv` and `MasterInv`, who may be at
work then: a response is under way only after its task was received whole, and no
connection that waits for a task has anything on the wire. Without the last part an
error could delete an Event that `ready_sockets_` still holds, and the next task would
make the poller throw on a connection that was never closed (`StaleInv`). The buffer
stays in its place because `Offset` is 0 in the first read of an object and behind the
array in all others (`ReceiveFromEffect`).

What is only model-checked:

* `RaftNode`: `CallsAreAnswered` and `ElectionsEnd`.
* `Integration`: `IntegrateReturns`. `Session`: `CallsReturn`. `StateMachine`:
  `ReadersReturn`. `Connection`: `MasterComesBack` and `SentIsReceived`.

Liveness under fairness is out of the prover's reach and stays with TLC.

## Plan

The order so far follows what carries the programs' own logic: `RaftNode`, `Integration`
with `TaskFarm`, `StateMachine` and `Session` on top of `Handlers`, then what holds
them together: `ReplicatedLog` as what `RaftNode` promises to the layer above,
`Connection` below `Integration`.

Every invariant, every action property and every refinement that a passing run checks
is also a theorem, three of them under the condition that makes them true (see
`RequestsFromTheLog`, `ResultsOwn`, `OneOfficeImplementsReplicatedLog`). What is left
to TLC is liveness.

## Not modelled, and why

* Durations: timers may fire at any time they are armed; the properties do not
  depend on 50 ms against 300 ms.
* A server that is suspended and resumed (`test_suspend_server`): it is a node that takes no step
  for a while, which every run of `RaftNode` allows, and calls to it that time
  out, within `MaxFailures`.
* The integral itself and everything floating-point, so the content of a response.
* In cppnet: the transfers of strings and `Clone`, which no program of the
  repository calls, and the wrappers of one system call.
* Addresses, interfaces, multicast groups, `time.h`: conversions without state,
  and wrappers of system calls.
* Generated gRPC code: the messages and calls are in `RaftNode`, what protoc makes
  of them is the library's.
* Build files, scripts, console loops, logging.
* The thread pools' sizes (ten gRPC threads, Flask's threads): no servicer waits
  for anything but the node's lock.
