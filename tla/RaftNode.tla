------------------------------ MODULE RaftNode ------------------------------
(***************************************************************************)
(* The Raft cluster of tasks/raft/raft_node.py: every RaftNode with its    *)
(* state, its two timers, the threads that run start_election,             *)
(* request_vote, piggyback_heartbeat, append_entries and replicate_entry,  *)
(* the gRPC calls between the nodes, and the death and restart of a server *)
(* process.                                                                *)
(*                                                                         *)
(* The unit of atomicity is the code's own: one "with self.lock" block is  *)
(* one action.  Between two blocks of one thread any other thread runs.    *)
(* A record of `node' holds the fields of one RaftNode object, under their *)
(* names in the source; operators on such a record are the unlocked        *)
(* helper methods.                                                         *)
(*                                                                         *)
(* The entry log[0], an InitOperation of term 0 which is the same in every *)
(* log and never leaves it, is left out: log[i] below is self.log[i] for   *)
(* i >= 1, and Len(log) is len(self.log) - 1.  Durations are abstracted    *)
(* to order: a timer that is armed may expire at any later moment, and an  *)
(* RPC may time out at any moment before its reply is used.                *)
(***************************************************************************)
EXTENDS Integers, Sequences, FiniteSets

CONSTANTS Node,         \* the servers, range(nodes.nodes_cnt)
          None,         \* voted_for = None, current_leader = -1
          Op,           \* the calls of replicate_entry clients make, each once
          Read,         \* those of them that carry a ReadOperation
          Slot,         \* bound: piggyback_heartbeat threads of a node at once
          MaxElections, \* bound: expired election timers
          MaxFailures,  \* bound: RPCs between live nodes that fail
          MaxCrashes    \* bound: process deaths

ASSUME ConstantsAssumption ==
  /\ IsFiniteSet(Node)
  /\ None \notin Node
  /\ Read \subseteq Op
  /\ {MaxElections, MaxFailures, MaxCrashes} \subseteq Nat

VARIABLES
  node,           \* [Node -> RaftState], the fields of each RaftNode
  up,             \* the nodes whose process is running
  fired,          \* per node, expired election timers waiting for self.lock
  elections,      \* start_election threads that collect votes
  rounds,         \* piggyback_heartbeat threads
  voteRequests,   \* RequestVote calls not handled yet
  voteReplies,    \* and their answers not used yet
  appendRequests, \* AppendEntries calls not handled yet
  appendReplies,  \* and their answers not used yet
  calls,          \* the members of Op no client has issued yet
  waiters,        \* replicate_entry threads waiting for their entry
  answers,        \* what replicate_entry returned (a history variable)
  spent           \* how much of each bound is used up

threads  == <<fired, elections, rounds>>
network  == <<voteRequests, voteReplies, appendRequests, appendReplies>>
clients  == <<calls, waiters, answers>>
vars     == <<node, up, threads, network, clients, spent>>

-----------------------------------------------------------------------------
(* Types.                                                                  *)

Role  == {"FOLLOWER", "CANDIDATE", "LEADER"}
Entry == [term : Nat, op : Op]

RaftState ==
  [role : Role, current_term : Nat, voted_for : Node \cup {None},
   current_leader : Node \cup {None}, log : Seq(Entry), commit_index : Nat,
   next_index : [Node -> Nat \ {0}], match_index : [Node -> Nat],
   applied : Seq(Entry), election_timer : BOOLEAN, heartbeat_timer : BOOLEAN]

\* A thread that fans out one RPC to every peer: the RPC threads that have
\* not taken the lock yet (spawned), and those inside their call (waiting).
Election == [node : Node, term : Nat, votes : Nat,
             spawned : SUBSET Node, waiting : SUBSET Node]
Round    == [node : Node, slot : Slot,
             spawned : SUBSET Node, waiting : SUBSET Node]

\* `election' and `slot' tie a call to the thread that made it; live says
\* that this thread still waits.
VoteRequest == [from : Node, to : Node, election : Nat, live : BOOLEAN,
                term : Nat, lastLogIndex : Nat, lastLogTerm : Nat]
VoteReply   == [from : Node, to : Node, election : Nat,
                term : Nat, voteGranted : BOOLEAN]
AppendRequest == [from : Node, to : Node, slot : Slot, live : BOOLEAN,
                  term : Nat, prevLogIndex : Nat, prevLogTerm : Nat,
                  entries : Seq(Entry), leaderCommit : Nat]
AppendReply   == [from : Node, to : Node, slot : Slot, matched : Nat,
                  term : Nat, success : BOOLEAN]

\* A thread in replicate_entry; `after' is history: the calls that had been
\* answered when this one was issued.
Waiter == [node : Node, entry_id : Nat, op : Op, after : SUBSET Op,
           awake : BOOLEAN]

\* What a call returned: by answered it, and server is where the result of
\* entry_id is read.
Reply == [op : Op, after : SUBSET Op, by : Node, server : Node, entry_id : Nat]

-----------------------------------------------------------------------------
(* Helpers on one RaftNode.                                                *)

majority_cnt == Cardinality(Node) \div 2 + 1

Others(n) == Node \ {n}

\* self.log[i].term
TermAt(log, i) == IF i = 0 THEN 0 ELSE log[i].term

\* Mutant of get_match_index_median: the index behind the middle one.
get_match_index_median_NextHigher(s) ==
  LET half == Cardinality(Node) \div 2 + 1
  IN CHOOSE m \in {s.match_index[i] : i \in Node} :
       /\ Cardinality({i \in Node : s.match_index[i] < m}) <= half
       /\ Cardinality({i \in Node : s.match_index[i] <= m}) > half

\* sorted(self.match_index)[nodes_cnt // 2]
get_match_index_median(s) ==
  LET half == Cardinality(Node) \div 2
  IN CHOOSE m \in {s.match_index[i] : i \in Node} :
       /\ Cardinality({i \in Node : s.match_index[i] < m}) <= half
       /\ Cardinality({i \in Node : s.match_index[i] <= m}) > half

InitialNode ==
  [role |-> "FOLLOWER", current_term |-> 0, voted_for |-> None,
   current_leader |-> None, log |-> <<>>, commit_index |-> 0,
   next_index |-> [i \in Node |-> 1], match_index |-> [i \in Node |-> 0],
   applied |-> <<>>, election_timer |-> TRUE, heartbeat_timer |-> FALSE]

\* Each timer method cancels the timer it replaces, which does nothing to
\* one that has expired, and starts the new one.
reset_heartbeat_timer(s) == [s EXCEPT !.heartbeat_timer = TRUE]
schedule_heartbeat(s)    == [s EXCEPT !.heartbeat_timer = TRUE]

\* Mutant of reset_election_timer: the timer is cancelled, not started.
reset_election_timer_Cancels(s) == [s EXCEPT !.election_timer = FALSE]

reset_election_timer(s)  == [s EXCEPT !.election_timer = TRUE]

\* Mutant of become_leader: match_index is not set, and the timer not started.
become_leader_Unprepared(s, n) ==
  [s EXCEPT !.election_timer = FALSE, !.role = "LEADER",
            !.next_index = [i \in Node |-> Len(s.log) + 1]]

become_leader(s, n) ==
  schedule_heartbeat(
    [s EXCEPT !.election_timer = FALSE,
              !.role = "LEADER",
              !.next_index = [i \in Node |-> Len(s.log) + 1],
              !.match_index = [i \in Node |-> IF i = n THEN Len(s.log) ELSE 0]])

\* Mutant of downgrade_to_follower: the role is left as it is.
downgrade_to_follower_KeepsRole(s, term) ==
  reset_election_timer([s EXCEPT !.current_term = term, !.voted_for = None])

downgrade_to_follower(s, term) ==
  reset_election_timer(
    [s EXCEPT !.heartbeat_timer = FALSE,
              !.current_leader = None,
              !.current_term = term,
              !.voted_for = None,
              !.role = "FOLLOWER"])

\* Mutant of RefusesTerm: calls of older terms are served.
RefusesTerm_Never(s, term) == FALSE

\* The servicer returns at once when the term of a call is behind its own.
RefusesTerm(s, term) == s.current_term > term

\* Mutant of StepsDown: any other term, an older one too.
StepsDown_AnyOtherTerm(s, m) == m.term # s.current_term

\* A reply of a newer term than its own makes the caller a follower.
StepsDown(s, m) == m.term > s.current_term

\* Mutant of CommitUpTo: the last entry is left out of the slice.
CommitUpTo_SliceOneShort(s, index) ==
  LET end == IF index <= Len(s.log) THEN index ELSE Len(s.log)
  IN [s EXCEPT !.applied = @ \o SubSeq(s.log, s.commit_index + 1, end - 1),
               !.commit_index = index]

\* process_new_entries on log[commit_index + 1 : index + 1], a slice that
\* ends with the log, then commit_index = index.
CommitUpTo(s, index) ==
  LET end == IF index <= Len(s.log) THEN index ELSE Len(s.log)
  IN [s EXCEPT !.applied = @ \o SubSeq(s.log, s.commit_index + 1, end),
               !.commit_index = index]

\* Mutant of NotifyAll: the threads that wait are not notified.
NotifyAll_Nobody(n) == waiters

\* self.lock.notify_all()
NotifyAll(n) == {[w EXCEPT !.awake = (@ \/ w.node = n)] : w \in waiters}

\* Calls to a dead process fail for free.
CountFailure(to) ==
  IF to \in up
  THEN /\ spent.failures < MaxFailures
       /\ spent' = [spent EXCEPT !.failures = @ + 1]
  ELSE UNCHANGED spent

-----------------------------------------------------------------------------
Init ==
  /\ node = [n \in Node |-> InitialNode]
  /\ up = Node
  /\ fired = [n \in Node |-> 0]
  /\ elections = {} /\ rounds = {}
  /\ voteRequests = {} /\ voteReplies = {}
  /\ appendRequests = {} /\ appendReplies = {}
  /\ calls = Op /\ waiters = {} /\ answers = {}
  /\ spent = [elections |-> 0, failures |-> 0, crashes |-> 0]

Replace(set, old, new) == (set \ {old}) \cup {new}

-----------------------------------------------------------------------------
(* Elections.                                                              *)

\* The Timer thread of election_timer runs out; from here on cancelling it
\* has no effect, and start_election asks for self.lock.
ElectionTimeout(n) ==
  /\ n \in up
  /\ node[n].election_timer
  /\ spent.elections < MaxElections
  /\ spent' = [spent EXCEPT !.elections = @ + 1]
  /\ node' = [node EXCEPT ![n].election_timer = FALSE]
  /\ fired' = [fired EXCEPT ![n] = @ + 1]
  /\ UNCHANGED <<up, elections, rounds, network, clients>>

\* The first locked block of start_election, and the threads it submits.
start_election(n) ==
  LET s == [node[n] EXCEPT !.role = "CANDIDATE", !.current_term = @ + 1,
                           !.voted_for = n, !.current_leader = None]
  IN /\ fired[n] > 0
     /\ node' = [node EXCEPT ![n] = s]
     /\ fired' = [fired EXCEPT ![n] = @ - 1]
     /\ elections' = elections \cup
          {[node |-> n, term |-> s.current_term, votes |-> 1,
            spawned |-> Others(n), waiting |-> {}]}
     /\ UNCHANGED <<up, rounds, network, clients, spent>>

\* request_vote, first locked block: the request carries the term and the
\* log of this moment, whatever start_election saw.
SendRequestVote(e, i) ==
  LET s == node[e.node]
  IN /\ i \in e.spawned
     /\ elections' = Replace(elections, e,
          [e EXCEPT !.spawned = @ \ {i}, !.waiting = @ \cup {i}])
     /\ voteRequests' = voteRequests \cup
          {[from |-> e.node, to |-> i, election |-> e.term, live |-> TRUE,
            term |-> s.current_term, lastLogIndex |-> Len(s.log),
            lastLogTerm |-> TermAt(s.log, Len(s.log))]}
     /\ UNCHANGED <<node, up, fired, rounds, voteReplies, appendRequests,
                    appendReplies, clients, spent>>

\* Mutant of VoteGranted: the comparison of the logs alone wins a vote.
VoteGranted_LogAlone(s, r) ==
  \/ s.voted_for = None
  \/ TermAt(s.log, Len(s.log)) < r.lastLogTerm
  \/ /\ TermAt(s.log, Len(s.log)) = r.lastLogTerm
     /\ Len(s.log) <= r.lastLogIndex

\* The vote the servicer gives.  "or" binds weaker than "and": a node that
\* has not voted does not look at the candidate's log.
VoteGranted(s, r) ==
  \/ s.voted_for = None
  \/ /\ s.voted_for = r.from
     /\ \/ TermAt(s.log, Len(s.log)) < r.lastLogTerm
        \/ /\ TermAt(s.log, Len(s.log)) = r.lastLogTerm
           /\ Len(s.log) <= r.lastLogIndex

\* The RequestVote servicer on a node with state s: its state afterwards,
\* and the vote.
AfterRequestVote(s, r) ==
  LET s1 == IF r.term > s.current_term
            THEN downgrade_to_follower(s, r.term) ELSE s
      granted == ~RefusesTerm(s, r.term) /\ VoteGranted(s1, r)
  IN [state   |-> IF granted
                  THEN reset_election_timer([s1 EXCEPT !.voted_for = r.from])
                  ELSE s1,
      granted |-> granted]

RequestVote(r) ==
  LET s == node[r.to]
      after == AfterRequestVote(s, r)
  IN /\ r.to \in up
     /\ node' = [node EXCEPT ![r.to] = after.state]
     /\ voteRequests' = voteRequests \ {r}
     /\ voteReplies' =
          IF r.live
          THEN voteReplies \cup
                 {[from |-> r.from, to |-> r.to, election |-> r.election,
                   term |-> s.current_term, voteGranted |-> after.granted]}
          ELSE voteReplies
     /\ UNCHANGED <<up, threads, appendRequests, appendReplies, clients, spent>>

\* request_vote, second locked block.  A newer term makes the node a
\* follower of its own, unchanged term; the vote counts all the same.
HandleRequestVoteReply(e, m) ==
  LET s == node[e.node]
  IN /\ m.from = e.node /\ m.election = e.term
     /\ node' = [node EXCEPT ![e.node] =
          IF StepsDown(s, m)
          THEN downgrade_to_follower(s, s.current_term) ELSE s]
     /\ elections' = Replace(elections, e,
          [e EXCEPT !.waiting = @ \ {m.to},
                    !.votes = IF m.voteGranted THEN @ + 1 ELSE @])
     /\ voteReplies' = voteReplies \ {m}
     /\ UNCHANGED <<up, fired, rounds, voteRequests, appendRequests,
                    appendReplies, clients, spent>>

\* The call ends in an RpcError: refused, or past its 50 ms.  Its request
\* may be lost, or still be handled later; its reply is lost.
RequestVoteFails(e, i) ==
  LET mine(m) == m.from = e.node /\ m.to = i /\ m.election = e.term
      request == {r \in voteRequests : r.live /\ mine(r)}
  IN /\ i \in e.waiting
     /\ CountFailure(i)
     /\ elections' = Replace(elections, e, [e EXCEPT !.waiting = @ \ {i}])
     /\ voteReplies' = {m \in voteReplies : ~mine(m)}
     /\ \/ voteRequests' = voteRequests \ request
        \/ /\ request # {}
           /\ voteRequests' = (voteRequests \ request) \cup
                {[r EXCEPT !.live = FALSE] : r \in request}
     /\ UNCHANGED <<node, up, fired, rounds, appendRequests, appendReplies,
                    clients>>

\* Mutant of HasAllResults: start_election waits for the vote of every peer.
HasAllResults_Votes(e) == e.votes = Cardinality(Node)

\* Every future of the thread pool has its result, or its RpcError.
HasAllResults(e) == e.spawned = {} /\ e.waiting = {}

\* start_election, last locked block, when every future has its result.
FinishElection(e) ==
  LET s == node[e.node]
  IN /\ HasAllResults(e)
     /\ node' = [node EXCEPT ![e.node] =
          IF s.role = "CANDIDATE" /\ e.votes >= majority_cnt
          THEN become_leader(s, e.node) ELSE reset_election_timer(s)]
     /\ elections' = elections \ {e}
     /\ UNCHANGED <<up, fired, rounds, network, clients, spent>>

-----------------------------------------------------------------------------
(* Replication.                                                            *)

\* The heartbeat timer runs out: piggyback_heartbeat starts one
\* append_entries thread per peer, without the lock.
piggyback_heartbeat(n) ==
  /\ n \in up
  /\ node[n].heartbeat_timer
  /\ \E p \in Slot :
       /\ \A t \in rounds : t.node = n => t.slot # p
       /\ rounds' = rounds \cup {[node |-> n, slot |-> p,
                                  spawned |-> Others(n), waiting |-> {}]}
  /\ node' = [node EXCEPT ![n].heartbeat_timer = FALSE]
  /\ UNCHANGED <<up, fired, elections, network, clients, spent>>

\* The term of the entry a request to i continues.
PrevLogTerm(s, i) == TermAt(s.log, s.next_index[i] - 1)

\* append_entries, first locked block.  The thread ends at once on a node
\* that does not lead, and on the IndexError of a next_index past the log.
SendAppendEntries(t, i) ==
  LET s == node[t.node]
      prev == s.next_index[i] - 1
  IN /\ i \in t.spawned
     /\ IF s.role = "LEADER" /\ prev <= Len(s.log)
        THEN /\ rounds' = Replace(rounds, t,
                  [t EXCEPT !.spawned = @ \ {i}, !.waiting = @ \cup {i}])
             /\ appendRequests' = appendRequests \cup
                  {[from |-> t.node, to |-> i, slot |-> t.slot, live |-> TRUE,
                    term |-> s.current_term,
                    prevLogIndex |-> prev, prevLogTerm |-> PrevLogTerm(s, i),
                    entries |-> SubSeq(s.log, prev + 1, Len(s.log)),
                    leaderCommit |-> s.commit_index]}
        ELSE /\ rounds' = Replace(rounds, t, [t EXCEPT !.spawned = @ \ {i}])
             /\ UNCHANGED appendRequests
     /\ UNCHANGED <<node, up, fired, elections, voteRequests, voteReplies,
                    appendReplies, clients, spent>>

\* Mutant of FollowLeader: only a leader steps down.
FollowLeader_CandidatesStay(s, r) ==
  LET s1 == IF s.role = "LEADER" THEN downgrade_to_follower(s, r.term) ELSE s
  IN reset_election_timer([s1 EXCEPT !.current_term = r.term,
                                     !.current_leader = r.from])

\* AppendEntries of a term that is not refused makes a follower of anybody.
FollowLeader(s, r) ==
  LET s1 == IF s.role # "FOLLOWER" THEN downgrade_to_follower(s, r.term) ELSE s
  IN reset_election_timer([s1 EXCEPT !.current_term = r.term,
                                     !.current_leader = r.from])

\* Mutant of StoreEntries: the log is not cut first.
StoreEntries_Append(s, r) == [s EXCEPT !.log = @ \o r.entries]

\* The comparison of a term with a whole LogEntry is always unequal: the log
\* is cut behind prevLogIndex and replaced whenever there is an entry.
StoreEntries(s, r) ==
  IF r.entries = <<>> THEN s
  ELSE [s EXCEPT !.log = SubSeq(@, 1, r.prevLogIndex) \o r.entries]

LastIndex(r) == r.prevLogIndex + Len(r.entries)

\* The AppendEntries servicer on a node with state s: its state afterwards,
\* and the success it reports.
AfterAppendEntries(s, r) ==
  LET follower == FollowLeader(s, r)
      stored == StoreEntries(follower, r)
      commit == IF r.leaderCommit < LastIndex(r)
                THEN r.leaderCommit ELSE LastIndex(r)
  IN IF RefusesTerm(s, r.term)
     THEN [state |-> s, success |-> FALSE]
     ELSE IF r.prevLogIndex > Len(s.log)
     THEN [state |-> follower, success |-> FALSE]
     ELSE IF TermAt(s.log, r.prevLogIndex) # r.prevLogTerm
     THEN [state |-> [follower EXCEPT !.log = SubSeq(@, 1, r.prevLogIndex - 1)],
           success |-> FALSE]
     ELSE [state |-> IF s.commit_index < r.leaderCommit
                     THEN CommitUpTo(stored, commit) ELSE stored,
           success |-> TRUE]

AppendEntries(r) ==
  LET s == node[r.to]
      after == AfterAppendEntries(s, r)
  IN /\ r.to \in up
     /\ node' = [node EXCEPT ![r.to] = after.state]
     /\ appendRequests' = appendRequests \ {r}
     /\ appendReplies' =
          IF r.live
          THEN appendReplies \cup
                 {[from |-> r.from, to |-> r.to, slot |-> r.slot,
                   matched |-> LastIndex(r),
                   term |-> s.current_term, success |-> after.success]}
          ELSE appendReplies
     /\ waiters' = IF after.success /\ s.commit_index < r.leaderCommit
                   THEN NotifyAll(r.to) ELSE waiters
     /\ UNCHANGED <<up, threads, voteRequests, voteReplies, calls, answers,
                    spent>>

\* Mutant of DecrementNext: without the test of 1.
DecrementNext_NoFloor(s, i) == [s EXCEPT !.next_index[i] = @ - 1]

DecrementNext(s, i) == [s EXCEPT !.next_index[i] = IF @ # 1 THEN @ - 1 ELSE @]

\* append_entries, second locked block: its state afterwards.  Neither the
\* role nor the term of the call is looked at again.  The IndexError of a
\* median past the log ends the thread where the guard is false here.
AfterAppendReply(s, m) ==
  LET s1 == [s EXCEPT !.match_index[m.to] = m.matched,
                      !.next_index[m.to] = m.matched + 1]
      median == get_match_index_median(s1)
  IN IF StepsDown(s, m) THEN downgrade_to_follower(s, m.term)
     ELSE IF ~m.success THEN DecrementNext(s, m.to)
     ELSE IF /\ median \in (s.commit_index + 1)..Len(s.log)
             /\ s.log[median].term = s.current_term
     THEN CommitUpTo(s1, median) ELSE s1

HandleAppendReply(t, m) ==
  LET s == node[t.node]
      after == AfterAppendReply(s, m)
  IN /\ m.from = t.node /\ m.slot = t.slot
     /\ node' = [node EXCEPT ![t.node] = after]
     /\ rounds' = Replace(rounds, t, [t EXCEPT !.waiting = @ \ {m.to}])
     /\ appendReplies' = appendReplies \ {m}
     /\ waiters' = IF after.commit_index # s.commit_index
                   THEN NotifyAll(t.node) ELSE waiters
     /\ UNCHANGED <<up, fired, elections, voteRequests, voteReplies,
                    appendRequests, calls, answers, spent>>

\* The RpcError of an AppendEntries call, as in RequestVoteFails.
AppendEntriesFails(t, i) ==
  LET mine(m) == m.from = t.node /\ m.to = i /\ m.slot = t.slot
      request == {r \in appendRequests : r.live /\ mine(r)}
  IN /\ i \in t.waiting
     /\ CountFailure(i)
     /\ rounds' = Replace(rounds, t, [t EXCEPT !.waiting = @ \ {i}])
     /\ appendReplies' = {m \in appendReplies : ~mine(m)}
     /\ \/ appendRequests' = appendRequests \ request
        \/ /\ request # {}
           /\ appendRequests' = (appendRequests \ request) \cup
                {[r EXCEPT !.live = FALSE] : r \in request}
     /\ UNCHANGED <<node, up, fired, elections, voteRequests, voteReplies,
                    clients>>

\* piggyback_heartbeat after its joins.
FinishRound(t) ==
  LET s == node[t.node]
  IN /\ t.spawned = {} /\ t.waiting = {}
     /\ node' = [node EXCEPT ![t.node] =
          IF s.role = "LEADER" THEN reset_heartbeat_timer(s) ELSE s]
     /\ rounds' = rounds \ {t}
     /\ UNCHANGED <<up, fired, elections, network, clients, spent>>

-----------------------------------------------------------------------------
(* Clients.                                                                *)

\* What replicate_entry returns, on node n, for the entry at index k: a read
\* names a peer that holds the entry (the first by number; any of them here,
\* for the servers are interchangeable), anything else the result of the k-th
\* operation applied here.
Holders(n, k) == {i \in Others(n) : node[n].match_index[i] >= k}

Answer(n, w) ==
  {[op |-> w.op, after |-> w.after, by |-> n, server |-> i,
    entry_id |-> w.entry_id] :
     i \in IF w.op \in Read /\ Holders(n, w.entry_id) # {}
           THEN Holders(n, w.entry_id) ELSE {n}}

\* replicate_entry up to its first wait, on a leader.  Elsewhere it returns
\* a redirect and changes nothing.  The entry is new, so the thread waits,
\* unless commit_index is past the end of the log.
replicate_entry(n, op) ==
  LET s == node[n]
      w == [node |-> n, entry_id |-> Len(s.log) + 1, op |-> op,
            after |-> {a.op : a \in answers}, awake |-> FALSE]
  IN /\ n \in up /\ op \in calls
     /\ s.role = "LEADER"
     /\ node' = [node EXCEPT ![n] = schedule_heartbeat(
          [s EXCEPT !.log = Append(@, [term |-> s.current_term, op |-> op]),
                    !.match_index[n] = w.entry_id])]
     /\ calls' = calls \ {op}
     /\ IF s.commit_index < w.entry_id
        THEN waiters' = waiters \cup {w} /\ UNCHANGED answers
        ELSE /\ \E a \in Answer(n, w) : answers' = answers \cup {a}
             /\ UNCHANGED waiters
     /\ UNCHANGED <<up, threads, network, spent>>

\* A notified thread tests its condition again: it goes back to sleep, or
\* returns.
WaiterWakes(w) ==
  LET s == node[w.node]
  IN /\ w.awake
     /\ IF s.commit_index < w.entry_id \/ s.role # "LEADER"
        THEN /\ waiters' = Replace(waiters, w, [w EXCEPT !.awake = FALSE])
             /\ UNCHANGED answers
        ELSE /\ waiters' = waiters \ {w}
             /\ \E a \in Answer(w.node, w) : answers' = answers \cup {a}
     /\ UNCHANGED <<node, up, threads, network, calls, spent>>

-----------------------------------------------------------------------------
(* Processes.                                                              *)

\* SIGKILL: the memory and the threads of a server are gone.  Calls it has
\* made may still be handled by their servers.
Crash(n) ==
  /\ n \in up /\ spent.crashes < MaxCrashes
  /\ spent' = [spent EXCEPT !.crashes = @ + 1]
  /\ up' = up \ {n}
  /\ node' = [node EXCEPT ![n] = InitialNode]
  /\ fired' = [fired EXCEPT ![n] = 0]
  /\ elections' = {e \in elections : e.node # n}
  /\ rounds' = {t \in rounds : t.node # n}
  /\ voteReplies' = {m \in voteReplies : m.from # n}
  /\ appendReplies' = {m \in appendReplies : m.from # n}
  /\ waiters' = {w \in waiters : w.node # n}
  /\ LET votes == {r \in voteRequests : r.from = n /\ r.live}
         appends == {r \in appendRequests : r.from = n /\ r.live}
     IN \E late \in SUBSET (votes \cup appends) :
          /\ voteRequests' = (voteRequests \ votes) \cup
               {[r EXCEPT !.live = FALSE] : r \in late \cap votes}
          /\ appendRequests' = (appendRequests \ appends) \cup
               {[r EXCEPT !.live = FALSE] : r \in late \cap appends}
  /\ UNCHANGED <<calls, answers>>

\* A new process with the initial state: nothing is read from disk.
Restart(n) ==
  /\ n \notin up
  /\ up' = up \cup {n}
  /\ UNCHANGED <<node, threads, network, clients, spent>>

-----------------------------------------------------------------------------
Elect ==
  \/ \E n \in Node : ElectionTimeout(n) \/ start_election(n)
  \/ \E e \in elections :
       \/ \E i \in Node : SendRequestVote(e, i) \/ RequestVoteFails(e, i)
       \/ \E m \in voteReplies : HandleRequestVoteReply(e, m)
       \/ FinishElection(e)
  \/ \E r \in voteRequests : RequestVote(r)

Replicate ==
  \/ \E n \in Node : piggyback_heartbeat(n)
  \/ \E t \in rounds :
       \/ \E i \in Node : SendAppendEntries(t, i) \/ AppendEntriesFails(t, i)
       \/ \E m \in appendReplies : HandleAppendReply(t, m)
       \/ FinishRound(t)
  \/ \E r \in appendRequests : AppendEntries(r)

Serve ==
  \/ \E n \in Node, op \in Op : replicate_entry(n, op)
  \/ \E w \in waiters : WaiterWakes(w)

Fail == \E n \in Node : Crash(n) \/ Restart(n)

Next == Elect \/ Replicate \/ Serve \/ Fail

Spec == Init /\ [][Next]_vars

-----------------------------------------------------------------------------
(* Properties.                                                             *)

\* Every variable has its type.  Of the indexes this asks more than the code
\* declares: next_index stays above 0, for log[next_index - 1] of an index 0
\* would read the end of the list, and commit_index never goes negative.
TypeOK ==
  /\ node \in [Node -> RaftState]
  /\ up \subseteq Node
  /\ fired \in [Node -> Nat]
  /\ elections \subseteq Election
  /\ rounds \subseteq Round
  /\ voteRequests \subseteq VoteRequest
  /\ voteReplies \subseteq VoteReply
  /\ appendRequests \subseteq AppendRequest
  /\ appendReplies \subseteq AppendReply
  /\ calls \subseteq Op
  /\ waiters \subseteq Waiter
  /\ answers \subseteq Reply
  /\ spent \in [elections : Nat, failures : Nat, crashes : Nat]

Leads(n) == node[n].role = "LEADER"

\* Reply under the lock: replicate_entry calls get_operation_result while it
\* holds self.lock, and only a holder of self.lock applies entries.  If an
\* entry could be committed before its result exists, that call would wait
\* for ever and the server with it.  Every committed index has a result, also
\* where a second leader has overwritten committed entries and where a deposed
\* leader commits what a stale reply brings.
ResultsCoverCommits ==
  \A n \in Node : node[n].commit_index <= Len(node[n].applied)

\* No server is left without a way to the next election: the timers that
\* start_election, become_leader, downgrade_to_follower and both servicers
\* cancel and start never leave a running node that does not lead with
\* neither an armed timer nor a start_election thread that will arm one.
ElectionKeepsComing ==
  \A n \in up : ~Leads(n) =>
    \/ node[n].election_timer
    \/ fired[n] > 0
    \/ \E e \in elections : e.node = n

\* A leader always has its next heartbeat ahead of it: its timer runs, or a
\* piggyback_heartbeat thread will start it again, in whatever order steps
\* down, re-elections and unfinished rounds follow each other.
LeaderKeepsBeating ==
  \A n \in Node : Leads(n) =>
    \/ node[n].heartbeat_timer
    \/ \E t \in rounds : t.node = n

\* A node that stands or leads holds its own vote and knows no leader, so it
\* gives no other candidate of its term a vote and no client a redirect to
\* somebody else, although several start_election threads of a node overlap.
CandidatesHoldTheirVote ==
  \A n \in Node : node[n].role # "FOLLOWER" =>
    node[n].voted_for = n /\ node[n].current_leader = None

\* The terms in a log never decrease from one entry to the next and never
\* exceed the node's own term, which the servicer of AppendEntries keeps
\* although it accepts any log behind a matching prevLogTerm.
LogTermsOrdered ==
  \A n \in Node :
    LET log == node[n].log IN
      /\ \A i, j \in DOMAIN log : i <= j => log[i].term <= log[j].term
      /\ \A i \in DOMAIN log : log[i].term <= node[n].current_term

\* A leader counts its whole log as its own match: the median that decides a
\* commit never rests on an outdated entry of the leader itself.
LeaderMatchesItself ==
  \A n \in Node : Leads(n) => node[n].match_index[n] = Len(node[n].log)

\* As long as the leader that sent it is in office, an AppendEntries request
\* on its way (late ones too) is a piece of that leader's present log: what a
\* follower stores under a matching prevLogTerm is what the leader has.  This
\* is a promise of servers that are not killed: a new process starts in term 0
\* and may come to lead the term of its predecessor's requests.
RequestsComeFromTheLog ==
  \A r \in appendRequests :
    LET s == node[r.from] IN
      s.role = "LEADER" /\ s.current_term = r.term =>
        /\ r.prevLogIndex + Len(r.entries) <= Len(s.log)
        /\ r.prevLogTerm = TermAt(s.log, r.prevLogIndex)
        /\ \A i \in DOMAIN r.entries : r.entries[i] = s.log[r.prevLogIndex + i]
        /\ r.leaderCommit <= s.commit_index

\* A leader's commit_index moves forward only, to an entry of its own term
\* that at least half of the servers, itself included, have acknowledged: with
\* an odd number of servers a majority.  Replies that are late, or answer
\* requests of an earlier term, may move match_index both ways meanwhile.
LeadersCommitWhatIsMatched ==
  [][\A n \in Node :
       Leads(n) /\ Leads(n)' /\ node'[n].commit_index # node[n].commit_index =>
         LET index == node'[n].commit_index
             matched == {i \in Node : node'[n].match_index[i] >= index}
         IN /\ index > node[n].commit_index
            /\ index \in DOMAIN node[n].log
            /\ node[n].log[index].term = node[n].current_term
            /\ 2 * Cardinality(matched) >= Cardinality(Node)]_vars

\* A leader never shortens or rewrites its own log: a step that cuts it is
\* the step that ends its leadership.
LeaderAppendOnly ==
  [][\A n \in Node : Leads(n) /\ Leads(n)' =>
       /\ Len(node[n].log) <= Len(node'[n].log)
       /\ \A i \in DOMAIN node[n].log : node'[n].log[i] = node[n].log[i]]_vars

\* Within a term a vote is withdrawn before it is given to somebody else:
\* voted_for passes from one node straight to another only into a newer term.
VotesAreNotTransferred ==
  [][\A n \in Node :
       node[n].voted_for # None
       /\ node'[n].voted_for \notin {None, node[n].voted_for} =>
         node'[n].current_term > node[n].current_term]_vars

\* A running node never falls back to an older term, whichever of the stale
\* replies and late requests it handles; only a new process starts at 0.
TermsNeverDecrease ==
  [][\A n \in up \cap up' :
       node[n].current_term <= node'[n].current_term]_vars

\* What tests.py asserts of every server failure it stages: a key whose
\* create has returned is found by a read issued afterwards.  The read's
\* answer is the state of one server after the read's own entry; the calls
\* answered before must be among the operations applied there.
ReadsSeeEarlierCalls ==
  \A a \in answers :
    Len(node[a.server].applied) >= a.entry_id =>
      \A op \in a.after :
        \E i \in 1..a.entry_id : node[a.server].applied[i].op = op

\* What test_simple asserts of client.read, which takes node_id out of the
\* reply: a read is answered with the name of a follower that holds it.
ReadsNameAFollower == \A a \in answers : a.op \in Read => a.server # a.by

\* The position a call was answered with holds that call wherever its result
\* is read, at once or when the server gets there: get_operation_result of the
\* state machine knows a call by its position only.
ResultsAreOwn ==
  \A a \in answers :
    LET applied == node[a.server].applied
    IN Len(applied) >= a.entry_id => applied[a.entry_id].op = a.op

\* What the calls see of the servers is a replicated log.  Two leaders are one
\* too many for it (ReadsSeeEarlierCalls); with one, overlapping rounds, stale
\* replies and followers' logs that late requests cut do no harm.
Contract == INSTANCE ReplicatedLog WITH
  Replica <- Node, Command <- Op,
  processed <- [n \in Node |->
    [i \in DOMAIN node[n].applied |-> node[n].applied[i].op]],
  answered <- {[command |-> a.op, position |-> a.entry_id] : a \in answers}

ReplicatedLogSpec == Contract!Spec

-----------------------------------------------------------------------------
(* Liveness.                                                               *)

\* Timers run out, threads are scheduled, the servers answer the calls that
\* reach them, and a call to a dead server fails.  MaxFailures bounds the
\* calls that fail between living servers: after that the network delivers.
Fairness ==
  /\ \A n \in Node :
       /\ WF_vars(start_election(n))
       /\ WF_vars(piggyback_heartbeat(n))
       /\ WF_vars(\E e \in elections : e.node = n /\ FinishElection(e))
       /\ \A p \in Slot : WF_vars(\E t \in rounds :
            t.node = n /\ t.slot = p /\ FinishRound(t))
  /\ \A n, i \in Node :
       /\ WF_vars(\E e \in elections : e.node = n /\ SendRequestVote(e, i))
       /\ WF_vars(\E e \in elections :
            e.node = n /\ i \notin up /\ RequestVoteFails(e, i))
       /\ WF_vars(\E r \in voteRequests :
            r.from = n /\ r.to = i /\ RequestVote(r))
       /\ WF_vars(\E e \in elections, m \in voteReplies :
            e.node = n /\ m.to = i /\ HandleRequestVoteReply(e, m))
       /\ \A p \in Slot :
            /\ WF_vars(\E t \in rounds :
                 t.node = n /\ t.slot = p /\ SendAppendEntries(t, i))
            /\ WF_vars(\E t \in rounds :
                 /\ t.node = n /\ t.slot = p /\ i \notin up
                 /\ AppendEntriesFails(t, i))
            /\ WF_vars(\E r \in appendRequests :
                 r.from = n /\ r.to = i /\ r.slot = p /\ AppendEntries(r))
            /\ WF_vars(\E t \in rounds, m \in appendReplies :
                 /\ t.node = n /\ m.to = i /\ t.slot = p
                 /\ HandleAppendReply(t, m))
  /\ \A op \in Op : WF_vars(\E w \in waiters : w.op = op /\ WaiterWakes(w))

FairSpec == Spec /\ Fairness

\* The call op waits on n for an entry n appended in its present term.
WaitsOn(n, op) ==
  \E w \in waiters :
    /\ w.node = n /\ w.op = op /\ w.entry_id \in DOMAIN node[n].log
    /\ node[n].log[w.entry_id].term = node[n].current_term

\* A call that waits on a leader is answered, or its leader loses office (or
\* dies): checks that fail, dead peers and heartbeats that are handled late
\* only delay it.
CallsAreAnswered ==
  \A n \in Node, op \in Op :
    Leads(n) /\ WaitsOn(n, op) ~> ~Leads(n) \/ ~WaitsOn(n, op)

\* No start_election thread hangs in its thread pool: every election of a
\* node comes to an end, whether its peers answer, fail or are dead.
ElectionsEnd ==
  \A n \in Node :
    (\E e \in elections : e.node = n) ~> (\A e \in elections : e.node # n)

=============================================================================
