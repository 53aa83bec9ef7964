--------------------------- MODULE OneLeader_proofs ---------------------------
(***************************************************************************)
(* Theorems about RaftNode as long as one election timer at most has run   *)
(* out and no server has been killed: with any number of servers, calls,   *)
(* rounds at the same time and failed RPCs, the cluster is a ReplicatedLog *)
(* then.  (A second election is enough to lose an entry, see               *)
(* ReadsSeeEarlierCalls.)                                                  *)
(***************************************************************************)
EXTENDS RaftNode_proofs

USE ConstantsAssumption

-----------------------------------------------------------------------------
(* The invariant.                                                          *)

OneElection == spent.elections <= 1 /\ spent.crashes = 0

\* Nobody but L has stood for election, and all messages belong to L's calls.
Alone(L) ==
  /\ \A n \in Node \ {L} : node[n].role = "FOLLOWER" /\ fired[n] = 0
  /\ \A n \in Node : node[n].current_term <= node[L].current_term
  /\ fired[L] + node[L].current_term <= spent.elections
  /\ node[L].role # "FOLLOWER" => node[L].current_term > 0

MessagesOf(L) ==
  /\ \A e \in elections : e.node = L
  /\ \A m \in voteRequests : m.from = L /\ m.term <= node[L].current_term
  /\ \A m \in voteReplies : m.from = L /\ m.term <= node[L].current_term
  /\ \A m \in appendRequests : m.from = L /\ m.term <= node[L].current_term
  /\ \A m \in appendReplies : m.from = L /\ m.term <= node[L].current_term

\* Before L stands, nothing has happened.
Untouched(L) ==
  node[L].current_term = 0 =>
    /\ elections = {} /\ voteRequests = {} /\ voteReplies = {}
    /\ appendRequests = {} /\ appendReplies = {} /\ node[L].log = <<>>

\* A server whose log is a beginning of the leader's log, and which has
\* applied a beginning of that, up to its commit_index.
Follows(leader, s) ==
  /\ Len(s.log) <= Len(leader.log)
  /\ \A i \in 1..Len(s.log) : s.log[i] = leader.log[i]
  /\ s.commit_index <= leader.commit_index
  /\ Len(s.applied) = s.commit_index
  /\ \A i \in 1..s.commit_index : s.applied[i] = leader.log[i]

\* A request that carries a piece of the leader's log, and no commit that
\* goes beyond what it brings the receiver to.
Carries(leader, r) ==
  /\ LastIndex(r) <= Len(leader.log)
  /\ \A i \in 1..Len(r.entries) : r.entries[i] = leader.log[r.prevLogIndex + i]
  /\ r.leaderCommit <= LastIndex(r)
  /\ r.leaderCommit <= leader.commit_index

\* The entry at index is the call op.
EntryIs(leader, index, op) ==
  index \in 1..Len(leader.log) /\ leader.log[index].op = op

LedBy(L) ==
  /\ node[L].commit_index <= Len(node[L].log)
  /\ \A n \in Node : Follows(node[L], node[n])
  /\ \A r \in appendRequests : Carries(node[L], r)
  /\ \A w \in waiters : w.node = L /\ EntryIs(node[L], w.entry_id, w.op)
  /\ \A a \in answers :
       a.entry_id <= node[L].commit_index /\ EntryIs(node[L], a.entry_id, a.op)

Office(L) == Alone(L) /\ MessagesOf(L) /\ Untouched(L) /\ LedBy(L)

\* The inductive form of ResultsAreOwn, for one election.
OneLeader == OneElection => Node = {} \/ \E L \in Node : Office(L)

-----------------------------------------------------------------------------
(* The steps but those in which an election timer expires, its thread      *)
(* makes the node a candidate, or a process is killed.                     *)

\* How such a step changes the state s of node n to s1.
PlainStep(n, s, s1) ==
  \/ s1 = s
  \/ s1 = [s EXCEPT !.heartbeat_timer = FALSE]
  \/ s1 = reset_election_timer(s)
  \/ s1 = reset_heartbeat_timer(s)
  \/ s.role = "CANDIDATE" /\ s1 = become_leader(s, n)
  \/ s1 = downgrade_to_follower(s, s.current_term)
  \/ \E r \in voteRequests : r.to = n /\ s1 = AfterRequestVote(s, r).state
  \/ \E r \in appendRequests : r.to = n /\ s1 = AfterAppendEntries(s, r).state
  \/ \E m \in appendReplies : m.from = n /\ s1 = AfterAppendReply(s, m)
  \/ s.role = "LEADER" /\ \E op \in Op : s1 = Appended(s, n, op)

Plain ==
  /\ UNCHANGED fired
  /\ spent'.elections = spent.elections /\ spent'.crashes = spent.crashes
  /\ \A n \in Node : PlainStep(n, node[n], node'[n])

LEMMA PlainSteps ==
  ASSUME TypeOK, [Next]_vars
  PROVE  \/ \E n \in Node : ElectionTimeout(n) \/ start_election(n) \/ Crash(n)
         \/ Plain
<1> USE ThreadTypes
<1>0. /\ node \in [Node -> RaftState]
      /\ spent \in [elections : Nat, failures : Nat, crashes : Nat]
  BY DEF TypeOK
<1>1. ASSUME UNCHANGED fired, spent' = spent, NEW k \in Node, NEW s1,
             node' = [node EXCEPT ![k] = s1], PlainStep(k, node[k], s1)
      PROVE  Plain
  BY <1>0, <1>1 DEF Plain, PlainStep
<1>2. ASSUME NEW e \in elections, NEW m \in voteReplies,
             HandleRequestVoteReply(e, m)
      PROVE  Plain
  BY <1>1, <1>2 DEF HandleRequestVoteReply, PlainStep
<1>3. ASSUME NEW e \in elections, FinishElection(e)
      PROVE  Plain
  BY <1>1, <1>3 DEF FinishElection, PlainStep
<1>4. ASSUME NEW r \in voteRequests, RequestVote(r)
      PROVE  Plain
  <2>1. r.to \in Node
    BY DEF TypeOK, VoteRequest
  <2> QED
    BY <1>1, <1>4, <2>1 DEF RequestVote, PlainStep, threads
<1>5. ASSUME NEW n \in Node, piggyback_heartbeat(n)
      PROVE  Plain
  BY <1>1, <1>5 DEF piggyback_heartbeat, PlainStep
<1>6. ASSUME NEW t \in rounds, NEW m \in appendReplies, HandleAppendReply(t, m)
      PROVE  Plain
  BY <1>1, <1>6 DEF HandleAppendReply, PlainStep
<1>7. ASSUME NEW t \in rounds, FinishRound(t)
      PROVE  Plain
  BY <1>1, <1>7 DEF FinishRound, PlainStep
<1>8. ASSUME NEW r \in appendRequests, AppendEntries(r)
      PROVE  Plain
  <2>1. r.to \in Node
    BY DEF TypeOK, AppendRequest
  <2> QED
    BY <1>1, <1>8, <2>1 DEF AppendEntries, PlainStep, threads
<1>9. ASSUME NEW n \in Node, NEW op \in Op, replicate_entry(n, op)
      PROVE  Plain
  <2>1. /\ node[n].role = "LEADER" /\ UNCHANGED fired /\ spent' = spent
        /\ node' = [node EXCEPT ![n] = Appended(node[n], n, op)]
    BY <1>9 DEF replicate_entry, Appended, threads
  <2> QED
    BY <1>1, <2>1 DEF PlainStep
<1>10. ASSUME UNCHANGED <<node, fired>>, spent'.elections = spent.elections,
              spent'.crashes = spent.crashes
       PROVE  Plain
  BY <1>10 DEF Plain, PlainStep
<1>11. ASSUME NEW e \in elections, NEW i \in Node,
              SendRequestVote(e, i) \/ RequestVoteFails(e, i)
       PROVE  Plain
  BY <1>0, <1>10, <1>11 DEF SendRequestVote, RequestVoteFails, CountFailure
<1>12. ASSUME NEW t \in rounds, NEW i \in Node,
              SendAppendEntries(t, i) \/ AppendEntriesFails(t, i)
       PROVE  Plain
  BY <1>0, <1>10, <1>12 DEF SendAppendEntries, AppendEntriesFails, CountFailure
<1>13. ASSUME \/ \E w \in waiters : WaiterWakes(w)
              \/ \E n \in Node : Restart(n)
              \/ UNCHANGED vars
       PROVE  Plain
  BY <1>10, <1>13 DEF WaiterWakes, Restart, vars, threads
<1>14. ASSUME Elect
       PROVE  \/ \E n \in Node : ElectionTimeout(n) \/ start_election(n)
              \/ Plain
  BY <1>14, <1>2, <1>3, <1>4, <1>11 DEF Elect
<1>15. ASSUME Replicate
       PROVE  Plain
  BY <1>15, <1>5, <1>6, <1>7, <1>8, <1>12 DEF Replicate
<1> QED
  BY <1>9, <1>13, <1>14, <1>15 DEF Next, Serve, Fail

-----------------------------------------------------------------------------
(* What plain steps do to leader and followers.                            *)

\* The fields that Follows is about.
SameLogs(s, s1) ==
  s1.log = s.log /\ s1.commit_index = s.commit_index /\ s1.applied = s.applied

LEMMA LogTypes ==
  ASSUME NEW s \in RaftState
  PROVE  /\ s.log \in Seq(Entry) /\ Len(s.log) \in Nat
         /\ s.commit_index \in Nat /\ s.applied \in Seq(Entry)
         /\ s.current_term \in Nat
BY DEF RaftState

\* A commit within the log applies what the log has up to it.
LEMMA CommitUpToApplies ==
  ASSUME NEW s \in RaftState, NEW index \in Nat, s.commit_index < index,
         index <= Len(s.log), Len(s.applied) = s.commit_index
  PROVE  LET s1 == CommitUpTo(s, index) IN
           /\ s1.log = s.log /\ s1.commit_index = index
           /\ Len(s1.applied) = index
           /\ \A i \in 1..index :
                s1.applied[i] =
                  IF i <= s.commit_index THEN s.applied[i] ELSE s.log[i]
<1> DEFINE slice == SubSeq(s.log, s.commit_index + 1, index)
           new == s.applied \o slice
<1>1. /\ s.log \in Seq(Entry) /\ s.commit_index \in Nat
      /\ s.applied \in Seq(Entry)
  BY DEF RaftState
<1>2. LET s1 == CommitUpTo(s, index) IN
        s1.log = s.log /\ s1.commit_index = index /\ s1.applied = new
  BY DEF CommitUpTo, RaftState
<1>3. PICK log \in Seq(Entry), ci \in Nat :
        log = s.log /\ ci = s.commit_index /\ ci <= index /\ index <= Len(log)
  BY <1>1
<1>4. /\ slice = SubSeq(log, ci + 1, index)
      /\ SubSeq(log, ci + 1, index) \in Seq(Entry)
  BY <1>3, SliceType
<1>5. /\ Len(SubSeq(log, ci + 1, index)) = index - ci
      /\ \A k \in 1..(index - ci) : SubSeq(log, ci + 1, index)[k] = log[ci + k]
  BY <1>3, SliceAt
<1>6. /\ slice \in Seq(Entry) /\ Len(slice) = index - ci
      /\ \A k \in 1..(index - ci) : slice[k] = log[ci + k]
  <2> HIDE DEF slice
  <2> QED
    BY <1>4, <1>5, Zenon
<1> HIDE DEF slice
<1>7. /\ Len(new) = Len(s.applied) + Len(slice)
      /\ \A i \in 1..(Len(s.applied) + Len(slice)) :
           new[i] = IF i <= Len(s.applied) THEN s.applied[i]
                    ELSE slice[i - Len(s.applied)]
  BY <1>1, <1>6, ConcatProperties
<1> HIDE DEF new
<1>8. Len(new) = index
  BY <1>3, <1>6, <1>7
<1>9. ASSUME NEW i \in 1..index
      PROVE  new[i] = IF i <= ci THEN s.applied[i] ELSE log[i]
  <2>1. new[i] = IF i <= ci THEN s.applied[i] ELSE slice[i - ci]
    BY <1>3, <1>6, <1>7
  <2>2. CASE i <= ci
    BY <2>1, <2>2
  <2>3. CASE ~(i <= ci)
    <3>1. i - ci \in 1..(index - ci) /\ ci + (i - ci) = i
      BY <2>3
    <3> QED
      BY <1>6, <2>1, <2>3, <3>1
  <2> QED
    BY <2>2, <2>3
<1> QED
  BY <1>2, <1>3, <1>8, <1>9

\* The AppendEntries servicer keeps a follower a follower, whichever request
\* of the leader it serves.
LEMMA AfterAppendEntriesFollows ==
  ASSUME NEW leader \in RaftState, leader.commit_index <= Len(leader.log),
         NEW s \in RaftState, Follows(leader, s),
         NEW r \in AppendRequest, Carries(leader, r), NEW s1,
         s1 = AfterAppendEntries(s, r).state
  PROVE  Follows(leader, s1) /\ s.commit_index <= s1.commit_index
<1> DEFINE follower == FollowLeader(s, r)
           stored == StoreEntries(follower, r)
           commit == IF r.leaderCommit < LastIndex(r)
                     THEN r.leaderCommit ELSE LastIndex(r)
           cut == [follower EXCEPT !.log = SubSeq(@, 1, r.prevLogIndex - 1)]
           prev == r.prevLogIndex
<1>1. /\ prev \in Nat /\ r.entries \in Seq(Entry) /\ r.leaderCommit \in Nat
      /\ Len(r.entries) \in Nat /\ LastIndex(r) = prev + Len(r.entries)
  BY DEF AppendRequest, LastIndex
<1>2. /\ s.log \in Seq(Entry) /\ Len(s.log) \in Nat /\ s.commit_index \in Nat
      /\ s.applied \in Seq(Entry)
      /\ leader.log \in Seq(Entry) /\ Len(leader.log) \in Nat
      /\ leader.commit_index \in Nat
  BY LogTypes
<1>3. follower \in RaftState /\ SameLogs(s, follower)
  BY FollowLeaderType DEF SameLogs
<1> HIDE DEF follower, prev
<1>4. Follows(leader, follower)
  BY <1>3 DEF SameLogs, Follows
<1>5. ASSUME prev <= Len(s.log)
      PROVE  Follows(leader, cut) /\ cut.commit_index = s.commit_index
  <2>1. PICK j \in Int : j = prev - 1 /\ j <= Len(s.log)
    BY <1>1, <1>2, <1>5
  <2>2. /\ cut.log = SubSeq(s.log, 1, j) /\ cut.commit_index = s.commit_index
        /\ cut.applied = s.applied
    BY <1>3, <2>1 DEF SameLogs, RaftState, prev
  <2>3. /\ Len(SubSeq(s.log, 1, j)) <= Len(s.log)
        /\ Len(SubSeq(s.log, 1, j)) \in Nat
        /\ \A i \in 1..Len(SubSeq(s.log, 1, j)) : SubSeq(s.log, 1, j)[i] = s.log[i]
    BY <1>2, <2>1, SubSeqProperties
  <2> HIDE DEF cut
  <2> QED
    BY <1>2, <2>2, <2>3 DEF Follows
<1>6. ASSUME prev <= Len(s.log)
      PROVE  /\ stored \in RaftState /\ Follows(leader, stored)
             /\ LastIndex(r) <= Len(stored.log)
             /\ stored.commit_index = s.commit_index
             /\ stored.applied = s.applied
  <2>1. /\ stored \in RaftState /\ LastIndex(r) <= Len(stored.log)
        /\ stored.commit_index = s.commit_index /\ stored.applied = s.applied
    BY <1>3, <1>6, StoreEntriesType DEF SameLogs, prev
  <2>2. CASE r.entries = <<>>
    BY <1>4, <2>1, <2>2 DEF StoreEntries
  <2>3. CASE r.entries # <<>>
    <3> DEFINE kept == SubSeq(s.log, 1, prev)
    <3>1. stored.log = kept \o r.entries
      BY <1>3, <2>3 DEF StoreEntries, SameLogs, RaftState, prev
    <3>2. /\ kept \in Seq(Entry) /\ Len(kept) = prev
          /\ \A i \in 1..prev : kept[i] = s.log[i]
      BY <1>1, <1>2, <1>6, SubSeqProperties
    <3> HIDE DEF kept
    <3>3. /\ Len(stored.log) = prev + Len(r.entries)
          /\ \A i \in 1..(prev + Len(r.entries)) :
               stored.log[i] = IF i <= prev THEN kept[i] ELSE r.entries[i - prev]
      <4>1. PICK entries \in Seq(Entry) : entries = r.entries
        BY <1>1
      <4>2. /\ Len(kept \o entries) = Len(kept) + Len(entries)
            /\ \A i \in 1..(Len(kept) + Len(entries)) :
                 (kept \o entries)[i] = IF i <= Len(kept) THEN kept[i]
                                        ELSE entries[i - Len(kept)]
        BY <3>2, <4>1, ConcatProperties
      <4> HIDE DEF stored
      <4> QED
        BY <3>1, <3>2, <4>1, <4>2
    <3>4. Len(stored.log) <= Len(leader.log)
      BY <1>1, <3>3 DEF Carries
    <3>5. ASSUME NEW i \in 1..Len(stored.log)
          PROVE  stored.log[i] = leader.log[i]
      <4>1. i \in 1..(prev + Len(r.entries))
        BY <3>3
      <4>2. CASE i <= prev
        <5>1. i \in 1..prev /\ i \in 1..Len(s.log)
          BY <1>1, <1>2, <1>6, <4>2
        <5> QED
          BY <3>2, <3>3, <4>1, <4>2, <5>1 DEF Follows
      <4>3. CASE ~(i <= prev)
        <5>1. i - prev \in 1..Len(r.entries) /\ prev + (i - prev) = i
          BY <1>1, <4>1, <4>3
        <5>2. stored.log[i] = r.entries[i - prev]
          BY <3>3, <4>1, <4>3
        <5> QED
          BY <5>1, <5>2 DEF Carries, prev
      <4> QED
        BY <4>2, <4>3
    <3> HIDE DEF stored
    <3> QED
      BY <2>1, <3>4, <3>5 DEF Follows
  <2> QED
    BY <2>2, <2>3
<1>7. commit = r.leaderCommit
  BY <1>1 DEF Carries
<1> HIDE DEF stored, commit, cut
<1>8. ASSUME prev <= Len(s.log), s.commit_index < r.leaderCommit
      PROVE  /\ Follows(leader, CommitUpTo(stored, commit))
             /\ s.commit_index < CommitUpTo(stored, commit).commit_index
  <2> DEFINE index == r.leaderCommit
             s2 == CommitUpTo(stored, index)
  <2>0. stored \in RaftState /\ stored.commit_index = s.commit_index
    BY <1>6, <1>8
  <2>1. /\ index \in Nat /\ stored.commit_index < index
        /\ index <= LastIndex(r) /\ LastIndex(r) \in Nat
        /\ Len(stored.log) \in Nat
    <3>1. index \in Nat /\ LastIndex(r) \in Nat
      BY <1>1
    <3>2. index <= LastIndex(r)
      BY DEF Carries
    <3>3. Len(stored.log) \in Nat
      BY <2>0 DEF RaftState
    <3> QED
      BY <1>8, <2>0, <3>1, <3>2, <3>3
  <2>2. index <= Len(stored.log)
    BY <1>6, <1>8, <2>1
  <2>3. Len(stored.applied) = stored.commit_index
    BY <1>6, <1>8 DEF Follows
  <2> HIDE DEF index
  <2>4. /\ s2.log = stored.log /\ s2.commit_index = index
        /\ Len(s2.applied) = index
        /\ \A i \in 1..index :
             s2.applied[i] = IF i <= stored.commit_index THEN stored.applied[i]
                             ELSE stored.log[i]
    BY <1>6, <1>8, <2>1, <2>2, <2>3, CommitUpToApplies
  <2> HIDE DEF s2
  <2>5. ASSUME NEW i \in 1..index
        PROVE  s2.applied[i] = leader.log[i]
    <3>1. CASE i <= s.commit_index
      <4>1. i \in 1..s.commit_index
        BY <1>2, <3>1
      <4> QED
        BY <1>6, <1>8, <2>4, <3>1, <4>1 DEF Follows
    <3>2. CASE ~(i <= s.commit_index)
      <4>1. i \in 1..Len(stored.log)
        BY <2>1, <2>2
      <4> QED
        BY <1>6, <1>8, <2>4, <3>2, <4>1 DEF Follows
    <3> QED
      BY <3>1, <3>2
  <2>6. index <= leader.commit_index
    BY DEF Carries, index
  <2>7. Follows(leader, stored)
    BY <1>6, <1>8
  <2>8. Follows(leader, s2)
    BY <2>4, <2>5, <2>6, <2>7 DEF Follows
  <2> QED
    BY <1>6, <1>7, <1>8, <2>1, <2>4, <2>8 DEF s2, index
<1>9. s1 = IF RefusesTerm(s, r.term) THEN s
           ELSE IF r.prevLogIndex > Len(s.log) THEN follower
           ELSE IF TermAt(s.log, r.prevLogIndex) # r.prevLogTerm THEN cut
           ELSE IF s.commit_index < r.leaderCommit
           THEN CommitUpTo(stored, commit) ELSE stored
  BY DEF AfterAppendEntries, follower, stored, commit, cut
<1>10. \/ s1 = s \/ s1 = follower
       \/ ~(prev > Len(s.log)) /\ s1 \in {cut, stored}
       \/ /\ ~(prev > Len(s.log)) /\ s.commit_index < r.leaderCommit
          /\ s1 = CommitUpTo(stored, commit)
  BY <1>9 DEF prev
<1>11. ~(prev > Len(s.log)) => prev <= Len(s.log)
  BY <1>1, <1>2
<1>12. follower.commit_index = s.commit_index
  BY <1>3 DEF SameLogs
<1>13. Follows(leader, s1) /\ (s1.commit_index = s.commit_index
                               \/ s.commit_index < s1.commit_index)
  BY <1>4, <1>5, <1>6, <1>8, <1>10, <1>11, <1>12
<1>14. s1.commit_index \in Nat
  BY <1>13, AfterAppendEntriesType, LogTypes
<1> QED
  BY <1>2, <1>13, <1>14

\* What a step of the leader that is none of a commit or a new entry, and one
\* of a follower that does not serve AppendEntries, leave as it is.
Quiet(s, s1) ==
  /\ SameLogs(s, s1) /\ s1.current_term = s.current_term
  /\ s1.role # "FOLLOWER" => s.role # "FOLLOWER"

LEMMA QuietSteps ==
  ASSUME NEW n \in Node, NEW s \in RaftState, NEW s1,
         \/ s1 \in {s, [s EXCEPT !.heartbeat_timer = FALSE],
                    reset_election_timer(s), reset_heartbeat_timer(s),
                    downgrade_to_follower(s, s.current_term)}
         \/ s.role = "CANDIDATE" /\ s1 = become_leader(s, n)
  PROVE  Quiet(s, s1)
<1>1. /\ Quiet(s, s) /\ Quiet(s, [s EXCEPT !.heartbeat_timer = FALSE])
      /\ Quiet(s, reset_election_timer(s)) /\ Quiet(s, reset_heartbeat_timer(s))
  BY DEF Quiet, SameLogs, reset_election_timer, reset_heartbeat_timer, RaftState
<1>2. Quiet(s, downgrade_to_follower(s, s.current_term))
  BY DEF Quiet, SameLogs, downgrade_to_follower, reset_election_timer, RaftState
<1>3. s.role = "CANDIDATE" => Quiet(s, become_leader(s, n))
  BY DEF Quiet, SameLogs, become_leader, schedule_heartbeat, RaftState
<1> QED
  BY <1>1, <1>2, <1>3

\* The leader's log is only appended to, by a leader only, and its commits go
\* on within the log.
Advances(s, s1) ==
  /\ s1.current_term = s.current_term
  /\ s1.role # "FOLLOWER" => s.role # "FOLLOWER"
  /\ s.role # "LEADER" => s1.log = s.log
  /\ Len(s.log) <= Len(s1.log)
  /\ \A i \in 1..Len(s.log) : s1.log[i] = s.log[i]
  /\ s.commit_index <= s1.commit_index
  /\ s1.commit_index <= Len(s1.log)
  /\ Len(s1.applied) = s1.commit_index
  /\ \A i \in 1..s1.commit_index : s1.applied[i] = s1.log[i]

LEMMA AfterAppendReplyAdvances ==
  ASSUME NEW s \in RaftState, s.commit_index <= Len(s.log), Follows(s, s),
         NEW m \in AppendReply, m.term <= s.current_term, NEW s1,
         s1 = AfterAppendReply(s, m)
  PROVE  Advances(s, s1)
<1> DEFINE match == [s EXCEPT !.match_index[m.to] = m.matched,
                              !.next_index[m.to] = m.matched + 1]
           median == get_match_index_median(match)
<1>1. /\ s.log \in Seq(Entry) /\ Len(s.log) \in Nat /\ s.commit_index \in Nat
      /\ s.applied \in Seq(Entry) /\ s.current_term \in Nat
  BY LogTypes
<1>2. ~StepsDown(s, m)
  BY <1>1 DEF StepsDown, AppendReply
<1>3. Quiet(s, DecrementNext(s, m.to)) /\ Quiet(s, match)
  BY DEF DecrementNext, Quiet, SameLogs, RaftState
<1>4. match \in RaftState
  BY MatchType
<1>5. \/ s1 \in {DecrementNext(s, m.to), match}
      \/ /\ median \in (s.commit_index + 1)..Len(s.log)
         /\ s1 = CommitUpTo(match, median)
  BY <1>2 DEF AfterAppendReply, match, median
<1> HIDE DEF match, median
<1>6. \A i \in 1..s.commit_index : s.applied[i] = s.log[i]
  BY DEF Follows
<1>7. Len(s.applied) = s.commit_index
  BY DEF Follows
<1>8. ASSUME Quiet(s, s1) PROVE Advances(s, s1)
  BY <1>1, <1>6, <1>7, <1>8 DEF Quiet, SameLogs, Advances
<1>9. ASSUME median \in (s.commit_index + 1)..Len(s.log),
             s1 = CommitUpTo(match, median)
      PROVE  Advances(s, s1)
  <2>1. PICK k \in Nat : k = median /\ s.commit_index < k /\ k <= Len(s.log)
    BY <1>1, <1>9
  <2>2. /\ match.log = s.log /\ match.commit_index = s.commit_index
        /\ match.applied = s.applied /\ match.role = s.role
        /\ match.current_term = s.current_term
    BY DEF match, RaftState
  <2>3. /\ s1.log = s.log /\ s1.commit_index = k /\ Len(s1.applied) = k
        /\ \A i \in 1..k :
             s1.applied[i] = IF i <= s.commit_index THEN s.applied[i] ELSE s.log[i]
    BY <1>4, <1>7, <1>9, <2>1, <2>2, CommitUpToApplies
  <2>4. s1.role = s.role /\ s1.current_term = s.current_term
    BY <1>4, <1>9, <2>2 DEF CommitUpTo, RaftState
  <2>5. \A i \in 1..k : s1.applied[i] = s.log[i]
    BY <1>1, <1>6, <2>1, <2>3
  <2> QED
    BY <1>1, <2>1, <2>3, <2>4, <2>5 DEF Advances
<1> QED
  BY <1>3, <1>5, <1>8, <1>9

LEMMA AppendedAdvances ==
  ASSUME NEW n \in Node, NEW s \in RaftState, s.commit_index <= Len(s.log),
         Follows(s, s), s.role = "LEADER", NEW op \in Op
  PROVE  /\ Advances(s, Appended(s, n, op))
         /\ EntryIs(Appended(s, n, op), Len(s.log) + 1, op)
<1> DEFINE entry == [term |-> s.current_term, op |-> op]
           s1 == Appended(s, n, op)
<1>1. /\ s.log \in Seq(Entry) /\ Len(s.log) \in Nat /\ s.commit_index \in Nat
      /\ s.applied \in Seq(Entry) /\ s.current_term \in Nat
  BY LogTypes
<1>2. entry \in Entry /\ entry.op = op
  BY <1>1 DEF Entry
<1>3. /\ s1.log = Append(s.log, entry) /\ s1.commit_index = s.commit_index
      /\ s1.applied = s.applied /\ s1.current_term = s.current_term
      /\ s1.role = s.role
  BY DEF Appended, schedule_heartbeat, RaftState
<1> HIDE DEF entry, s1
<1>4. PICK log \in Seq(Entry) : log = s.log
  BY <1>1
<1>5. /\ Len(Append(log, entry)) = Len(log) + 1
      /\ \A i \in 1..Len(log) : Append(log, entry)[i] = log[i]
      /\ Append(log, entry)[Len(log) + 1] = entry
  BY <1>2, AppendProperties
<1>6. /\ Len(s1.log) = Len(s.log) + 1
      /\ \A i \in 1..Len(s.log) : s1.log[i] = s.log[i]
      /\ s1.log[Len(s.log) + 1] = entry
  BY <1>3, <1>4, <1>5
<1>7. /\ Len(s.applied) = s.commit_index
      /\ \A i \in 1..s.commit_index : s.applied[i] = s.log[i]
  BY DEF Follows
<1>8. \A i \in 1..s.commit_index : i \in 1..Len(s.log)
  BY <1>1
<1>9. Advances(s, s1)
  BY <1>1, <1>3, <1>6, <1>7, <1>8 DEF Advances
<1>10. EntryIs(s1, Len(s.log) + 1, op)
  BY <1>1, <1>2, <1>6 DEF EntryIs
<1> QED
  BY <1>9, <1>10 DEF s1

\* What holds of a leader's log holds when it has advanced.
LEMMA AdvanceKeeps ==
  ASSUME NEW l \in RaftState, NEW l1 \in RaftState, Advances(l, l1),
         l.commit_index <= Len(l.log)
  PROVE  /\ \A s \in RaftState : Follows(l, s) => Follows(l1, s)
         /\ \A r \in AppendRequest : Carries(l, r) => Carries(l1, r)
         /\ \A k, op : EntryIs(l, k, op) => EntryIs(l1, k, op)
<1>1. /\ Len(l.log) \in Nat /\ l.commit_index \in Nat
      /\ Len(l1.log) \in Nat /\ l1.commit_index \in Nat
  BY LogTypes
<1>2. /\ Len(l.log) <= Len(l1.log) /\ l.commit_index <= l1.commit_index
      /\ \A i \in 1..Len(l.log) : l1.log[i] = l.log[i]
  BY DEF Advances
<1>3. ASSUME NEW s \in RaftState, Follows(l, s)
      PROVE  Follows(l1, s)
  <2>1. Len(s.log) \in Nat /\ s.commit_index \in Nat
    BY LogTypes
  <2>2. /\ Len(s.log) <= Len(l.log) /\ s.commit_index <= l.commit_index
        /\ Len(s.applied) = s.commit_index
        /\ \A i \in 1..Len(s.log) : s.log[i] = l.log[i]
        /\ \A i \in 1..s.commit_index : s.applied[i] = l.log[i]
    BY <1>3 DEF Follows
  <2>3. /\ \A i \in 1..Len(s.log) : i \in 1..Len(l.log)
        /\ \A i \in 1..s.commit_index : i \in 1..Len(l.log)
    BY <1>1, <2>1, <2>2
  <2> QED
    BY <1>1, <1>2, <2>1, <2>2, <2>3 DEF Follows
<1>4. ASSUME NEW r \in AppendRequest, Carries(l, r)
      PROVE  Carries(l1, r)
  <2>1. /\ r.prevLogIndex \in Nat /\ Len(r.entries) \in Nat
        /\ r.leaderCommit \in Nat
        /\ LastIndex(r) = r.prevLogIndex + Len(r.entries)
    BY DEF AppendRequest, LastIndex
  <2>2. /\ LastIndex(r) <= Len(l.log) /\ r.leaderCommit <= LastIndex(r)
        /\ r.leaderCommit <= l.commit_index
        /\ \A i \in 1..Len(r.entries) : r.entries[i] = l.log[r.prevLogIndex + i]
    BY <1>4 DEF Carries
  <2>3. \A i \in 1..Len(r.entries) : r.prevLogIndex + i \in 1..Len(l.log)
    BY <1>1, <2>1, <2>2
  <2>4. \A i \in 1..Len(r.entries) : r.entries[i] = l1.log[r.prevLogIndex + i]
    BY <1>2, <2>2, <2>3
  <2>5. LastIndex(r) <= Len(l1.log) /\ r.leaderCommit <= l1.commit_index
    <3>1. LastIndex(r) \in Nat
      BY <2>1
    <3> QED
      BY <1>1, <1>2, <2>1, <2>2, <3>1
  <2> QED
    BY <2>2, <2>4, <2>5 DEF Carries
<1>5. ASSUME NEW k, NEW op, EntryIs(l, k, op)
      PROVE  EntryIs(l1, k, op)
  <2>1. k \in 1..Len(l.log) /\ l.log[k].op = op
    BY <1>5 DEF EntryIs
  <2> QED
    BY <1>1, <1>2, <2>1 DEF EntryIs
<1> QED
  BY <1>3, <1>4, <1>5

\* A plain step of the leader.
LEMMA LeaderStep ==
  ASSUME TypeOK, CallsGoToPeers, NEW L \in Node, Office(L),
         PlainStep(L, node[L], node'[L])
  PROVE  Advances(node[L], node'[L])
<1>1. PICK s, s1 : s = node[L] /\ s1 = node'[L]
  OBVIOUS
<1>2. /\ s \in RaftState /\ s.commit_index <= Len(s.log) /\ Follows(s, s)
      /\ PlainStep(L, s, s1)
  BY <1>1, ThreadTypes DEF Office, LedBy
<1>3. Quiet(s, s1) => Advances(s, s1)
  BY <1>2, LogTypes DEF Quiet, SameLogs, Advances, Follows
<1>4. ~\E r \in voteRequests : r.to = L
  BY DEF Office, MessagesOf, CallsGoToPeers
<1>5. ~\E r \in appendRequests : r.to = L
  BY DEF Office, MessagesOf, CallsGoToPeers
<1>6. ASSUME NEW m \in appendReplies, s1 = AfterAppendReply(s, m)
      PROVE  Advances(s, s1)
  <2>1. m \in AppendReply /\ m.term <= s.current_term
    BY <1>1 DEF TypeOK, Office, MessagesOf
  <2> QED
    BY <1>2, <1>6, <2>1, AfterAppendReplyAdvances
<1>7. ASSUME s.role = "LEADER", NEW op \in Op, s1 = Appended(s, L, op)
      PROVE  Advances(s, s1)
  BY <1>2, <1>7, AppendedAdvances
<1>8. \/ s1 \in {s, [s EXCEPT !.heartbeat_timer = FALSE],
                 reset_election_timer(s), reset_heartbeat_timer(s),
                 downgrade_to_follower(s, s.current_term)}
      \/ s.role = "CANDIDATE" /\ s1 = become_leader(s, L)
      \/ \E m \in appendReplies : s1 = AfterAppendReply(s, m)
      \/ s.role = "LEADER" /\ \E op \in Op : s1 = Appended(s, L, op)
  BY <1>2, <1>4, <1>5 DEF PlainStep
<1>9. Advances(s, s1)
  BY <1>2, <1>3, <1>6, <1>7, <1>8, QuietSteps
<1> QED
  BY <1>1, <1>9

\* A plain step of any other node: it follows the leader, and serves it.
LEMMA FollowerStep ==
  ASSUME TypeOK, NEW L \in Node, Office(L), NEW n \in Node \ {L},
         PlainStep(n, node[n], node'[n])
  PROVE  /\ node'[n].role = "FOLLOWER"
         /\ node'[n].current_term <= node[L].current_term
         /\ Follows(node[L], node'[n])
         /\ node[n].commit_index <= node'[n].commit_index
<1> DEFINE Good(x) == /\ x.role = "FOLLOWER"
                      /\ x.current_term <= node[L].current_term
                      /\ Follows(node[L], x)
                      /\ node[n].commit_index <= x.commit_index
<1>1. PICK s, s1 : s = node[n] /\ s1 = node'[n]
  OBVIOUS
<1>2. /\ s \in RaftState /\ Good(s) /\ PlainStep(n, s, s1)
      /\ node[L] \in RaftState /\ node[L].current_term \in Nat
      /\ node[L].commit_index <= Len(node[L].log)
  <2>1. s \in RaftState /\ node[L] \in RaftState
    BY <1>1, ThreadTypes
  <2>2. s.commit_index \in Nat /\ node[L].current_term \in Nat
    BY <2>1, LogTypes
  <2> QED
    BY <1>1, <2>1, <2>2 DEF Office, Alone, LedBy
<1>3. Quiet(s, s1) /\ s1.role \in Role => Good(s1)
  BY <1>2 DEF Quiet, SameLogs, Follows, Role
<1>4. ASSUME s1 \in {s, [s EXCEPT !.heartbeat_timer = FALSE],
                     reset_election_timer(s), reset_heartbeat_timer(s),
                     downgrade_to_follower(s, s.current_term)}
      PROVE  Good(s1)
  <2>1. Quiet(s, s1)
    BY <1>2, <1>4, QuietSteps
  <2>2. s1.role = "FOLLOWER"
    BY <1>2, <1>4
    DEF reset_election_timer, reset_heartbeat_timer, downgrade_to_follower, RaftState
  <2> QED
    BY <1>3, <2>1, <2>2 DEF Role
<1>5. ASSUME NEW r \in voteRequests, s1 = AfterRequestVote(s, r).state
      PROVE  Good(s1)
  <2>1. r \in VoteRequest /\ r.term <= node[L].current_term
    BY DEF TypeOK, Office, MessagesOf
  <2>2. s1.log = s.log /\ s1.commit_index = s.commit_index /\ s1.applied = s.applied
    BY <1>2, <1>5 DEF AfterRequestVote, downgrade_to_follower,
       reset_election_timer, RaftState
  <2>3. s1.role = "FOLLOWER" /\ s1.current_term \in {s.current_term, r.term}
    <3>1. \/ s1 = s
          \/ s1.role = "FOLLOWER" /\ s1.current_term = r.term
          \/ s1 = [s EXCEPT !.voted_for = r.from, !.election_timer = TRUE]
      BY <1>2, <1>5, <2>1, AfterRequestVoteEffect
    <3>2. s.role = "FOLLOWER" /\ s \in RaftState
      BY <1>2
    <3> QED
      BY <3>1, <3>2 DEF RaftState
  <2> QED
    BY <1>2, <2>1, <2>2, <2>3 DEF Follows
<1>6. ASSUME NEW r \in appendRequests, s1 = AfterAppendEntries(s, r).state
      PROVE  Good(s1)
  <2>1. /\ r \in AppendRequest /\ r.term <= node[L].current_term
        /\ Carries(node[L], r)
    BY DEF TypeOK, Office, MessagesOf, LedBy
  <2>2. Follows(node[L], s1) /\ s.commit_index <= s1.commit_index
    BY <1>2, <1>6, <2>1, AfterAppendEntriesFollows
  <2>3. s1.role = "FOLLOWER" /\ s1.current_term \in {s.current_term, r.term}
    BY <1>2, <1>6, <2>1, AfterAppendEntriesEffect
  <2> QED
    BY <1>1, <1>2, <2>1, <2>2, <2>3
<1>7. ~\E m \in appendReplies : m.from = n
  BY DEF Office, MessagesOf
<1>8. \/ s1 \in {s, [s EXCEPT !.heartbeat_timer = FALSE],
                 reset_election_timer(s), reset_heartbeat_timer(s),
                 downgrade_to_follower(s, s.current_term)}
      \/ \E r \in voteRequests : s1 = AfterRequestVote(s, r).state
      \/ \E r \in appendRequests : s1 = AfterAppendEntries(s, r).state
  BY <1>2, <1>7 DEF PlainStep
<1>9. Good(s1)
  BY <1>4, <1>5, <1>6, <1>8
<1> QED
  BY <1>1, <1>9

-----------------------------------------------------------------------------
(* What plain steps put on the network and tell the clients.               *)

\* Where the calls, the replies, the threads that wait and the answers after
\* a step come from.
SentNow ==
  /\ \A e \in elections' : \E d \in elections : e.node = d.node
  /\ \A q \in voteRequests' :
       \/ \E m \in voteRequests : q.from = m.from /\ q.term = m.term
       \/ \E e \in elections : q.from = e.node /\ q.term = node[e.node].current_term
  /\ \A q \in voteReplies' :
       \/ q \in voteReplies
       \/ \E r \in voteRequests : q.from = r.from /\ q.term = node[r.to].current_term
  /\ \A q \in appendReplies' :
       \/ q \in appendReplies
       \/ \E r \in appendRequests : q.from = r.from /\ q.term = node[r.to].current_term

\* a is an answer to the waiter w, the entry of which is committed.
AnswersWaiter(a, w) ==
  /\ a.op = w.op /\ a.entry_id = w.entry_id
  /\ w.entry_id <= node[w.node].commit_index

ServedNow ==
  /\ \A w \in waiters' :
       \/ \E v \in waiters :
            w.node = v.node /\ w.entry_id = v.entry_id /\ w.op = v.op
       \/ /\ node[w.node].role = "LEADER" /\ w.op \in Op
          /\ node'[w.node] = Appended(node[w.node], w.node, w.op)
          /\ w.entry_id = Len(node[w.node].log) + 1
  /\ \/ answers' = answers
     \/ \E n \in Node : /\ node[n].role = "LEADER"
                      /\ Len(node[n].log) + 1 <= node[n].commit_index
     \/ \E a, w : /\ w \in waiters /\ AnswersWaiter(a, w)
                  /\ answers' = answers \cup {a} /\ UNCHANGED node

LEMMA ServedSteps ==
  ASSUME TypeOK, [Next]_vars
  PROVE  \/ \E n \in Node : Crash(n)
         \/ ServedNow
<1>0. node \in [Node -> RaftState] /\ waiters \subseteq Waiter
  BY DEF TypeOK
<1>1. ASSUME UNCHANGED <<waiters, answers>>
      PROVE  ServedNow
  BY <1>1 DEF ServedNow
<1>2. ASSUME UNCHANGED answers, NEW n, waiters' = NotifyAll(n)
      PROVE  ServedNow
  <2>1. ASSUME NEW u \in waiters'
        PROVE  \E w \in waiters :
                 u.node = w.node /\ u.entry_id = w.entry_id /\ u.op = w.op
    <3>1. PICK w \in waiters : u = [w EXCEPT !.awake = (@ \/ w.node = n)]
      BY <1>2 DEF NotifyAll
    <3>2. w \in Waiter
      BY <1>0
    <3> QED
      BY <3>1, <3>2 DEF Waiter
  <2> QED
    BY <1>2, <2>1 DEF ServedNow
<1>3. ASSUME NEW w \in waiters, WaiterWakes(w)
      PROVE  ServedNow
  <2>1. w \in Waiter /\ node[w.node] \in RaftState
    BY <1>0 DEF Waiter
  <2>2. /\ [w EXCEPT !.awake = FALSE].node = w.node
        /\ [w EXCEPT !.awake = FALSE].entry_id = w.entry_id
        /\ [w EXCEPT !.awake = FALSE].op = w.op
    BY <2>1 DEF Waiter
  <2>3. CASE node[w.node].commit_index < w.entry_id \/ node[w.node].role # "LEADER"
    BY <1>3, <2>2, <2>3 DEF WaiterWakes, Replace, ServedNow
  <2>4. CASE ~(node[w.node].commit_index < w.entry_id \/ node[w.node].role # "LEADER")
    <3>1. PICK a \in Answer(w.node, w) : answers' = answers \cup {a}
      BY <1>3, <2>4 DEF WaiterWakes
    <3>2. waiters' \subseteq waiters /\ UNCHANGED node
      BY <1>3, <2>4 DEF WaiterWakes
    <3>3. a.op = w.op /\ a.entry_id = w.entry_id
      BY DEF Answer
    <3>4. w.entry_id <= node[w.node].commit_index
      BY <2>1, <2>4 DEF RaftState, Waiter
    <3> QED
      BY <3>1, <3>2, <3>3, <3>4 DEF ServedNow, AnswersWaiter
  <2> QED
    BY <2>3, <2>4
<1>4. ASSUME NEW n \in Node, NEW op \in Op, replicate_entry(n, op)
      PROVE  ServedNow
  <2> DEFINE w == [node |-> n, entry_id |-> Len(node[n].log) + 1, op |-> op,
                   after |-> {a.op : a \in answers}, awake |-> FALSE]
  <2>1. /\ node[n].role = "LEADER"
        /\ node'[n] = Appended(node[n], n, op)
    BY <1>0, <1>4 DEF replicate_entry, Appended
  <2>2. CASE node[n].commit_index < Len(node[n].log) + 1
    <3>1. waiters' = waiters \cup {w} /\ UNCHANGED answers
      BY <1>4, <2>2 DEF replicate_entry
    <3>2. w.node = n /\ w.entry_id = Len(node[n].log) + 1 /\ w.op = op
      OBVIOUS
    <3> HIDE DEF w
    <3> QED
      BY <2>1, <3>1, <3>2 DEF ServedNow
  <2>3. CASE ~(node[n].commit_index < Len(node[n].log) + 1)
    <3>1. UNCHANGED waiters
      BY <1>4, <2>3 DEF replicate_entry
    <3>2. Len(node[n].log) + 1 <= node[n].commit_index
      BY <1>0, <2>3, LogTypes
    <3> QED
      BY <2>1, <3>1, <3>2 DEF ServedNow
  <2> QED
    BY <2>2, <2>3
<1>5. ASSUME Elect
      PROVE  UNCHANGED <<waiters, answers>>
  BY <1>5 DEF Elect, ElectionTimeout, start_election, SendRequestVote,
     RequestVoteFails, HandleRequestVoteReply, FinishElection, RequestVote,
     clients
<1>6. ASSUME Replicate
      PROVE  /\ UNCHANGED answers
             /\ UNCHANGED waiters \/ \E n : waiters' = NotifyAll(n)
  BY <1>6 DEF Replicate, piggyback_heartbeat, SendAppendEntries,
     AppendEntriesFails, HandleAppendReply, FinishRound, AppendEntries,
     clients
<1>7. ASSUME UNCHANGED vars \/ \E n \in Node : Restart(n)
      PROVE  UNCHANGED <<waiters, answers>>
  BY <1>7 DEF Restart, vars, clients
<1> QED
  BY <1>1, <1>2, <1>3, <1>4, <1>5, <1>6, <1>7 DEF Next, Serve, Fail

LEMMA SentSteps ==
  ASSUME TypeOK, [Next]_vars
  PROVE  \/ \E n \in Node : start_election(n) \/ Crash(n)
         \/ SentNow
<1>0. /\ elections \subseteq Election /\ voteRequests \subseteq VoteRequest
      /\ voteReplies \subseteq VoteReply
  BY DEF TypeOK
<1>1. ASSUME elections' = elections, voteRequests' \subseteq voteRequests,
             voteReplies' \subseteq voteReplies,
             appendReplies' \subseteq appendReplies
      PROVE  SentNow
  BY <1>1 DEF SentNow
<1>2. ASSUME NEW e \in elections, NEW d, d.node = e.node,
             elections' = Replace(elections, e, d)
      PROVE  \A f \in elections' : \E g \in elections : f.node = g.node
  BY <1>2 DEF Replace
<1>3. \A e \in elections :
        /\ \A i : [e EXCEPT !.spawned = @ \ {i},
                            !.waiting = @ \cup {i}].node = e.node
        /\ \A i : [e EXCEPT !.waiting = @ \ {i}].node = e.node
        /\ \A i, k : [e EXCEPT !.waiting = @ \ {i}, !.votes = k].node = e.node
  BY <1>0 DEF Election
<1>4. ASSUME NEW e \in elections, NEW i \in Node, SendRequestVote(e, i)
      PROVE  SentNow
  <2>1. \A f \in elections' : \E g \in elections : f.node = g.node
    BY <1>2, <1>3, <1>4 DEF SendRequestVote
  <2>2. PICK q : /\ q.from = e.node /\ q.term = node[e.node].current_term
                 /\ voteRequests' = voteRequests \cup {q}
    BY <1>4 DEF SendRequestVote
  <2>3. UNCHANGED <<voteReplies, appendReplies>>
    BY <1>4 DEF SendRequestVote
  <2> QED
    BY <2>1, <2>2, <2>3 DEF SentNow
<1>5. ASSUME NEW e \in elections, NEW i \in Node, RequestVoteFails(e, i)
      PROVE  SentNow
  <2>1. \A f \in elections' : \E g \in elections : f.node = g.node
    BY <1>2, <1>3, <1>5 DEF RequestVoteFails
  <2>2. voteRequests' \subseteq
          voteRequests \cup {[r EXCEPT !.live = FALSE] : r \in voteRequests}
    BY <1>5 DEF RequestVoteFails
  <2>3. \A r \in voteRequests : /\ [r EXCEPT !.live = FALSE].from = r.from
                                /\ [r EXCEPT !.live = FALSE].term = r.term
    BY <1>0 DEF VoteRequest
  <2>4. \A q \in voteRequests' :
          \E m \in voteRequests : q.from = m.from /\ q.term = m.term
    BY <2>2, <2>3
  <2>5. voteReplies' \subseteq voteReplies /\ UNCHANGED appendReplies
    BY <1>5 DEF RequestVoteFails
  <2> QED
    BY <2>1, <2>4, <2>5 DEF SentNow
<1>6. ASSUME NEW e \in elections, NEW m \in voteReplies,
             HandleRequestVoteReply(e, m)
      PROVE  SentNow
  <2>1. \A f \in elections' : \E g \in elections : f.node = g.node
    <3>1. PICK k : elections' = Replace(elections, e,
                     [e EXCEPT !.waiting = @ \ {m.to}, !.votes = k])
      BY <1>6 DEF HandleRequestVoteReply
    <3>2. [e EXCEPT !.waiting = @ \ {m.to}, !.votes = k].node = e.node
      BY <1>0 DEF Election
    <3> QED
      BY <1>2, <3>1, <3>2
  <2>2. /\ voteReplies' \subseteq voteReplies
        /\ UNCHANGED <<voteRequests, appendReplies>>
    BY <1>6 DEF HandleRequestVoteReply
  <2> QED
    BY <2>1, <2>2 DEF SentNow
<1>7. ASSUME NEW e \in elections, FinishElection(e)
      PROVE  SentNow
  BY <1>7 DEF FinishElection, network, SentNow
<1>8. ASSUME NEW r \in voteRequests, RequestVote(r)
      PROVE  SentNow
  <2>1. \A q \in voteReplies' :
          \/ q \in voteReplies
          \/ q.from = r.from /\ q.term = node[r.to].current_term
    BY <1>8 DEF RequestVote
  <2>2. voteRequests' \subseteq voteRequests /\ UNCHANGED <<elections, appendReplies>>
    BY <1>8 DEF RequestVote, threads
  <2> QED
    BY <2>1, <2>2 DEF SentNow
<1>9. ASSUME NEW r \in appendRequests, AppendEntries(r)
      PROVE  SentNow
  <2>1. \A q \in appendReplies' :
          \/ q \in appendReplies
          \/ q.from = r.from /\ q.term = node[r.to].current_term
    BY <1>9 DEF AppendEntries
  <2>2. UNCHANGED <<elections, voteRequests, voteReplies>>
    BY <1>9 DEF AppendEntries, threads
  <2> QED
    BY <2>1, <2>2 DEF SentNow
<1>10. ASSUME NEW n \in Node, ElectionTimeout(n)
       PROVE  SentNow
  BY <1>1, <1>10 DEF ElectionTimeout, network
<1>11. ASSUME Elect
       PROVE  \/ \E n \in Node : start_election(n)
              \/ SentNow
  BY <1>11, <1>4, <1>5, <1>6, <1>7, <1>8, <1>10 DEF Elect
<1>12. ASSUME Replicate
       PROVE  SentNow
  <2>1. CASE \E r \in appendRequests : AppendEntries(r)
    BY <1>9, <2>1
  <2>2. CASE ~\E r \in appendRequests : AppendEntries(r)
    <3>1. /\ UNCHANGED <<elections, voteRequests, voteReplies>>
          /\ appendReplies' \subseteq appendReplies
      BY <1>12, <2>2 DEF Replicate, piggyback_heartbeat, SendAppendEntries,
         AppendEntriesFails, HandleAppendReply, FinishRound, network
    <3> QED
      BY <1>1, <3>1
  <2> QED
    BY <2>1, <2>2
<1>13. ASSUME Serve \/ UNCHANGED vars \/ \E n \in Node : Restart(n)
       PROVE  SentNow
  BY <1>1, <1>13 DEF Serve, replicate_entry, WaiterWakes, Restart, vars,
     network, threads
<1> QED
  BY <1>11, <1>12, <1>13 DEF Next, Fail

-----------------------------------------------------------------------------
(* The invariant is kept.                                                  *)

\* What a leader sends is carried by it.
LEMMA SentCarries ==
  ASSUME NEW l \in RaftState, l.commit_index <= Len(l.log),
         NEW q \in AppendRequest, SentBy(l, q)
  PROVE  Carries(l, q)
<1>1. /\ q.prevLogIndex \in Nat /\ q.prevLogIndex <= Len(l.log)
      /\ q.entries = SubSeq(l.log, q.prevLogIndex + 1, Len(l.log))
      /\ q.leaderCommit = l.commit_index
  BY DEF SentBy, AppendRequest
<1>2. PICK log \in Seq(Entry), i \in Nat, j \in Nat :
        log = l.log /\ i = q.prevLogIndex /\ j = Len(log) /\ i <= j /\ j <= Len(log)
  BY <1>1, LogTypes
<1>3. /\ Len(SubSeq(log, i + 1, j)) = j - i
      /\ \A k \in 1..(j - i) : SubSeq(log, i + 1, j)[k] = log[i + k]
  <2>1. i <= j /\ j <= Len(log)
    BY <1>2
  <2> QED
    BY <2>1, SliceAt
<1>4. q.entries = SubSeq(log, i + 1, j)
  BY <1>1, <1>2
<1>5. /\ Len(q.entries) = j - i
      /\ \A k \in 1..(j - i) : q.entries[k] = l.log[i + k]
  BY <1>2, <1>3, <1>4
<1>6. LastIndex(q) = Len(l.log)
  BY <1>2, <1>5 DEF LastIndex
<1> QED
  BY <1>1, <1>2, <1>5, <1>6, LogTypes DEF Carries

\* A plain step keeps who leads and who follows.
LEMMA PlainKeepsLogs ==
  ASSUME TypeOK, TypeOK', CallsGoToPeers, NEW L \in Node, Office(L), Plain
  PROVE  /\ Alone(L)' /\ Advances(node[L], node'[L])
         /\ node'[L].commit_index <= Len(node'[L].log)
         /\ \A n \in Node : Follows(node'[L], node'[n])
<1>1. Advances(node[L], node'[L])
  BY LeaderStep DEF Plain
<1>2. /\ node[L] \in RaftState /\ node'[L] \in RaftState
      /\ node[L].commit_index <= Len(node[L].log)
  BY DEF TypeOK, Office, LedBy
<1>3. /\ node'[L].commit_index <= Len(node'[L].log)
      /\ node'[L].current_term = node[L].current_term
  BY <1>1 DEF Advances
<1>4. ASSUME NEW n \in Node \ {L}
      PROVE  /\ node'[n].role = "FOLLOWER" /\ fired'[n] = 0
             /\ node'[n].current_term <= node[L].current_term
             /\ Follows(node[L], node'[n])
  BY <1>4, FollowerStep DEF Plain, Office, Alone
<1>5. ASSUME NEW n \in Node
      PROVE  Follows(node'[L], node'[n])
  <2>1. CASE n = L
    BY <1>1, <1>2, <2>1, LogTypes DEF Advances, Follows
  <2>2. CASE n # L
    <3>1. Follows(node[L], node'[n]) /\ node'[n] \in RaftState
      BY <1>4, <2>2 DEF TypeOK
    <3> QED
      BY <1>1, <1>2, <3>1, AdvanceKeeps
  <2> QED
    BY <2>1, <2>2
<1>6. Alone(L)'
  <2>1. \A n \in Node \ {L} : node'[n].role = "FOLLOWER" /\ fired'[n] = 0
    BY <1>4
  <2>2. \A n \in Node : node'[n].current_term <= node'[L].current_term
    BY <1>2, <1>3, <1>4, LogTypes
  <2>3. fired'[L] + node'[L].current_term <= spent'.elections
    BY <1>3 DEF Plain, Office, Alone
  <2>4. node'[L].role # "FOLLOWER" => node'[L].current_term > 0
    BY <1>1, <1>3 DEF Advances, Office, Alone
  <2> QED
    BY <2>1, <2>2, <2>3, <2>4 DEF Alone
<1> QED
  BY <1>1, <1>3, <1>5, <1>6

\* Who is neither a candidate nor a leader sends nothing.
LEMMA OnlyLeaderSends ==
  ASSUME TypeOK, TypeOK', NEW L \in Node, Office(L), [Next]_vars,
         NEW q \in appendRequests'
  PROVE  \/ \E r \in appendRequests : SameRequest(r, q)
         \/ /\ q.from = L /\ node[L].current_term > 0
            /\ SentBy(node[L], q) /\ UNCHANGED node
<1>1. q.from \in Node
  BY DEF TypeOK, AppendRequest
<1>2. CASE SentBy(node[q.from], q) /\ UNCHANGED <<node, spent>>
  <2>1. node[q.from].role = "LEADER"
    BY <1>2 DEF SentBy
  <2>2. q.from = L
    BY <1>1, <2>1 DEF Office, Alone
  <2> QED
    BY <1>2, <2>1, <2>2 DEF Office, Alone
<1> QED
  BY <1>2, RequestSteps

LEMMA PlainKeepsMessages ==
  ASSUME TypeOK, TypeOK', CallsGoToPeers, NEW L \in Node, Office(L), Plain,
         [Next]_vars, SentNow
  PROVE  MessagesOf(L)' /\ Untouched(L)'
<1>1. /\ Advances(node[L], node'[L])
      /\ node'[L].current_term = node[L].current_term
      /\ node[L].current_term \in Nat
  BY PlainKeepsLogs, LogTypes DEF TypeOK, Advances
<1>2. /\ \A n \in Node : node[n].current_term <= node[L].current_term
      /\ \A r \in voteRequests \cup appendRequests : r.to \in Node
  BY DEF Office, Alone, TypeOK, VoteRequest, AppendRequest
<1>3. \A e \in elections' : e.node = L
  BY DEF SentNow, Office, MessagesOf
<1>4. \A m \in voteRequests' : m.from = L /\ m.term <= node[L].current_term
  BY <1>1 DEF SentNow, Office, MessagesOf
<1>5. \A m \in voteReplies' : m.from = L /\ m.term <= node[L].current_term
  BY <1>2 DEF SentNow, Office, MessagesOf
<1>6. \A m \in appendReplies' : m.from = L /\ m.term <= node[L].current_term
  BY <1>2 DEF SentNow, Office, MessagesOf
<1>7. ASSUME NEW q \in appendRequests'
      PROVE  q.from = L /\ q.term <= node[L].current_term
  <2>1. CASE \E r \in appendRequests : SameRequest(r, q)
    BY <2>1 DEF SameRequest, Office, MessagesOf
  <2>2. CASE q.from = L /\ SentBy(node[L], q)
    BY <1>1, <2>2 DEF SentBy
  <2> QED
    BY <2>1, <2>2, OnlyLeaderSends
<1>8. MessagesOf(L)'
  BY <1>1, <1>3, <1>4, <1>5, <1>6, <1>7 DEF MessagesOf
<1>9. Untouched(L)'
  <2> SUFFICES ASSUME node[L].current_term = 0
               PROVE  /\ elections' = {} /\ voteRequests' = {} /\ voteReplies' = {}
                      /\ appendRequests' = {} /\ appendReplies' = {}
                      /\ node'[L].log = <<>>
    BY <1>1 DEF Untouched
  <2>1. /\ elections = {} /\ voteRequests = {} /\ voteReplies = {}
        /\ appendRequests = {} /\ appendReplies = {} /\ node[L].log = <<>>
    BY DEF Office, Untouched
  <2>2. node[L].role = "FOLLOWER"
    BY DEF Office, Alone
  <2>3. node'[L].log = <<>>
    BY <1>1, <2>1, <2>2 DEF Advances
  <2>4. appendRequests' = {}
    BY <2>1, OnlyLeaderSends
  <2> QED
    BY <2>1, <2>3, <2>4 DEF SentNow
<1> QED
  BY <1>8, <1>9

\* A plain step keeps what is carried, waited for and answered.
LEMMA PlainKeepsService ==
  ASSUME TypeOK, TypeOK', CallsGoToPeers, NEW L \in Node, Office(L), Plain,
         [Next]_vars, ServedNow
  PROVE  LedBy(L)'
<1>1. /\ Advances(node[L], node'[L])
      /\ node'[L].commit_index <= Len(node'[L].log)
      /\ \A n \in Node : Follows(node'[L], node'[n])
  BY PlainKeepsLogs
<1>2. /\ node[L] \in RaftState /\ node'[L] \in RaftState
      /\ node[L].commit_index <= Len(node[L].log)
      /\ Follows(node[L], node[L])
  BY DEF TypeOK, Office, LedBy
<1>3. ASSUME NEW q \in appendRequests'
      PROVE  Carries(node'[L], q)
  <2>1. q \in AppendRequest
    BY DEF TypeOK
  <2>2. CASE \E r \in appendRequests : SameRequest(r, q)
    <3>1. Carries(node[L], q)
      BY <2>2 DEF SameRequest, Carries, LastIndex, Office, LedBy
    <3> QED
      BY <1>1, <1>2, <2>1, <3>1, AdvanceKeeps
  <2>3. CASE SentBy(node[L], q) /\ UNCHANGED node
    BY <1>2, <2>1, <2>3, SentCarries
  <2> QED
    BY <2>2, <2>3, OnlyLeaderSends
<1>4. \A k, op : EntryIs(node[L], k, op) => EntryIs(node'[L], k, op)
  BY <1>1, <1>2, AdvanceKeeps
<1>5. ASSUME NEW w \in waiters'
      PROVE  w.node = L /\ EntryIs(node'[L], w.entry_id, w.op)
  <2>1. CASE \E v \in waiters :
               w.node = v.node /\ w.entry_id = v.entry_id /\ w.op = v.op
    BY <1>4, <2>1 DEF Office, LedBy
  <2>2. CASE /\ node[w.node].role = "LEADER" /\ w.op \in Op
             /\ node'[w.node] = Appended(node[w.node], w.node, w.op)
             /\ w.entry_id = Len(node[w.node].log) + 1
    <3>1. w.node \in Node
      BY DEF TypeOK, Waiter
    <3>2. w.node = L
      BY <2>2, <3>1 DEF Office, Alone
    <3> QED
      BY <1>2, <2>2, <3>2, AppendedAdvances
  <2> QED
    BY <2>1, <2>2 DEF ServedNow
<1>6. \A a \in answers :
        a.entry_id <= node'[L].commit_index /\ EntryIs(node'[L], a.entry_id, a.op)
  <2>1. ASSUME NEW a \in answers
        PROVE  a.entry_id <= node'[L].commit_index
    <3>1. a.entry_id \in Nat /\ a.entry_id <= node[L].commit_index
      BY DEF TypeOK, Reply, Office, LedBy
    <3> QED
      BY <1>1, <1>2, <3>1, LogTypes DEF Advances
  <2> QED
    BY <1>4, <2>1 DEF Office, LedBy
<1>7. ASSUME NEW a \in answers'
      PROVE  a.entry_id <= node'[L].commit_index /\ EntryIs(node'[L], a.entry_id, a.op)
  <2>1. CASE answers' = answers
    BY <1>6, <2>1
  <2>2. ASSUME NEW n \in Node, node[n].role = "LEADER",
               Len(node[n].log) + 1 <= node[n].commit_index
        PROVE  FALSE
    <3>1. n = L
      BY <2>2 DEF Office, Alone
    <3> QED
      BY <1>2, <2>2, <3>1, LogTypes
  <2>3. ASSUME NEW b, NEW w \in waiters, AnswersWaiter(b, w), UNCHANGED node,
               answers' = answers \cup {b}
        PROVE  a.entry_id <= node'[L].commit_index /\ EntryIs(node'[L], a.entry_id, a.op)
    BY <1>6, <2>3 DEF AnswersWaiter, Office, LedBy
  <2> QED
    BY <2>1, <2>2, <2>3 DEF ServedNow
<1> QED
  BY <1>1, <1>3, <1>5, <1>7 DEF LedBy

\* The first election timer to run out chooses the leader.
LEMMA TimeoutKeepsOffice ==
  ASSUME TypeOK, NEW L \in Node, Office(L), NEW n \in Node, ElectionTimeout(n),
         spent'.elections <= 1
  PROVE  Office(n)'
<1> USE ThreadTypes
<1>1. /\ node \in [Node -> RaftState] /\ fired \in [Node -> Nat]
      /\ spent \in [elections : Nat, failures : Nat, crashes : Nat]
      /\ waiters \subseteq Waiter /\ answers \subseteq Reply
  BY DEF TypeOK
<1>2. spent.elections = 0 /\ spent'.elections = 1
  BY <1>1 DEF ElectionTimeout
<1>3. fired[L] = 0 /\ node[L].current_term = 0 /\ node[L].role = "FOLLOWER"
  <2>1. fired[L] \in Nat /\ node[L].current_term \in Nat
    BY <1>1, LogTypes
  <2>2. fired[L] + node[L].current_term <= 0
    BY <1>2 DEF Office, Alone
  <2>3. node[L].role # "FOLLOWER" => node[L].current_term > 0
    BY DEF Office, Alone
  <2> QED
    BY <2>1, <2>2, <2>3
<1>4. \A m \in Node : /\ fired[m] = 0 /\ node[m].role = "FOLLOWER"
                      /\ node[m].current_term = 0
  <2>1. ASSUME NEW m \in Node PROVE node[m].current_term = 0
    <3>1. node[m].current_term \in Nat /\ node[m].current_term <= 0
      BY <1>1, <1>3, LogTypes DEF Office, Alone
    <3> QED
      BY <3>1
  <2> QED
    BY <1>3, <2>1 DEF Office, Alone
<1>5. /\ elections = {} /\ voteRequests = {} /\ voteReplies = {}
      /\ appendRequests = {} /\ appendReplies = {} /\ node[L].log = <<>>
  BY <1>3 DEF Office, Untouched
<1>6. Len(node[L].log) = 0 /\ node[L].commit_index = 0
  <2>1. Len(node[L].log) = 0
    BY <1>5
  <2>2. node[L].commit_index \in Nat /\ node[L].commit_index <= Len(node[L].log)
    BY <1>1, LogTypes DEF Office, LedBy
  <2> QED
    BY <2>1, <2>2
<1>7. ASSUME NEW m \in Node
      PROVE  /\ Len(node[m].log) = 0 /\ node[m].log = <<>>
             /\ node[m].commit_index = 0 /\ Len(node[m].applied) = 0
  <2>1. /\ Len(node[m].log) <= 0 /\ node[m].commit_index <= 0
        /\ Len(node[m].applied) = node[m].commit_index
    BY <1>6 DEF Office, LedBy, Follows
  <2>2. /\ node[m].log \in Seq(Entry) /\ Len(node[m].log) \in Nat
        /\ node[m].commit_index \in Nat
    BY <1>1, LogTypes
  <2>3. Len(node[m].log) = 0
    BY <2>1, <2>2
  <2> QED
    BY <2>1, <2>2, <2>3, EmptySeq
<1>8. waiters = {} /\ answers = {}
  <2>1. \A k, op : ~EntryIs(node[L], k, op)
    BY <1>6 DEF EntryIs
  <2> QED
    BY <2>1 DEF Office, LedBy
<1>9. \A m \in Node : /\ node'[m].log = node[m].log
                      /\ node'[m].commit_index = node[m].commit_index
                      /\ node'[m].applied = node[m].applied
                      /\ node'[m].current_term = node[m].current_term
                      /\ node'[m].role = node[m].role
  BY <1>1 DEF ElectionTimeout, RaftState
<1>10. /\ fired' = [fired EXCEPT ![n] = 1]
       /\ UNCHANGED <<elections, voteRequests, voteReplies, appendRequests,
                      appendReplies, waiters, answers>>
  <2>1. fired[n] + 1 = 1
    BY <1>4
  <2>2. fired' = [fired EXCEPT ![n] = 1]
    BY <2>1, Zenon DEF ElectionTimeout
  <2> QED
    BY <2>2 DEF ElectionTimeout, network, clients
<1>11. Alone(n)'
  BY <1>1, <1>2, <1>4, <1>9, <1>10 DEF Alone
<1>12. MessagesOf(n)' /\ Untouched(n)'
  BY <1>5, <1>7, <1>9, <1>10 DEF MessagesOf, Untouched
<1>13. LedBy(n)'
  BY <1>5, <1>7, <1>8, <1>9, <1>10 DEF LedBy, Follows
<1> QED
  BY <1>11, <1>12, <1>13 DEF Office

\* Only the leader has an election timer that has run out.
LEMMA StartKeepsOffice ==
  ASSUME TypeOK, NEW L \in Node, Office(L), NEW n \in Node, start_election(n),
         spent.elections <= 1
  PROVE  Office(L)'
<1> USE ThreadTypes
<1>1. /\ node \in [Node -> RaftState] /\ fired \in [Node -> Nat]
      /\ spent \in [elections : Nat, failures : Nat, crashes : Nat]
  BY DEF TypeOK
<1>2. fired[n] > 0 /\ n = L
  BY DEF start_election, Office, Alone
<1>3. node[L].current_term = 0 /\ fired[L] = 1
  <2>1. fired[L] \in Nat /\ node[L].current_term \in Nat
    BY <1>1, LogTypes
  <2>2. fired[L] + node[L].current_term <= 1
    <3>1. fired[L] + node[L].current_term <= spent.elections
      BY DEF Office, Alone
    <3> QED
      BY <1>1, <2>1, <3>1
  <2> QED
    BY <1>2, <2>1, <2>2
<1>4. /\ elections = {} /\ voteRequests = {} /\ voteReplies = {}
      /\ appendRequests = {} /\ appendReplies = {}
  BY <1>3 DEF Office, Untouched
<1>5. /\ \A m \in Node : /\ node'[m].log = node[m].log
                         /\ node'[m].commit_index = node[m].commit_index
                         /\ node'[m].applied = node[m].applied
      /\ node'[L].current_term = 1
      /\ \A m \in Node \ {L} : node'[m] = node[m] /\ fired'[m] = fired[m]
      /\ fired'[L] = 0
  <2>1. /\ node' = [node EXCEPT ![L] = Candidate(node[L], L)]
        /\ fired' = [fired EXCEPT ![L] = @ - 1]
    BY <1>2 DEF start_election, Candidate
  <2>2. /\ Candidate(node[L], L).log = node[L].log
        /\ Candidate(node[L], L).commit_index = node[L].commit_index
        /\ Candidate(node[L], L).applied = node[L].applied
        /\ Candidate(node[L], L).current_term = node[L].current_term + 1
    BY <1>1 DEF Candidate, RaftState
  <2> QED
    BY <1>1, <1>3, <2>1, <2>2
<1>6. /\ UNCHANGED <<voteRequests, voteReplies, appendRequests, appendReplies,
                     waiters, answers, spent>>
      /\ \A e \in elections' : e.node = L
  BY <1>2, <1>4 DEF start_election, network, clients
<1>7. Alone(L)'
  <2>1. \A m \in Node : node[m].current_term <= 0
    BY <1>3 DEF Office, Alone
  <2>2. 1 <= spent.elections
    BY <1>3 DEF Office, Alone
  <2>3. \A m \in Node : node[m].current_term \in Nat
    BY <1>1, LogTypes
  <2>4. \A m \in Node \ {L} : node'[m].role = "FOLLOWER" /\ fired'[m] = 0
    BY <1>5 DEF Office, Alone
  <2>5. \A m \in Node : node'[m].current_term <= 1
    BY <1>5, <2>1, <2>3
  <2> QED
    BY <1>5, <1>6, <2>2, <2>4, <2>5 DEF Alone
<1>8. MessagesOf(L)' /\ Untouched(L)'
  BY <1>4, <1>5, <1>6 DEF MessagesOf, Untouched
<1>9. LedBy(L)'
  <2>1. \A m \in Node : Follows(node'[L], node'[m])
    <3>1. \A m \in Node : Follows(node[L], node[m])
      BY DEF Office, LedBy
    <3>2. ASSUME NEW l, NEW l1, NEW s, NEW s1, Follows(l, s), SameLogs(l, l1),
                 SameLogs(s, s1)
          PROVE  Follows(l1, s1)
      BY <3>2 DEF Follows, SameLogs
    <3>3. \A m \in Node : SameLogs(node[m], node'[m])
      BY <1>5 DEF SameLogs
    <3> QED
      BY <3>1, <3>2, <3>3
  <2>2. \A k, op : EntryIs(node[L], k, op) => EntryIs(node'[L], k, op)
    BY <1>5 DEF EntryIs
  <2> QED
    BY <1>4, <1>5, <1>6, <2>1, <2>2 DEF Office, LedBy
<1> QED
  BY <1>7, <1>8, <1>9 DEF Office

\* A step keeps the leader, or the first timer chooses it.
LEMMA OfficeSteps ==
  ASSUME TypeOK, CallsGoToPeers, OneLeader, [Next]_vars, OneElection', Node # {}
  PROVE  \E L, M \in Node :
           /\ Office(L) /\ Office(M)'
           /\ \/ \E n \in Node : ElectionTimeout(n) \/ start_election(n)
              \/ L = M /\ Plain /\ ServedNow
<1>1. TypeOK'
  BY TypeNext
<1>2. /\ spent \in [elections : Nat, failures : Nat, crashes : Nat]
      /\ spent'.elections <= 1 /\ spent'.crashes = 0
  BY DEF TypeOK, OneElection
<1>3. spent.crashes = 0 /\ ~\E n \in Node : Crash(n)
  BY <1>2, CrashesCounted DEF Crash
<1>4. ASSUME NEW n \in Node, ElectionTimeout(n)
      PROVE  spent.elections <= 1
  BY <1>2, <1>4 DEF ElectionTimeout
<1>5. ASSUME NEW n \in Node, start_election(n)
      PROVE  spent.elections <= 1
  BY <1>2, <1>5 DEF start_election
<1>6. Plain => spent.elections <= 1
  BY <1>2 DEF Plain
<1>7. PICK L \in Node : Office(L)
  BY <1>3, <1>4, <1>5, <1>6, PlainSteps DEF OneLeader, OneElection
<1>8. ASSUME NEW n \in Node, ElectionTimeout(n)
      PROVE  Office(n)'
  BY <1>2, <1>7, <1>8, TimeoutKeepsOffice
<1>9. ASSUME NEW n \in Node, start_election(n)
      PROVE  Office(L)'
  BY <1>5, <1>7, <1>9, StartKeepsOffice
<1>10. ASSUME Plain, ~\E n \in Node : start_election(n)
       PROVE  Office(L)' /\ ServedNow
  <2>1. SentNow /\ ServedNow
    BY <1>3, <1>10, SentSteps, ServedSteps
  <2>2. Alone(L)'
    BY <1>1, <1>7, <1>10, PlainKeepsLogs
  <2>3. MessagesOf(L)' /\ Untouched(L)'
    BY <1>1, <1>7, <1>10, <2>1, PlainKeepsMessages
  <2>4. LedBy(L)'
    BY <1>1, <1>7, <1>10, <2>1, PlainKeepsService
  <2> QED
    BY <2>1, <2>2, <2>3, <2>4 DEF Office
<1> QED
  BY <1>3, <1>7, <1>8, <1>9, <1>10, PlainSteps

LEMMA OneLeaderNext ==
  ASSUME TypeOK, CallsGoToPeers, OneLeader, [Next]_vars
  PROVE  OneLeader'
<1>1. CASE OneElection' /\ Node # {}
  <2>1. \E M \in Node : Office(M)'
    BY <1>1, OfficeSteps
  <2> QED
    BY <2>1 DEF OneLeader
<1> QED
  BY <1>1 DEF OneLeader

LEMMA OneLeaderInit == Init => OneLeader
<1> SUFFICES ASSUME Init, NEW L \in Node PROVE Office(L)
  BY DEF OneLeader
<1>1. \A n \in Node : node[n] = InitialNode /\ fired[n] = 0
  BY DEF Init
<1>2. /\ InitialNode.role = "FOLLOWER" /\ InitialNode.current_term = 0
      /\ InitialNode.log = <<>> /\ InitialNode.commit_index = 0
      /\ InitialNode.applied = <<>>
  BY DEF InitialNode
<1>3. /\ elections = {} /\ voteRequests = {} /\ voteReplies = {}
      /\ appendRequests = {} /\ appendReplies = {} /\ waiters = {}
      /\ answers = {} /\ spent.elections = 0
  BY DEF Init
<1>4. Alone(L)
  BY <1>1, <1>2, <1>3 DEF Alone
<1>5. MessagesOf(L) /\ Untouched(L)
  BY <1>1, <1>2, <1>3 DEF MessagesOf, Untouched
<1>6. LedBy(L)
  BY <1>1, <1>2, <1>3 DEF LedBy, Follows
<1> QED
  BY <1>4, <1>5, <1>6 DEF Office

LEMMA OneLeaderInvariant == Spec => [](TypeOK /\ CallsGoToPeers /\ OneLeader)
<1>1. TypeOK /\ CallsGoToPeers /\ OneLeader /\ [Next]_vars => OneLeader'
  BY OneLeaderNext
<1> QED
  BY <1>1, OneLeaderInit, PeersInvariant, PTL DEF Spec

-----------------------------------------------------------------------------
(* What calls see of the servers.                                          *)

\* In one office, every position a call was answered with holds that call on
\* every server that gets there: requests that overtake each other and cut a
\* follower's log, and replies that come late, do no harm.
THEOREM ResultsOwn == Spec => [](OneElection => ResultsAreOwn)
<1>1. TypeOK /\ OneLeader => (OneElection => ResultsAreOwn)
  <2> SUFFICES ASSUME TypeOK, OneLeader, OneElection, NEW a \in answers,
                      Len(node[a.server].applied) >= a.entry_id
               PROVE  node[a.server].applied[a.entry_id].op = a.op
    BY DEF ResultsAreOwn
  <2>1. a.server \in Node /\ a.entry_id \in Nat
    BY DEF TypeOK, Reply
  <2>2. PICK L \in Node : Office(L)
    BY <2>1 DEF OneLeader
  <2>3. /\ a.entry_id \in 1..Len(node[L].log)
        /\ node[L].log[a.entry_id].op = a.op
        /\ Len(node[a.server].applied) = node[a.server].commit_index
        /\ \A i \in 1..node[a.server].commit_index :
             node[a.server].applied[i] = node[L].log[i]
    BY <2>1, <2>2 DEF Office, LedBy, EntryIs, Follows
  <2>4. node[a.server].commit_index \in Nat
    BY <2>1, LogTypes DEF TypeOK
  <2>5. a.entry_id \in 1..node[a.server].commit_index
    BY <2>1, <2>3, <2>4
  <2> QED
    BY <2>3, <2>5
<1> QED
  BY <1>1, OneLeaderInvariant, PTL

\* A step changes one node at most.
LEMMA OneChanges ==
  ASSUME TypeOK, [Next]_vars
  PROVE  \E k : \A n \in Node \ {k} : node'[n] = node[n]
<1>0. node \in [Node -> RaftState]
  BY DEF TypeOK
<1>1. ASSUME NEW k, NEW s, node' = [node EXCEPT ![k] = s]
      PROVE  \E j : \A n \in Node \ {j} : node'[n] = node[n]
  BY <1>0, <1>1
<1>2. ASSUME Elect
      PROVE  UNCHANGED node \/ \E k, s : node' = [node EXCEPT ![k] = s]
  <2>1. CASE \E n \in Node : ElectionTimeout(n)
    <3>1. PICK n \in Node : ElectionTimeout(n)
      BY <2>1
    <3>2. node' = [node EXCEPT ![n] = [node[n] EXCEPT !.election_timer = FALSE]]
      BY <3>1 DEF ElectionTimeout
    <3> QED
      BY <3>2
  <2> QED
    BY <1>2, <2>1 DEF Elect, start_election, SendRequestVote,
       RequestVoteFails, HandleRequestVoteReply, FinishElection, RequestVote
<1>3. ASSUME Replicate
      PROVE  UNCHANGED node \/ \E k, s : node' = [node EXCEPT ![k] = s]
  <2>1. CASE \E n \in Node : piggyback_heartbeat(n)
    <3>1. PICK n \in Node : piggyback_heartbeat(n)
      BY <2>1
    <3>2. node' = [node EXCEPT ![n] = [node[n] EXCEPT !.heartbeat_timer = FALSE]]
      BY <3>1 DEF piggyback_heartbeat
    <3> QED
      BY <3>2
  <2> QED
    BY <1>3, <2>1 DEF Replicate, SendAppendEntries, AppendEntriesFails,
       HandleAppendReply, FinishRound, AppendEntries
<1>4. ASSUME Serve \/ Fail \/ UNCHANGED vars
      PROVE  UNCHANGED node \/ \E k, s : node' = [node EXCEPT ![k] = s]
  BY <1>4 DEF Serve, Fail, replicate_entry, WaiterWakes, Crash, Restart, vars
<1> QED
  BY <1>1, <1>2, <1>3, <1>4 DEF Next

\* What the refinement takes for processed and answered.
Commands(n) == [i \in DOMAIN node[n].applied |-> node[n].applied[i].op]
Processed == [n \in Node |-> Commands(n)]
Answered == {[command |-> a.op, position |-> a.entry_id] : a \in answers}

\* What a server has applied is the leader's log, up to its commit_index.
LEMMA CommandsUpTo ==
  ASSUME NEW leader \in RaftState, leader.commit_index <= Len(leader.log),
         NEW s \in RaftState, Follows(leader, s)
  PROVE  [i \in DOMAIN s.applied |-> s.applied[i].op]
           = [i \in 1..s.commit_index |-> leader.log[i].op]
<1>1. DOMAIN s.applied = 1..s.commit_index
  BY LogTypes DEF Follows
<1>2. \A i \in 1..s.commit_index : s.applied[i] = leader.log[i]
  BY DEF Follows
<1> QED
  BY <1>1, <1>2

LEMMA PrefixOfFunction ==
  ASSUME NEW a \in Nat, NEW b \in Nat, a <= b, NEW f
  PROVE  Contract!IsPrefix([i \in 1..a |-> f[i]], [i \in 1..b |-> f[i]])
<1> DEFINE s == [i \in 1..a |-> f[i]]
           t == [i \in 1..b |-> f[i]]
           S == {f[i] : i \in 1..b}
<1>1. s \in Seq(S) /\ Len(s) = a /\ t \in Seq(S) /\ Len(t) = b
  OBVIOUS
<1>2. \A i \in 1..a : s[i] = t[i]
  OBVIOUS
<1> HIDE DEF s, t, S
<1>3. SubSeq(s, 1, a) = SubSeq(t, 1, a)
  BY <1>1, <1>2
<1>4. Contract!IsPrefix(s, t)
  BY <1>1, <1>3 DEF Contract!IsPrefix
<1> QED
  BY <1>4 DEF s, t

\* A server that applies more goes on in the leader's log.
LEMMA PlainMaps ==
  ASSUME TypeOK, TypeOK', CallsGoToPeers, [Next]_vars, NEW L \in Node,
         Office(L), Office(L)', Plain, answers' = answers
  PROVE  \/ UNCHANGED Processed /\ UNCHANGED Answered
         \/ \E n \in Node : Contract!Process(n)
<1>1. /\ node \in [Node -> RaftState] /\ node' \in [Node -> RaftState]
      /\ node[L] \in RaftState /\ node'[L] \in RaftState
  BY DEF TypeOK
<1> DEFINE f == [i \in Nat |-> node'[L].log[i].op]
           upto(b) == [i \in 1..b |-> f[i]]
           old(n) == node[n].commit_index
           new(n) == node'[n].commit_index
<1>2. \A n \in Node : old(n) \in Nat /\ new(n) \in Nat
  BY <1>1, LogTypes
<1>3. ASSUME NEW n \in Node PROVE Processed'[n] = upto(new(n))
  <2>1. /\ node'[n] \in RaftState /\ Follows(node'[L], node'[n])
        /\ node'[L].commit_index <= Len(node'[L].log)
    BY <1>1 DEF Office, LedBy
  <2>2. Commands(n)' = [i \in 1..new(n) |-> node'[L].log[i].op]
    BY <1>1, <2>1, CommandsUpTo DEF Commands
  <2>3. upto(new(n)) = [i \in 1..new(n) |-> node'[L].log[i].op]
    BY <1>2
  <2> QED
    BY <2>2, <2>3 DEF Processed
<1>4. ASSUME NEW n \in Node PROVE Processed[n] = upto(old(n))
  <2>1. /\ node[n] \in RaftState /\ Follows(node[L], node[n])
        /\ node[L].commit_index <= Len(node[L].log)
    BY <1>1 DEF Office, LedBy
  <2>2. Commands(n) = [i \in 1..old(n) |-> node[L].log[i].op]
    BY <1>1, <2>1, CommandsUpTo DEF Commands
  <2>3. old(n) <= Len(node[L].log)
    BY <1>1, <2>1, LogTypes DEF Follows
  <2>4. \A i \in 1..Len(node[L].log) : node'[L].log[i] = node[L].log[i]
    BY PlainKeepsLogs DEF Advances
  <2>5. Len(node[L].log) \in Nat
    BY <1>1, LogTypes
  <2>6. \A i \in 1..old(n) : f[i] = node[L].log[i].op
    BY <1>2, <2>3, <2>4, <2>5
  <2> QED
    BY <2>2, <2>6 DEF Processed
<1>5. UNCHANGED Answered
  BY DEF Answered
<1>6. \A a, b \in Nat : a <= b => Contract!IsPrefix(upto(a), upto(b))
  <2> HIDE DEF f
  <2> QED
    BY PrefixOfFunction
<1>7. \A a, b \in Nat : a # b => upto(a) # upto(b)
  <2>1. ASSUME NEW a \in Nat, NEW b \in Nat, a < b PROVE upto(a) # upto(b)
    <3>1. b \in 1..b /\ b \notin 1..a
      BY <2>1
    <3>2. DOMAIN upto(a) # DOMAIN upto(b)
      BY <3>1
    <3> QED
      BY <3>2
  <2> HIDE DEF upto
  <2> QED
    BY <2>1
<1> HIDE DEF upto, f
<1>8. ASSUME NEW n \in Node PROVE old(n) <= new(n)
  <2>1. CASE n = L
    BY <2>1, PlainKeepsLogs DEF Advances
  <2>2. CASE n # L
    BY <2>2, FollowerStep DEF Plain
  <2> QED
    BY <2>1, <2>2
<1> HIDE DEF old, new
<1>9. CASE \A n \in Node : old(n) = new(n)
  <2>1. \A n \in Node : Commands(n)' = Commands(n)
    BY <1>3, <1>4, <1>9 DEF Processed
  <2>2. UNCHANGED Processed
    BY <2>1 DEF Processed
  <2> QED
    BY <1>5, <2>2
<1>10. ASSUME NEW n \in Node, old(n) # new(n)
       PROVE  Contract!Process(n)
  <2>1. PICK k : \A m \in Node \ {k} : node'[m] = node[m]
    BY OneChanges
  <2>2. n = k
    BY <1>10, <2>1 DEF old, new
  <2>3. Contract!IsPrefix(Processed[n], Processed'[n]) /\ Processed[n] # Processed'[n]
    BY <1>2, <1>3, <1>4, <1>6, <1>7, <1>8, <1>10
  <2>4. ASSUME NEW q \in Node \ {n}
        PROVE  /\ Processed'[q] = Processed[q]
               /\ \/ Contract!IsPrefix(Processed[q], Processed'[n])
                  \/ Contract!IsPrefix(Processed'[n], Processed[q])
    <3>1. old(q) = new(q)
      BY <2>1, <2>2 DEF old, new
    <3>2. Processed'[q] = Processed[q]
      BY <1>3, <1>4, <3>1
    <3>3. old(q) <= new(n) \/ new(n) <= old(q)
      BY <1>2
    <3> QED
      BY <1>2, <1>3, <1>4, <1>6, <3>2, <3>3
  <2> QED
    BY <1>5, <2>3, <2>4
    DEF Contract!Process, Contract!IsStrictPrefix, Processed, Commands, Answered
<1> QED
  BY <1>9, <1>10

\* An answer is given from what the leader has processed.
LEMMA AnswerMaps ==
  ASSUME TypeOK, NEW L \in Node, Office(L), UNCHANGED node,
         NEW a, NEW w \in waiters, AnswersWaiter(a, w), answers' = answers \cup {a}
  PROVE  Contract!Answer(L)
<1>1. /\ node[L] \in RaftState /\ Follows(node[L], node[L])
      /\ node[L].commit_index <= Len(node[L].log)
  BY DEF TypeOK, Office, LedBy
<1>2. Commands(L) = [i \in 1..node[L].commit_index |-> node[L].log[i].op]
  BY <1>1, CommandsUpTo DEF Commands
<1>3. /\ w.node = L /\ w.entry_id \in 1..Len(node[L].log)
      /\ node[L].log[w.entry_id].op = w.op
  BY DEF Office, LedBy, EntryIs
<1>4. a.op = w.op /\ a.entry_id = w.entry_id /\ w.entry_id <= node[L].commit_index
  BY <1>3 DEF AnswersWaiter
<1>5. w.entry_id \in 1..node[L].commit_index
  BY <1>1, <1>3, <1>4, LogTypes
<1>6. w.entry_id \in DOMAIN Processed[L] /\ Processed[L][w.entry_id] = a.op
  BY <1>2, <1>3, <1>4, <1>5 DEF Processed
<1>7. Answered' = Answered \cup {[command |-> a.op, position |-> a.entry_id]}
  BY DEF Answered
<1>8. UNCHANGED Processed
  <2>1. \A n \in Node : Commands(n)' = Commands(n)
    BY DEF Commands
  <2> QED
    BY <2>1 DEF Processed
<1>9. Answered' = Answered \cup {[command |-> Processed[L][w.entry_id],
                                  position |-> w.entry_id]}
  BY <1>4, <1>6, <1>7
<1> QED
  BY <1>6, <1>8, <1>9 DEF Contract!Answer, Processed, Commands, Answered

LEMMA StepMaps ==
  ASSUME TypeOK, CallsGoToPeers, OneLeader, [Next]_vars, OneElection'
  PROVE  \/ UNCHANGED Processed /\ UNCHANGED Answered
         \/ \E n \in Node : Contract!Process(n) \/ Contract!Answer(n)
<1>1. TypeOK'
  BY TypeNext
<1>2. CASE Node = {}
  <2>1. answers = {} /\ answers' = {}
    BY <1>1, <1>2 DEF TypeOK, Reply
  <2> QED
    BY <1>2, <2>1 DEF Processed, Answered
<1>3. ASSUME NEW n \in Node, ElectionTimeout(n) \/ start_election(n)
      PROVE  UNCHANGED Processed /\ UNCHANGED Answered
  <2>1. node \in [Node -> RaftState]
    BY DEF TypeOK
  <2>2. UNCHANGED answers /\ \A m \in Node : node'[m].applied = node[m].applied
    <3>1. PICK s : /\ s \in {[node[n] EXCEPT !.election_timer = FALSE],
                             Candidate(node[n], n)}
                   /\ node' = [node EXCEPT ![n] = s] /\ UNCHANGED answers
      BY <1>3 DEF ElectionTimeout, start_election, clients, Candidate
    <3>2. s.applied = node[n].applied
      BY <2>1, <3>1 DEF RaftState, Candidate
    <3> QED
      BY <2>1, <3>1, <3>2
  <2>3. \A m \in Node : Commands(m)' = Commands(m)
    BY <2>2 DEF Commands
  <2> QED
    BY <2>2, <2>3 DEF Processed, Answered
<1>4. ASSUME NEW L \in Node, Office(L), Office(L)', Plain, ServedNow
      PROVE  \/ UNCHANGED Processed /\ UNCHANGED Answered
             \/ \E n \in Node : Contract!Process(n) \/ Contract!Answer(n)
  <2>1. CASE answers' = answers
    BY <1>1, <1>4, <2>1, PlainMaps
  <2>2. ASSUME NEW n \in Node, node[n].role = "LEADER",
               Len(node[n].log) + 1 <= node[n].commit_index
        PROVE  FALSE
    <3>1. n = L
      BY <1>4, <2>2 DEF Office, Alone
    <3>2. node[L] \in RaftState /\ node[L].commit_index <= Len(node[L].log)
      BY <1>4 DEF TypeOK, Office, LedBy
    <3> QED
      BY <2>2, <3>1, <3>2, LogTypes
  <2>3. ASSUME NEW a, NEW w \in waiters, AnswersWaiter(a, w),
               answers' = answers \cup {a}, UNCHANGED node
        PROVE  Contract!Answer(L)
    BY <1>4, <2>3, AnswerMaps
  <2> QED
    BY <1>4, <2>1, <2>2, <2>3 DEF ServedNow
<1>5. CASE Node # {}
  <2>1. PICK L, M \in Node :
          /\ Office(L) /\ Office(M)'
          /\ \/ \E n \in Node : ElectionTimeout(n) \/ start_election(n)
             \/ L = M /\ Plain /\ ServedNow
    BY <1>5, OfficeSteps
  <2> QED
    BY <1>3, <1>4, <2>1
<1> QED
  BY <1>2, <1>5

\* With one election and nobody killed, the servers and what they answer are a
\* replicated log.
THEOREM OneOfficeImplementsReplicatedLog ==
  Spec /\ []OneElection => ReplicatedLogSpec
<1>1. Init => Contract!Init
  <2> SUFFICES ASSUME Init PROVE Contract!Init
    OBVIOUS
  <2>1. ASSUME NEW n \in Node PROVE Commands(n) = <<>>
    <3>1. node[n].applied = <<>>
      BY DEF Init, InitialNode
    <3> QED
      BY <3>1 DEF Commands
  <2>2. Processed = [n \in Node |-> <<>>] /\ Answered = {}
    BY <2>1 DEF Processed, Init, Answered
  <2> QED
    BY <2>2 DEF Contract!Init, Processed, Commands, Answered
<1>2. /\ TypeOK /\ CallsGoToPeers /\ OneLeader
      /\ [Next]_vars /\ OneElection'
      => [Contract!Next]_Contract!vars
  <2> SUFFICES ASSUME TypeOK, CallsGoToPeers, OneLeader, [Next]_vars, OneElection'
               PROVE  [Contract!Next]_Contract!vars
    OBVIOUS
  <2>1. CASE UNCHANGED Processed /\ UNCHANGED Answered
    BY <2>1 DEF Contract!vars, Processed, Commands, Answered
  <2>2. CASE \E n \in Node : Contract!Process(n) \/ Contract!Answer(n)
    BY <2>2 DEF Contract!Next
  <2> QED
    BY <2>1, <2>2, StepMaps
<1> QED
  BY <1>1, <1>2, OneLeaderInvariant, PTL DEF Spec, ReplicatedLogSpec, Contract!Spec
=============================================================================
