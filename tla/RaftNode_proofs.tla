--------------------------- MODULE RaftNode_proofs ---------------------------
(***************************************************************************)
(* Theorems about RaftNode, for every number of servers, every set of      *)
(* calls and every value of the bounds.                                    *)
(***************************************************************************)
EXTENDS RaftNode, SequenceTheorems, FiniteSetTheorems, NaturalLemmas, TLAPS

USE ConstantsAssumption

-----------------------------------------------------------------------------
(* The helpers keep the type of a RaftNode.                                *)

LEMMA TimersType ==
  ASSUME NEW s \in RaftState
  PROVE  /\ reset_election_timer(s) \in RaftState
         /\ reset_heartbeat_timer(s) \in RaftState
         /\ schedule_heartbeat(s) \in RaftState
BY DEF RaftState, reset_election_timer, reset_heartbeat_timer,
       schedule_heartbeat

LEMMA DowngradeType ==
  ASSUME NEW s \in RaftState, NEW term \in Nat
  PROVE  downgrade_to_follower(s, term) \in RaftState
BY DEF RaftState, Role, reset_election_timer, downgrade_to_follower

LEMMA BecomeLeaderType ==
  ASSUME NEW s \in RaftState, NEW n \in Node
  PROVE  become_leader(s, n) \in RaftState
<1>1. Len(s.log) \in Nat
  BY DEF RaftState
<1>2. /\ [i \in Node |-> Len(s.log) + 1] \in [Node -> Nat \ {0}]
      /\ [i \in Node |-> IF i = n THEN Len(s.log) ELSE 0] \in [Node -> Nat]
  BY <1>1
<1> QED
  BY <1>2 DEF RaftState, Role, schedule_heartbeat, become_leader

LEMMA SliceType ==
  ASSUME NEW log \in Seq(Entry), NEW i \in Nat, NEW j \in Nat, j <= Len(log)
  PROVE  /\ SubSeq(log, i + 1, j) \in Seq(Entry)
         /\ Len(SubSeq(log, i + 1, j)) = IF i < j THEN j - i ELSE 0
BY SubSeqProperties

LEMMA CommitUpToType ==
  ASSUME NEW s \in RaftState, NEW index \in Nat
  PROVE  CommitUpTo(s, index) \in RaftState
<1> DEFINE end == IF index <= Len(s.log) THEN index ELSE Len(s.log)
<1>1. /\ s.log \in Seq(Entry) /\ s.commit_index \in Nat
      /\ s.applied \in Seq(Entry)
  BY DEF RaftState
<1>2. end \in Nat /\ end <= Len(s.log)
  BY <1>1
<1>3. SubSeq(s.log, s.commit_index + 1, end) \in Seq(Entry)
  BY <1>1, <1>2, SliceType
<1>4. s.applied \o SubSeq(s.log, s.commit_index + 1, end) \in Seq(Entry)
  BY <1>1, <1>3, ConcatProperties
<1>5. CommitUpTo(s, index) =
        [[s EXCEPT !.applied = s.applied
                     \o SubSeq(s.log, s.commit_index + 1, end)] EXCEPT
           !.commit_index = index]
  BY DEF CommitUpTo
<1> HIDE DEF end
<1> QED
  BY <1>4, <1>5 DEF RaftState

LEMMA TermAtType ==
  ASSUME NEW log \in Seq(Entry), NEW i \in Nat, i <= Len(log)
  PROVE  TermAt(log, i) \in Nat
<1>1. CASE i = 0
  BY <1>1 DEF TermAt
<1>2. CASE i # 0
  <2>1. log[i] \in Entry
    BY <1>2, ElementOfSeq
  <2> QED
    BY <1>2, <2>1 DEF TermAt, Entry
<1> QED
  BY <1>1, <1>2

LEMMA FollowLeaderType ==
  ASSUME NEW s \in RaftState, NEW r \in AppendRequest
  PROVE  /\ FollowLeader(s, r) \in RaftState
         /\ FollowLeader(s, r).log = s.log
         /\ FollowLeader(s, r).applied = s.applied
         /\ FollowLeader(s, r).commit_index = s.commit_index
<1>1. r.term \in Nat /\ r.from \in Node
  BY DEF AppendRequest
<1> DEFINE s1 == IF s.role # "FOLLOWER"
                 THEN downgrade_to_follower(s, r.term) ELSE s
<1>2. s1 \in RaftState
  BY <1>1, DowngradeType
<1>3. /\ s1.log = s.log
      /\ s1.applied = s.applied
      /\ s1.commit_index = s.commit_index
  BY DEF RaftState, downgrade_to_follower, reset_election_timer
<1> HIDE DEF s1
<1>4. FollowLeader(s, r) =
        [[[s1 EXCEPT !.current_term = r.term] EXCEPT
           !.current_leader = r.from] EXCEPT !.election_timer = TRUE]
  BY DEF s1, FollowLeader, reset_election_timer
<1> QED
  BY <1>1, <1>2, <1>3, <1>4 DEF RaftState

LEMMA StoreEntriesType ==
  ASSUME NEW s \in RaftState, NEW r \in AppendRequest,
         r.prevLogIndex <= Len(s.log)
  PROVE  /\ StoreEntries(s, r) \in RaftState
         /\ StoreEntries(s, r).applied = s.applied
         /\ StoreEntries(s, r).commit_index = s.commit_index
         /\ LastIndex(r) \in Nat
         /\ LastIndex(r) <= Len(StoreEntries(s, r).log)
<1>1. /\ r.prevLogIndex \in Nat /\ r.entries \in Seq(Entry)
      /\ s.log \in Seq(Entry)
  BY DEF AppendRequest, RaftState
<1> DEFINE kept == SubSeq(s.log, 1, r.prevLogIndex)
<1>2. kept \in Seq(Entry) /\ Len(kept) = r.prevLogIndex
  BY <1>1, SliceType, 0 \in Nat
<1> HIDE DEF kept
<1>3. /\ kept \o r.entries \in Seq(Entry)
      /\ Len(kept \o r.entries) = r.prevLogIndex + Len(r.entries)
  BY <1>1, <1>2, ConcatProperties
<1>4. LastIndex(r) \in Nat
  BY <1>1 DEF LastIndex
<1>5. CASE r.entries = <<>>
  BY <1>1, <1>4, <1>5 DEF StoreEntries, LastIndex
<1>6. CASE r.entries # <<>>
  <2> DEFINE new == kept \o r.entries
  <2>1. StoreEntries(s, r) = [s EXCEPT !.log = new]
    BY <1>6 DEF StoreEntries, kept
  <2>2. new \in Seq(Entry) /\ Len(new) = LastIndex(r)
    BY <1>3 DEF LastIndex
  <2> HIDE DEF new
  <2>3. [s EXCEPT !.log = new] \in RaftState
    BY <2>2 DEF RaftState
  <2>4. /\ [s EXCEPT !.log = new].log = new
        /\ [s EXCEPT !.log = new].applied = s.applied
        /\ [s EXCEPT !.log = new].commit_index = s.commit_index
    BY DEF RaftState
  <2> QED
    BY <2>1, <2>2, <2>3, <2>4, <1>4
<1> QED
  BY <1>5, <1>6

LEMMA AfterAppendEntriesType ==
  ASSUME NEW s \in RaftState, NEW r \in AppendRequest
  PROVE  /\ AfterAppendEntries(s, r).state \in RaftState
         /\ AfterAppendEntries(s, r).success \in BOOLEAN
<1> DEFINE follower == FollowLeader(s, r)
           stored == StoreEntries(follower, r)
           commit == IF r.leaderCommit < LastIndex(r)
                     THEN r.leaderCommit ELSE LastIndex(r)
           cut == [follower EXCEPT !.log = SubSeq(@, 1, r.prevLogIndex - 1)]
<1>1. follower \in RaftState /\ follower.log = s.log
  BY FollowLeaderType
<1>2. /\ r.leaderCommit \in Nat /\ r.prevLogIndex \in Nat
      /\ s.log \in Seq(Entry)
  BY DEF AppendRequest, RaftState
<1>3. ASSUME r.prevLogIndex <= Len(s.log)
      PROVE  stored \in RaftState /\ CommitUpTo(stored, commit) \in RaftState
  <2>1. stored \in RaftState /\ LastIndex(r) \in Nat
    BY <1>1, <1>3, StoreEntriesType
  <2>2. commit \in Nat
    BY <1>2, <2>1
  <2> QED
    BY <2>1, <2>2, CommitUpToType
<1>4. ASSUME r.prevLogIndex <= Len(s.log)
      PROVE  cut \in RaftState
  <2>1. SubSeq(s.log, 1, r.prevLogIndex - 1) \in Seq(Entry)
    BY <1>2, <1>4, SubSeqProperties
  <2> QED
    BY <1>1, <2>1 DEF RaftState
<1>5. Len(s.log) \in Nat
  BY <1>2
<1> HIDE DEF follower, stored, commit, cut
<1>6. AfterAppendEntries(s, r) =
        IF RefusesTerm(s, r.term)
        THEN [state |-> s, success |-> FALSE]
        ELSE IF r.prevLogIndex > Len(s.log)
        THEN [state |-> follower, success |-> FALSE]
        ELSE IF TermAt(s.log, r.prevLogIndex) # r.prevLogTerm
        THEN [state |-> cut, success |-> FALSE]
        ELSE [state |-> IF s.commit_index < r.leaderCommit
                        THEN CommitUpTo(stored, commit) ELSE stored,
              success |-> TRUE]
  BY DEF AfterAppendEntries, follower, stored, commit, cut
<1> QED
  BY <1>1, <1>2, <1>3, <1>4, <1>5, <1>6

LEMMA MatchType ==
  ASSUME NEW s \in RaftState, NEW m \in AppendReply
  PROVE  [s EXCEPT !.match_index[m.to] = m.matched,
                   !.next_index[m.to] = m.matched + 1] \in RaftState
<1> DEFINE next == [s.next_index EXCEPT ![m.to] = m.matched + 1]
           match == [s.match_index EXCEPT ![m.to] = m.matched]
           s1 == [s EXCEPT !.match_index[m.to] = m.matched,
                           !.next_index[m.to] = m.matched + 1]
<1>1. m.matched \in Nat /\ m.to \in Node
  BY DEF AppendReply
<1>2. /\ s.next_index \in [Node -> Nat \ {0}]
      /\ s.match_index \in [Node -> Nat]
  BY DEF RaftState
<1>3. next \in [Node -> Nat \ {0}] /\ match \in [Node -> Nat]
  BY <1>1, <1>2
<1>4. s1 = [[s EXCEPT !.match_index = match] EXCEPT !.next_index = next]
  BY DEF RaftState
<1> HIDE DEF next, match, s1
<1>5. s1 \in RaftState
  BY <1>3, <1>4 DEF RaftState
<1> QED
  BY <1>5 DEF s1

LEMMA AfterAppendReplyType ==
  ASSUME NEW s \in RaftState, NEW m \in AppendReply
  PROVE  AfterAppendReply(s, m) \in RaftState
<1> DEFINE s1 == [s EXCEPT !.match_index[m.to] = m.matched,
                           !.next_index[m.to] = m.matched + 1]
           median == get_match_index_median(s1)
<1>1. /\ m.term \in Nat /\ m.matched \in Nat /\ m.to \in Node
      /\ s.commit_index \in Nat /\ s.log \in Seq(Entry)
  BY DEF AppendReply, RaftState
<1>2. downgrade_to_follower(s, m.term) \in RaftState
  BY <1>1, DowngradeType
<1>3. DecrementNext(s, m.to) \in RaftState
  <2>1. s.next_index \in [Node -> Nat \ {0}]
    BY DEF RaftState
  <2> DEFINE next == [s.next_index EXCEPT ![m.to] = IF @ # 1 THEN @ - 1 ELSE @]
  <2>2. next \in [Node -> Nat \ {0}]
    BY <1>1, <2>1
  <2>3. DecrementNext(s, m.to) = [s EXCEPT !.next_index = next]
    BY DEF DecrementNext
  <2> HIDE DEF next
  <2> QED
    BY <2>2, <2>3 DEF RaftState
<1>4. s1 \in RaftState
  BY MatchType
<1> HIDE DEF s1
<1>5. ASSUME median \in (s.commit_index + 1)..Len(s.log)
      PROVE  CommitUpTo(s1, median) \in RaftState
  <2>1. median \in Nat
    BY <1>1, <1>5
  <2> QED
    BY <1>4, <2>1, CommitUpToType
<1> HIDE DEF median
<1>6. AfterAppendReply(s, m) =
        IF StepsDown(s, m) THEN downgrade_to_follower(s, m.term)
        ELSE IF ~m.success THEN DecrementNext(s, m.to)
        ELSE IF /\ median \in (s.commit_index + 1)..Len(s.log)
                /\ s.log[median].term = s.current_term
        THEN CommitUpTo(s1, median) ELSE s1
  BY DEF AfterAppendReply, s1, median
<1> QED
  BY <1>2, <1>3, <1>4, <1>5, <1>6

LEMMA AfterRequestVoteType ==
  ASSUME NEW s \in RaftState, NEW r \in VoteRequest
  PROVE  /\ AfterRequestVote(s, r).state \in RaftState
         /\ AfterRequestVote(s, r).granted \in BOOLEAN
<1> DEFINE s1 == IF r.term > s.current_term
                 THEN downgrade_to_follower(s, r.term) ELSE s
           voted == reset_election_timer([s1 EXCEPT !.voted_for = r.from])
           granted == ~RefusesTerm(s, r.term) /\ VoteGranted(s1, r)
<1>1. r.term \in Nat /\ r.from \in Node
  BY DEF VoteRequest
<1>2. s1 \in RaftState
  BY <1>1, DowngradeType
<1> HIDE DEF s1
<1>3. [s1 EXCEPT !.voted_for = r.from] \in RaftState
  BY <1>1, <1>2 DEF RaftState
<1>4. voted \in RaftState
  BY <1>3, TimersType
<1>5. granted \in BOOLEAN
  BY DEF VoteGranted
<1> HIDE DEF voted, granted
<1>6. AfterRequestVote(s, r) =
        [state |-> IF granted THEN voted ELSE s1, granted |-> granted]
  BY DEF AfterRequestVote, s1, voted, granted
<1> QED
  BY <1>2, <1>4, <1>5, <1>6

-----------------------------------------------------------------------------
(* Type correctness.                                                       *)

\* What every step reads of the type of the threads it is about.
LEMMA ThreadTypes ==
  ASSUME TypeOK
  PROVE  /\ \A n \in Node : node[n] \in RaftState
         /\ \A e \in elections : /\ e.node \in Node /\ e.term \in Nat
                                 /\ e.votes \in Nat
                                 /\ e.spawned \subseteq Node
                                 /\ e.waiting \subseteq Node
         /\ \A t \in rounds : /\ t.node \in Node /\ t.slot \in Slot
                              /\ t.spawned \subseteq Node
                              /\ t.waiting \subseteq Node
         /\ \A w \in waiters : w.node \in Node /\ w.entry_id \in Nat
BY DEF TypeOK, Election, Round, Waiter

\* The steps of an election keep the type.
LEMMA TypeElect ==
  ASSUME TypeOK, Elect
  PROVE  TypeOK'
<1> USE ThreadTypes
<1>1. ASSUME NEW n \in Node, ElectionTimeout(n)
      PROVE  TypeOK'
  <2>1. [node[n] EXCEPT !.election_timer = FALSE] \in RaftState
    BY DEF RaftState
  <2> DEFINE s == [node[n] EXCEPT !.election_timer = FALSE]
  <2>2. node' = [node EXCEPT ![n] = s]
    BY <1>1 DEF ElectionTimeout
  <2> HIDE DEF s
  <2> QED
    BY <1>1, <2>1, <2>2
    DEF TypeOK, ElectionTimeout, network, clients, s
<1>2. ASSUME NEW n \in Node, start_election(n)
      PROVE  TypeOK'
  <2> DEFINE s == [node[n] EXCEPT !.role = "CANDIDATE", !.current_term = @ + 1,
                                  !.voted_for = n, !.current_leader = None]
  <2>1. s \in RaftState
    <3>1. node[n] \in RaftState /\ node[n].current_term + 1 \in Nat
      BY DEF RaftState
    <3> QED
      BY <3>1 DEF RaftState, Role
  <2> DEFINE e == [node |-> n, term |-> s.current_term, votes |-> 1,
                   spawned |-> Others(n), waiting |-> {}]
  <2>2. e \in Election
    BY <2>1 DEF Election, RaftState, Others
  <2>3. /\ node' = [node EXCEPT ![n] = s]
        /\ elections' = elections \cup {e}
        /\ fired[n] > 0 /\ fired' = [fired EXCEPT ![n] = @ - 1]
        /\ UNCHANGED <<up, rounds, network, clients, spent>>
    BY <1>2 DEF start_election
  <2> HIDE DEF s, e
  <2> QED
    BY <2>1, <2>2, <2>3 DEF TypeOK, network, clients
<1>3. ASSUME NEW e \in elections, NEW i \in Node, SendRequestVote(e, i)
      PROVE  TypeOK'
  <2> DEFINE s == node[e.node]
             e1 == [e EXCEPT !.spawned = @ \ {i}, !.waiting = @ \cup {i}]
             r == [from |-> e.node, to |-> i, election |-> e.term, live |-> TRUE,
                   term |-> s.current_term, lastLogIndex |-> Len(s.log),
                   lastLogTerm |-> TermAt(s.log, Len(s.log))]
  <2>1. e1 \in Election
    BY DEF TypeOK, Election
  <2>2. s.log \in Seq(Entry) /\ s.current_term \in Nat /\ Len(s.log) \in Nat
    BY DEF RaftState
  <2>3. r \in VoteRequest
    BY <2>2, TermAtType DEF VoteRequest
  <2>4. /\ elections' = Replace(elections, e, e1)
        /\ voteRequests' = voteRequests \cup {r}
        /\ UNCHANGED <<node, up, fired, rounds, voteReplies, appendRequests,
                       appendReplies, clients, spent>>
    BY <1>3 DEF SendRequestVote
  <2> HIDE DEF s, e1, r
  <2> QED
    BY <2>1, <2>3, <2>4 DEF TypeOK, Replace, clients
<1>4. ASSUME NEW e \in elections, NEW i \in Node, RequestVoteFails(e, i)
      PROVE  TypeOK'
  <2>1. [e EXCEPT !.waiting = @ \ {i}] \in Election
    BY DEF TypeOK, Election
  <2>2. voteRequests' \subseteq VoteRequest
    <3>1. \A r \in voteRequests : [r EXCEPT !.live = FALSE] \in VoteRequest
      BY DEF TypeOK, VoteRequest
    <3> QED
      BY <1>4, <3>1 DEF TypeOK, RequestVoteFails
  <2>3. spent' \in [elections : Nat, failures : Nat, crashes : Nat]
    BY <1>4 DEF TypeOK, RequestVoteFails, CountFailure
  <2> QED
    BY <1>4, <2>1, <2>2, <2>3 DEF TypeOK, RequestVoteFails, Replace, clients
<1>5. ASSUME NEW e \in elections, NEW m \in voteReplies,
             HandleRequestVoteReply(e, m)
      PROVE  TypeOK'
  <2> DEFINE s == node[e.node]
             s1 == IF StepsDown(s, m)
                   THEN downgrade_to_follower(s, s.current_term) ELSE s
             e1 == [e EXCEPT !.waiting = @ \ {m.to},
                             !.votes = IF m.voteGranted THEN @ + 1 ELSE @]
  <2>1. s1 \in RaftState
    <3>1. s.current_term \in Nat
      BY DEF RaftState
    <3> QED
      BY <3>1, DowngradeType
  <2>2. e1 \in Election
    <3>1. /\ e \in Election
          /\ (IF m.voteGranted THEN e.votes + 1 ELSE e.votes) \in Nat
      BY DEF TypeOK, Election
    <3> QED
      BY <3>1 DEF Election
  <2>3. /\ node' = [node EXCEPT ![e.node] = s1]
        /\ elections' = Replace(elections, e, e1)
        /\ voteReplies' = voteReplies \ {m}
        /\ UNCHANGED <<up, fired, rounds, voteRequests, appendRequests,
                       appendReplies, clients, spent>>
    BY <1>5 DEF HandleRequestVoteReply
  <2> HIDE DEF s, s1, e1
  <2> QED
    BY <2>1, <2>2, <2>3 DEF TypeOK, Replace, clients
<1>6. ASSUME NEW e \in elections, FinishElection(e)
      PROVE  TypeOK'
  <2> DEFINE s == node[e.node]
             s1 == IF s.role = "CANDIDATE" /\ e.votes >= majority_cnt
                   THEN become_leader(s, e.node) ELSE reset_election_timer(s)
  <2>1. s1 \in RaftState
    BY BecomeLeaderType, TimersType
  <2>2. /\ node' = [node EXCEPT ![e.node] = s1]
        /\ elections' = elections \ {e}
        /\ UNCHANGED <<up, fired, rounds, network, clients, spent>>
    BY <1>6 DEF FinishElection
  <2> HIDE DEF s1
  <2> QED
    BY <2>1, <2>2 DEF TypeOK, network, clients
<1>7. ASSUME NEW r \in voteRequests, RequestVote(r)
      PROVE  TypeOK'
  <2> DEFINE s == node[r.to]
             after == AfterRequestVote(s, r)
             m == [from |-> r.from, to |-> r.to, election |-> r.election,
                   term |-> s.current_term, voteGranted |-> after.granted]
  <2>1. /\ r \in VoteRequest /\ r.to \in Node /\ r.from \in Node
        /\ r.election \in Nat
    BY DEF TypeOK, VoteRequest
  <2>2. after.state \in RaftState /\ after.granted \in BOOLEAN
    BY <2>1, AfterRequestVoteType
  <2> HIDE DEF after
  <2>3. m \in VoteReply
    BY <2>1, <2>2 DEF VoteReply, RaftState
  <2>4. /\ node' = [node EXCEPT ![r.to] = after.state]
        /\ voteRequests' = voteRequests \ {r}
        /\ voteReplies' = IF r.live THEN voteReplies \cup {m} ELSE voteReplies
        /\ UNCHANGED <<up, threads, appendRequests, appendReplies, clients,
                       spent>>
    BY <1>7 DEF RequestVote, after
  <2> HIDE DEF s, m
  <2> QED
    BY <2>1, <2>2, <2>3, <2>4 DEF TypeOK, threads, clients
<1> QED
  BY <1>1, <1>2, <1>3, <1>4, <1>5, <1>6, <1>7 DEF Elect

\* The steps of a round of heartbeats keep the type.
LEMMA TypeReplicate ==
  ASSUME TypeOK, Replicate
  PROVE  TypeOK'
<1> USE ThreadTypes
<1>1. ASSUME NEW n \in Node, piggyback_heartbeat(n)
      PROVE  TypeOK'
  <2> DEFINE s == [node[n] EXCEPT !.heartbeat_timer = FALSE]
  <2>1. s \in RaftState
    BY DEF RaftState
  <2>2. PICK p \in Slot :
          rounds' = rounds \cup {[node |-> n, slot |-> p,
                                  spawned |-> Others(n), waiting |-> {}]}
    BY <1>1 DEF piggyback_heartbeat
  <2>3. [node |-> n, slot |-> p, spawned |-> Others(n), waiting |-> {}] \in Round
    BY DEF Round, Others
  <2>4. /\ node' = [node EXCEPT ![n] = s]
        /\ UNCHANGED <<up, fired, elections, network, clients, spent>>
    BY <1>1 DEF piggyback_heartbeat
  <2> HIDE DEF s
  <2> QED
    BY <2>1, <2>2, <2>3, <2>4 DEF TypeOK, network, clients
<1>2. ASSUME NEW t \in rounds, NEW i \in Node, SendAppendEntries(t, i)
      PROVE  TypeOK'
  <2> DEFINE s == node[t.node]
             prev == s.next_index[i] - 1
             r == [from |-> t.node, to |-> i, slot |-> t.slot, live |-> TRUE,
                   term |-> s.current_term,
                   prevLogIndex |-> prev, prevLogTerm |-> TermAt(s.log, prev),
                   entries |-> SubSeq(s.log, prev + 1, Len(s.log)),
                   leaderCommit |-> s.commit_index]
  <2>1. [t EXCEPT !.spawned = @ \ {i}, !.waiting = @ \cup {i}] \in Round
    BY DEF TypeOK, Round
  <2>2. [t EXCEPT !.spawned = @ \ {i}] \in Round
    BY DEF TypeOK, Round
  <2>3. /\ s.log \in Seq(Entry) /\ Len(s.log) \in Nat
        /\ s.current_term \in Nat /\ s.commit_index \in Nat
        /\ s.next_index \in [Node -> Nat \ {0}]
    BY DEF RaftState
  <2>4. prev \in Nat
    BY <2>3
  <2>5. ASSUME prev <= Len(s.log)
        PROVE  r \in AppendRequest
    <3>1. SubSeq(s.log, prev + 1, Len(s.log)) \in Seq(Entry)
      BY <2>3, <2>4, SliceType
    <3>2. TermAt(s.log, prev) \in Nat
      BY <2>3, <2>4, <2>5, TermAtType
    <3> HIDE DEF prev, s
    <3> QED
      BY <2>3, <2>4, <3>1, <3>2 DEF AppendRequest, s
  <2>6. UNCHANGED <<node, up, fired, elections, voteRequests, voteReplies,
                    appendReplies, clients, spent>>
    BY <1>2 DEF SendAppendEntries
  <2>7. rounds' \subseteq Round
    BY <1>2, <2>1, <2>2 DEF TypeOK, SendAppendEntries, Replace
  <2>8. appendRequests' \subseteq AppendRequest
    <3>1. \/ prev <= Len(s.log) /\ appendRequests' = appendRequests \cup {r}
          \/ UNCHANGED appendRequests
      BY <1>2 DEF SendAppendEntries, PrevLogTerm
    <3> HIDE DEF r, prev
    <3> QED
      BY <2>5, <3>1 DEF TypeOK
  <2> QED
    BY <2>6, <2>7, <2>8 DEF TypeOK, clients
<1>3. ASSUME NEW t \in rounds, NEW i \in Node, AppendEntriesFails(t, i)
      PROVE  TypeOK'
  <2>1. [t EXCEPT !.waiting = @ \ {i}] \in Round
    BY DEF TypeOK, Round
  <2>2. appendRequests' \subseteq AppendRequest
    <3>1. \A r \in appendRequests : [r EXCEPT !.live = FALSE] \in AppendRequest
      BY DEF TypeOK, AppendRequest
    <3> QED
      BY <1>3, <3>1 DEF TypeOK, AppendEntriesFails
  <2>3. spent' \in [elections : Nat, failures : Nat, crashes : Nat]
    BY <1>3 DEF TypeOK, AppendEntriesFails, CountFailure
  <2> QED
    BY <1>3, <2>1, <2>2, <2>3 DEF TypeOK, AppendEntriesFails, Replace, clients
<1>4. ASSUME NEW t \in rounds, NEW m \in appendReplies, HandleAppendReply(t, m)
      PROVE  TypeOK'
  <2> DEFINE s == node[t.node]
             after == AfterAppendReply(s, m)
  <2>1. after \in RaftState
    BY AfterAppendReplyType DEF TypeOK
  <2>2. [t EXCEPT !.waiting = @ \ {m.to}] \in Round
    BY DEF TypeOK, Round
  <2>3. waiters' \subseteq Waiter
    <3>1. \A w \in waiters :
            [w EXCEPT !.awake = (@ \/ w.node = t.node)] \in Waiter
      BY DEF TypeOK, Waiter
    <3> QED
      BY <1>4, <3>1 DEF TypeOK, HandleAppendReply, NotifyAll
  <2>4. /\ node' = [node EXCEPT ![t.node] = after]
        /\ rounds' = Replace(rounds, t, [t EXCEPT !.waiting = @ \ {m.to}])
        /\ appendReplies' = appendReplies \ {m}
        /\ UNCHANGED <<up, fired, elections, voteRequests, voteReplies,
                       appendRequests, calls, answers, spent>>
    BY <1>4 DEF HandleAppendReply
  <2> HIDE DEF s, after
  <2> QED
    BY <2>1, <2>2, <2>3, <2>4 DEF TypeOK, Replace
<1>5. ASSUME NEW t \in rounds, FinishRound(t)
      PROVE  TypeOK'
  <2> DEFINE s == node[t.node]
             s1 == IF s.role = "LEADER" THEN reset_heartbeat_timer(s) ELSE s
  <2>1. s1 \in RaftState
    BY TimersType
  <2>2. /\ node' = [node EXCEPT ![t.node] = s1]
        /\ rounds' = rounds \ {t}
        /\ UNCHANGED <<up, fired, elections, network, clients, spent>>
    BY <1>5 DEF FinishRound
  <2> HIDE DEF s1
  <2> QED
    BY <2>1, <2>2 DEF TypeOK, network, clients
<1>6. ASSUME NEW r \in appendRequests, AppendEntries(r)
      PROVE  TypeOK'
  <2> DEFINE s == node[r.to]
             after == AfterAppendEntries(s, r)
             m == [from |-> r.from, to |-> r.to, slot |-> r.slot,
                   matched |-> LastIndex(r),
                   term |-> s.current_term, success |-> after.success]
  <2>1. /\ r \in AppendRequest /\ r.to \in Node /\ r.from \in Node
        /\ r.slot \in Slot /\ LastIndex(r) \in Nat
    BY DEF TypeOK, AppendRequest, LastIndex
  <2>2. after.state \in RaftState /\ after.success \in BOOLEAN
    BY <2>1, AfterAppendEntriesType
  <2> HIDE DEF after
  <2>3. m \in AppendReply
    BY <2>1, <2>2 DEF AppendReply, RaftState
  <2>4. waiters' \subseteq Waiter
    <3>1. \A w \in waiters : [w EXCEPT !.awake = (@ \/ w.node = r.to)] \in Waiter
      BY DEF TypeOK, Waiter
    <3> QED
      BY <1>6, <3>1 DEF TypeOK, AppendEntries, NotifyAll
  <2>5. /\ node' = [node EXCEPT ![r.to] = after.state]
        /\ appendRequests' = appendRequests \ {r}
        /\ appendReplies' = IF r.live THEN appendReplies \cup {m}
                            ELSE appendReplies
        /\ UNCHANGED <<up, threads, voteRequests, voteReplies, calls, answers,
                       spent>>
    BY <1>6 DEF AppendEntries, after
  <2> HIDE DEF s, m
  <2> QED
    BY <2>1, <2>2, <2>3, <2>4, <2>5 DEF TypeOK, threads
<1> QED
  BY <1>1, <1>2, <1>3, <1>4, <1>5, <1>6 DEF Replicate

\* What replicate_entry answers is typed.
LEMMA AnswerType ==
  ASSUME NEW n \in Node, NEW w \in Waiter
  PROVE  Answer(n, w) \subseteq Reply
BY DEF Answer, Holders, Others, Waiter, Reply

\* The steps of the clients' threads keep the type.
LEMMA TypeServe ==
  ASSUME TypeOK, Serve
  PROVE  TypeOK'
<1> USE ThreadTypes
<1>1. ASSUME NEW n \in Node, NEW op \in Op, replicate_entry(n, op)
      PROVE  TypeOK'
  <2> DEFINE s == node[n]
             w == [node |-> n, entry_id |-> Len(s.log) + 1, op |-> op,
                   after |-> {a.op : a \in answers}, awake |-> FALSE]
             new == Append(s.log, [term |-> s.current_term, op |-> op])
             match == [s.match_index EXCEPT ![n] = w.entry_id]
             s1 == [s EXCEPT !.log = Append(@, [term |-> s.current_term,
                                                op |-> op]),
                             !.match_index[n] = w.entry_id]
  <2>1. /\ s \in RaftState /\ s.log \in Seq(Entry) /\ s.current_term \in Nat
        /\ s.match_index \in [Node -> Nat] /\ Len(s.log) \in Nat
    BY DEF RaftState
  <2>2. w \in Waiter
    BY <2>1 DEF TypeOK, Reply, Waiter
  <2>3. [term |-> s.current_term, op |-> op] \in Entry
    BY <2>1 DEF Entry
  <2>4. new \in Seq(Entry) /\ match \in [Node -> Nat]
    BY <2>1, <2>3, AppendProperties
  <2>5. s1 = [[s EXCEPT !.log = new] EXCEPT !.match_index = match]
    BY <2>1 DEF RaftState
  <2>6. s1 \in RaftState
    <3> HIDE DEF s, s1, new, match
    <3> QED
      BY <2>1, <2>4, <2>5 DEF RaftState
  <2>7. schedule_heartbeat(s1) \in RaftState
    BY <2>6, TimersType
  <2>8. /\ node' = [node EXCEPT ![n] = schedule_heartbeat(s1)]
        /\ calls' = calls \ {op}
        /\ \/ waiters' = waiters \cup {w} /\ UNCHANGED answers
           \/ /\ \E a \in Answer(n, w) : answers' = answers \cup {a}
              /\ UNCHANGED waiters
        /\ UNCHANGED <<up, threads, network, spent>>
    BY <1>1 DEF replicate_entry
  <2> HIDE DEF s, s1, w
  <2>9. answers' \subseteq Reply /\ waiters' \subseteq Waiter
    BY <2>2, <2>8, AnswerType DEF TypeOK
  <2> QED
    BY <2>7, <2>8, <2>9 DEF TypeOK, threads, network
<1>2. ASSUME NEW w \in waiters, WaiterWakes(w)
      PROVE  TypeOK'
  <2>1. /\ w \in Waiter /\ w.node \in Node
        /\ [w EXCEPT !.awake = FALSE] \in Waiter
    BY DEF TypeOK, Waiter
  <2>2. waiters' \subseteq Waiter
    BY <1>2, <2>1 DEF TypeOK, WaiterWakes, Replace
  <2>3. answers' \subseteq Reply
    BY <1>2, <2>1, AnswerType DEF TypeOK, WaiterWakes
  <2> QED
    BY <1>2, <2>2, <2>3 DEF TypeOK, WaiterWakes, threads, network
<1> QED
  BY <1>1, <1>2 DEF Serve

LEMMA InitialNodeType == InitialNode \in RaftState
<1>1. <<>> \in Seq(Entry)
  BY EmptySeq
<1> QED
  BY <1>1 DEF InitialNode, RaftState, Role

\* The death and the start of a process keep the type.
LEMMA TypeFail ==
  ASSUME TypeOK, Fail
  PROVE  TypeOK'
<1>1. ASSUME NEW n \in Node, Crash(n)
      PROVE  TypeOK'
  <2>1. node' \in [Node -> RaftState]
    BY <1>1, InitialNodeType DEF TypeOK, Crash
  <2>2. /\ voteRequests' \subseteq VoteRequest
        /\ appendRequests' \subseteq AppendRequest
    <3>1. /\ \A r \in voteRequests : [r EXCEPT !.live = FALSE] \in VoteRequest
          /\ \A r \in appendRequests :
               [r EXCEPT !.live = FALSE] \in AppendRequest
      BY DEF TypeOK, VoteRequest, AppendRequest
    <3> QED
      BY <1>1, <3>1 DEF TypeOK, Crash
  <2>3. spent' \in [elections : Nat, failures : Nat, crashes : Nat]
    BY <1>1 DEF TypeOK, Crash
  <2> QED
    BY <1>1, <2>1, <2>2, <2>3 DEF TypeOK, Crash
<1>2. ASSUME NEW n \in Node, Restart(n)
      PROVE  TypeOK'
  BY <1>2 DEF TypeOK, Restart, threads, network, clients
<1> QED
  BY <1>1, <1>2 DEF Fail

LEMMA TypeNext ==
  ASSUME TypeOK, [Next]_vars
  PROVE  TypeOK'
<1>1. CASE Next
  BY <1>1, TypeElect, TypeReplicate, TypeServe, TypeFail DEF Next
<1>2. CASE UNCHANGED vars
  BY <1>2 DEF TypeOK, vars, threads, network, clients
<1> QED
  BY <1>1, <1>2

\* Every variable keeps its type in every reachable state: the indexes of a
\* node stay in range whatever calls are lost, late or answered twice.
THEOREM TypeCorrect == Spec => []TypeOK
<1>1. Init => TypeOK
  BY InitialNodeType DEF Init, TypeOK
<1>2. TypeOK /\ [Next]_vars => TypeOK'
  BY TypeNext
<1> QED
  BY <1>1, <1>2, PTL DEF Spec

-----------------------------------------------------------------------------
(* What a step does to one RaftNode.                                       *)

Candidate(s, n) == [s EXCEPT !.role = "CANDIDATE", !.current_term = @ + 1,
                             !.voted_for = n, !.current_leader = None]

Appended(s, n, op) ==
  schedule_heartbeat(
    [s EXCEPT !.log = Append(@, [term |-> s.current_term, op |-> op]),
              !.match_index[n] = Len(s.log) + 1])

\* The ways in which a step changes the state s of node n to s1.
NodeStep(n, s, s1) ==
  \/ s1 = s
  \/ s1 = [s EXCEPT !.election_timer = FALSE]
  \/ s1 = [s EXCEPT !.heartbeat_timer = FALSE]
  \/ s1 = reset_election_timer(s)
  \/ s1 = reset_heartbeat_timer(s)
  \/ s1 = Candidate(s, n)
  \/ s.role = "CANDIDATE" /\ s1 = become_leader(s, n)
  \/ s1 = downgrade_to_follower(s, s.current_term)
  \/ \E r \in voteRequests : r.to = n /\ s1 = AfterRequestVote(s, r).state
  \/ \E r \in appendRequests : r.to = n /\ s1 = AfterAppendEntries(s, r).state
  \/ \E m \in appendReplies : m.from = n /\ s1 = AfterAppendReply(s, m)
  \/ s.role = "LEADER" /\ \E op \in Op : s1 = Appended(s, n, op)
  \/ n \notin up' /\ s1 = InitialNode

\* Every step changes one node at most, in one of these ways.
LEMMA NodeSteps ==
  ASSUME TypeOK, [Next]_vars, NEW n \in Node
  PROVE  NodeStep(n, node[n], node'[n])
<1> USE ThreadTypes DEF NodeStep
<1>0. node \in [Node -> RaftState]
  BY DEF TypeOK
<1>1. ASSUME NEW k \in Node, ElectionTimeout(k)
      PROVE  NodeStep(n, node[n], node'[n])
  BY <1>0, <1>1 DEF ElectionTimeout
<1>2. ASSUME NEW k \in Node, start_election(k)
      PROVE  NodeStep(n, node[n], node'[n])
  BY <1>0, <1>2 DEF start_election, Candidate
<1>3. ASSUME NEW e \in elections, NEW m \in voteReplies,
             HandleRequestVoteReply(e, m)
      PROVE  NodeStep(n, node[n], node'[n])
  BY <1>0, <1>3 DEF HandleRequestVoteReply
<1>4. ASSUME NEW e \in elections, FinishElection(e)
      PROVE  NodeStep(n, node[n], node'[n])
  BY <1>0, <1>4 DEF FinishElection
<1>5. ASSUME NEW r \in voteRequests, RequestVote(r)
      PROVE  NodeStep(n, node[n], node'[n])
  BY <1>0, <1>5 DEF RequestVote
<1>6. ASSUME NEW k \in Node, piggyback_heartbeat(k)
      PROVE  NodeStep(n, node[n], node'[n])
  BY <1>0, <1>6 DEF piggyback_heartbeat
<1>7. ASSUME NEW t \in rounds, NEW m \in appendReplies, HandleAppendReply(t, m)
      PROVE  NodeStep(n, node[n], node'[n])
  BY <1>0, <1>7 DEF HandleAppendReply
<1>8. ASSUME NEW t \in rounds, FinishRound(t)
      PROVE  NodeStep(n, node[n], node'[n])
  BY <1>0, <1>8 DEF FinishRound
<1>9. ASSUME NEW r \in appendRequests, AppendEntries(r)
      PROVE  NodeStep(n, node[n], node'[n])
  BY <1>0, <1>9 DEF AppendEntries
<1>10. ASSUME NEW k \in Node, NEW op \in Op, replicate_entry(k, op)
       PROVE  NodeStep(n, node[n], node'[n])
  <2>1. /\ node[k].role = "LEADER"
        /\ node' = [node EXCEPT ![k] = Appended(node[k], k, op)]
    BY <1>10 DEF replicate_entry, Appended
  <2> QED
    BY <1>0, <2>1
<1>11. ASSUME NEW k \in Node, Crash(k)
       PROVE  NodeStep(n, node[n], node'[n])
  BY <1>0, <1>11 DEF Crash
<1>12. ASSUME UNCHANGED node
       PROVE  NodeStep(n, node[n], node'[n])
  BY <1>12
<1>13. ASSUME Elect
       PROVE  NodeStep(n, node[n], node'[n])
  BY <1>13, <1>1, <1>2, <1>3, <1>4, <1>5, <1>12
  DEF Elect, SendRequestVote, RequestVoteFails
<1>14. ASSUME Replicate
       PROVE  NodeStep(n, node[n], node'[n])
  BY <1>14, <1>6, <1>7, <1>8, <1>9, <1>12
  DEF Replicate, SendAppendEntries, AppendEntriesFails
<1> QED
  BY <1>10, <1>11, <1>12, <1>13, <1>14
  DEF Next, Serve, WaiterWakes, Fail, Restart, vars

-----------------------------------------------------------------------------
(* Every committed index has a result.                                     *)

Covered(s) == s.commit_index <= Len(s.applied)

LEMMA CommitUpToCovers ==
  ASSUME NEW s \in RaftState, Covered(s), NEW index \in Nat,
         index <= Len(s.log)
  PROVE  Covered(CommitUpTo(s, index))
<1> DEFINE slice == SubSeq(s.log, s.commit_index + 1, index)
           c == CommitUpTo(s, index)
<1>1. /\ s.log \in Seq(Entry) /\ s.applied \in Seq(Entry)
      /\ s.commit_index \in Nat /\ Len(s.applied) \in Nat
  BY DEF RaftState
<1>2. /\ slice \in Seq(Entry)
      /\ Len(slice) = IF s.commit_index < index
                      THEN index - s.commit_index ELSE 0
  BY <1>1, SliceType
<1>3. Len(s.applied \o slice) = Len(s.applied) + Len(slice)
  BY <1>1, <1>2, ConcatProperties
<1>4. c.applied = s.applied \o slice /\ c.commit_index = index
  BY DEF CommitUpTo, RaftState
<1> HIDE DEF slice, c
<1>5. c.commit_index <= Len(c.applied)
  BY <1>1, <1>2, <1>3, <1>4 DEF Covered
<1> QED
  BY <1>5 DEF c, Covered

\* Beyond the log of the leader's own, or of the entries just stored,
\* nothing is committed.
LEMMA NodeStepCovers ==
  ASSUME TypeOK, NEW n \in Node, NEW s \in RaftState, NEW s1,
         NodeStep(n, s, s1), Covered(s)
  PROVE  Covered(s1)
<1>1. ASSUME NEW r \in AppendRequest
      PROVE  Covered(AfterAppendEntries(s, r).state)
  <2> DEFINE follower == FollowLeader(s, r)
             stored == StoreEntries(follower, r)
             commit == IF r.leaderCommit < LastIndex(r)
                       THEN r.leaderCommit ELSE LastIndex(r)
             cut == [follower EXCEPT !.log = SubSeq(@, 1, r.prevLogIndex - 1)]
  <2>1. /\ follower \in RaftState /\ follower.log = s.log
        /\ Covered(follower)
    BY FollowLeaderType DEF Covered
  <2>2. Covered(cut)
    BY <2>1 DEF Covered, RaftState
  <2>3. /\ r.leaderCommit \in Nat /\ r.prevLogIndex \in Nat
        /\ Len(s.log) \in Nat
    BY DEF AppendRequest, RaftState
  <2>4. ASSUME r.prevLogIndex <= Len(s.log)
        PROVE  Covered(stored) /\ Covered(CommitUpTo(stored, commit))
    <3>1. /\ stored \in RaftState /\ LastIndex(r) \in Nat
          /\ LastIndex(r) <= Len(stored.log) /\ Covered(stored)
      BY <2>1, <2>4, StoreEntriesType DEF Covered
    <3>2. commit \in Nat /\ commit <= LastIndex(r)
      BY <2>3, <3>1
    <3> HIDE DEF stored, commit
    <3>3. Len(stored.log) \in Nat
      BY <3>1 DEF RaftState
    <3>4. commit <= Len(stored.log)
      BY <3>1, <3>2, <3>3
    <3> QED
      BY <3>1, <3>2, <3>4, CommitUpToCovers
  <2> HIDE DEF follower, stored, commit, cut
  <2>5. AfterAppendEntries(s, r).state =
          IF RefusesTerm(s, r.term) THEN s
          ELSE IF r.prevLogIndex > Len(s.log) THEN follower
          ELSE IF TermAt(s.log, r.prevLogIndex) # r.prevLogTerm THEN cut
          ELSE IF s.commit_index < r.leaderCommit
          THEN CommitUpTo(stored, commit) ELSE stored
    BY DEF AfterAppendEntries, follower, stored, commit, cut
  <2> QED
    BY <2>1, <2>2, <2>3, <2>4, <2>5
<1>2. ASSUME NEW m \in AppendReply
      PROVE  Covered(AfterAppendReply(s, m))
  <2> DEFINE match == [s EXCEPT !.match_index[m.to] = m.matched,
                                !.next_index[m.to] = m.matched + 1]
             median == get_match_index_median(match)
  <2>1. match \in RaftState
    BY MatchType
  <2>2. match.log = s.log /\ Covered(match)
    BY DEF Covered, RaftState
  <2>3. Covered(downgrade_to_follower(s, m.term))
    BY DEF Covered, RaftState, downgrade_to_follower, reset_election_timer
  <2>4. Covered(DecrementNext(s, m.to))
    BY DEF Covered, RaftState, DecrementNext
  <2>5. s.commit_index \in Nat /\ Len(s.log) \in Nat
    BY DEF RaftState
  <2> HIDE DEF match, median
  <2>6. ASSUME median \in (s.commit_index + 1)..Len(s.log)
        PROVE  Covered(CommitUpTo(match, median))
    <3>1. median \in Nat /\ median <= Len(match.log)
      BY <2>2, <2>5, <2>6
    <3> QED
      BY <2>1, <2>2, <3>1, CommitUpToCovers
  <2>7. AfterAppendReply(s, m) =
          IF StepsDown(s, m) THEN downgrade_to_follower(s, m.term)
          ELSE IF ~m.success THEN DecrementNext(s, m.to)
          ELSE IF /\ median \in (s.commit_index + 1)..Len(s.log)
                  /\ s.log[median].term = s.current_term
          THEN CommitUpTo(match, median) ELSE match
    BY DEF AfterAppendReply, match, median
  <2> QED
    BY <2>2, <2>3, <2>4, <2>6, <2>7
<1>3. ASSUME NEW r \in VoteRequest
      PROVE  Covered(AfterRequestVote(s, r).state)
  BY DEF Covered, RaftState, AfterRequestVote, downgrade_to_follower,
         reset_election_timer
<1>4. CASE s1 = InitialNode
  BY <1>4 DEF Covered, InitialNode
<1>5. /\ appendRequests \subseteq AppendRequest
      /\ appendReplies \subseteq AppendReply
      /\ voteRequests \subseteq VoteRequest
  BY DEF TypeOK
<1>6. CASE \/ \E r \in voteRequests : s1 = AfterRequestVote(s, r).state
           \/ \E r \in appendRequests : s1 = AfterAppendEntries(s, r).state
           \/ \E m \in appendReplies : s1 = AfterAppendReply(s, m)
  BY <1>1, <1>2, <1>3, <1>5, <1>6
<1>7. CASE /\ s1.commit_index = s.commit_index
           /\ s1.applied = s.applied
  BY <1>7 DEF Covered
<1>8. \/ s1.commit_index = s.commit_index /\ s1.applied = s.applied
      \/ s1 = InitialNode
      \/ \E r \in voteRequests : s1 = AfterRequestVote(s, r).state
      \/ \E r \in appendRequests : s1 = AfterAppendEntries(s, r).state
      \/ \E m \in appendReplies : s1 = AfterAppendReply(s, m)
  BY DEF NodeStep, RaftState, reset_election_timer, reset_heartbeat_timer,
         schedule_heartbeat, Candidate, become_leader, downgrade_to_follower,
         Appended
<1> QED
  BY <1>4, <1>6, <1>7, <1>8

\* get_operation_result, called under self.lock for a committed entry, never
\* waits: every committed index has a result on its node, in every reachable
\* state, crashes, late and reordered calls and truncated logs included.
THEOREM CommitsHaveResults == Spec => []ResultsCoverCommits
<1> DEFINE Inv == \A n \in Node : Covered(node[n])
<1>1. Init => Inv
  BY DEF Init, InitialNode, Covered
<1>2. TypeOK /\ Inv /\ [Next]_vars => Inv'
  <2> SUFFICES ASSUME TypeOK, Inv, [Next]_vars, NEW n \in Node
               PROVE  Covered(node'[n])
    BY DEF Covered
  <2>1. NodeStep(n, node[n], node'[n])
    BY NodeSteps
  <2>2. node[n] \in RaftState
    BY ThreadTypes
  <2> QED
    BY <2>1, <2>2, NodeStepCovers
<1>3. Inv => ResultsCoverCommits
  BY DEF Covered, ResultsCoverCommits
<1> QED
  BY <1>1, <1>2, <1>3, TypeCorrect, PTL DEF Spec

-----------------------------------------------------------------------------
(* What the handlers do to roles, terms, votes and logs.                   *)

LEMMA AfterAppendEntriesEffect ==
  ASSUME NEW s \in RaftState, NEW r \in AppendRequest, NEW s1,
         s1 = AfterAppendEntries(s, r).state
  PROVE  \/ s1 = s
         \/ /\ s1.role = "FOLLOWER" /\ s1.election_timer
            /\ s1.current_term = r.term /\ r.term >= s.current_term
            /\ s1.voted_for \in {None, s.voted_for}
<1> DEFINE follower == FollowLeader(s, r)
           stored == StoreEntries(follower, r)
           commit == IF r.leaderCommit < LastIndex(r)
                     THEN r.leaderCommit ELSE LastIndex(r)
           cut == [follower EXCEPT !.log = SubSeq(@, 1, r.prevLogIndex - 1)]
           Follows(x) == /\ x.role = "FOLLOWER" /\ x.election_timer
                         /\ x.current_term = r.term
                         /\ x.voted_for \in {None, s.voted_for}
<1>1. r.term \in Nat /\ s.current_term \in Nat
  BY DEF AppendRequest, RaftState
<1>2. follower \in RaftState
  BY FollowLeaderType
<1>3. Follows(follower)
  BY DEF FollowLeader, downgrade_to_follower, reset_election_timer, RaftState,
         Role
<1> HIDE DEF follower
<1>4. Follows(cut) /\ Follows(stored)
  BY <1>2, <1>3 DEF StoreEntries, RaftState
<1>5. Follows(CommitUpTo(stored, commit))
  <2>1. stored \in [DOMAIN follower -> {stored[f] : f \in DOMAIN follower}]
    BY <1>2 DEF StoreEntries, RaftState
  <2>2. DOMAIN follower = DOMAIN s
    BY <1>2 DEF RaftState
  <2> HIDE DEF stored, commit
  <2> QED
    BY <1>2, <1>4, <2>1 DEF CommitUpTo, RaftState
<1> HIDE DEF stored, commit, cut, Follows
<1>6. s1 = IF RefusesTerm(s, r.term) THEN s
           ELSE IF r.prevLogIndex > Len(s.log) THEN follower
           ELSE IF TermAt(s.log, r.prevLogIndex) # r.prevLogTerm THEN cut
           ELSE IF s.commit_index < r.leaderCommit
           THEN CommitUpTo(stored, commit) ELSE stored
  BY DEF AfterAppendEntries, follower, stored, commit, cut
<1>7. \/ s1 = s
      \/ Follows(s1) /\ ~RefusesTerm(s, r.term)
  BY <1>3, <1>4, <1>5, <1>6
<1> QED
  BY <1>1, <1>7 DEF Follows, RefusesTerm

\* The fields that neither commits nor indexes touch.
SameButIndexes(s, s1) ==
  /\ s1.role = s.role /\ s1.current_term = s.current_term
  /\ s1.voted_for = s.voted_for /\ s1.current_leader = s.current_leader
  /\ s1.log = s.log
  /\ s1.election_timer = s.election_timer
  /\ s1.heartbeat_timer = s.heartbeat_timer

LEMMA AfterAppendReplyEffect ==
  ASSUME NEW s \in RaftState, NEW m \in AppendReply, NEW s1,
         s1 = AfterAppendReply(s, m)
  PROVE  \/ /\ s1.role = "FOLLOWER" /\ s1.election_timer
            /\ s1.current_term > s.current_term
            /\ s1.voted_for = None /\ s1.log = s.log
         \/ /\ SameButIndexes(s, s1)
            /\ \A i \in Node : i # m.to => s1.match_index[i] = s.match_index[i]
<1> DEFINE match == [s EXCEPT !.match_index[m.to] = m.matched,
                              !.next_index[m.to] = m.matched + 1]
           median == get_match_index_median(match)
           Same(x) == /\ SameButIndexes(s, x)
                      /\ \A i \in Node :
                           i # m.to => x.match_index[i] = s.match_index[i]
<1>1. Same(DecrementNext(s, m.to)) /\ Same(match)
  BY DEF DecrementNext, SameButIndexes, RaftState
<1>2. match \in RaftState
  BY MatchType
<1> HIDE DEF match, median
<1>3. Same(CommitUpTo(match, median))
  BY <1>1, <1>2 DEF CommitUpTo, SameButIndexes, RaftState
<1>4. CASE StepsDown(s, m)
  BY <1>4 DEF AfterAppendReply, StepsDown, downgrade_to_follower,
              reset_election_timer, RaftState
<1>5. CASE ~StepsDown(s, m)
  <2>1. s1 \in {DecrementNext(s, m.to), match, CommitUpTo(match, median)}
    BY <1>5 DEF AfterAppendReply, match, median
  <2> QED
    BY <1>1, <1>3, <2>1
<1> QED
  BY <1>4, <1>5

LEMMA AfterRequestVoteEffect ==
  ASSUME NEW s \in RaftState, NEW r \in VoteRequest, NEW s1,
         s1 = AfterRequestVote(s, r).state
  PROVE  \/ s1 = s
         \/ /\ s1.role = "FOLLOWER" /\ s1.election_timer
            /\ s1.current_term = r.term /\ r.term > s.current_term
            /\ s1.log = s.log
         \/ /\ s.voted_for \in {None, r.from}
            /\ s1 = [s EXCEPT !.voted_for = r.from, !.election_timer = TRUE]
<1>1. CASE r.term > s.current_term
  BY <1>1 DEF AfterRequestVote, downgrade_to_follower, reset_election_timer,
              RaftState
<1>2. CASE ~(r.term > s.current_term)
  BY <1>2 DEF AfterRequestVote, VoteGranted, reset_election_timer
<1> QED
  BY <1>1, <1>2

-----------------------------------------------------------------------------
(* Terms and votes.                                                        *)

LEMMA MessageTypes ==
  ASSUME TypeOK
  PROVE  /\ voteRequests \subseteq VoteRequest
         /\ appendRequests \subseteq AppendRequest
         /\ appendReplies \subseteq AppendReply
BY DEF TypeOK

\* The steps of one node, with its handlers replaced by their effects.
LEMMA NodeStepTerm ==
  ASSUME TypeOK, NEW n \in Node, NEW s \in RaftState, NEW s1,
         NodeStep(n, s, s1)
  PROVE  \/ n \notin up' /\ s1 = InitialNode
         \/ /\ s1.current_term >= s.current_term
            /\ \/ s1.current_term > s.current_term
               \/ s1.voted_for \in {None, s.voted_for}
               \/ s.voted_for = None
<1> USE MessageTypes
<1>1. ASSUME NEW r \in voteRequests, s1 = AfterRequestVote(s, r).state
      PROVE  /\ s1.current_term >= s.current_term
             /\ \/ s1.current_term > s.current_term
                \/ s1.voted_for \in {None, s.voted_for}
                \/ s.voted_for = None
  <2>1. s.current_term \in Nat /\ r.term \in Nat
    BY DEF RaftState, VoteRequest
  <2>2. CASE s1.current_term = r.term /\ r.term > s.current_term
    BY <2>1, <2>2
  <2>3. CASE /\ s.voted_for \in {None, r.from}
             /\ s1 = [s EXCEPT !.voted_for = r.from, !.election_timer = TRUE]
    <3>1. s1.current_term = s.current_term /\ s1.voted_for = r.from
      BY <2>3 DEF RaftState
    <3> QED
      BY <2>1, <2>3, <3>1
  <2>4. CASE s1 = s
    BY <2>1, <2>4
  <2> QED
    BY <1>1, <2>2, <2>3, <2>4, AfterRequestVoteEffect
<1>2. ASSUME NEW r \in appendRequests, s1 = AfterAppendEntries(s, r).state
      PROVE  /\ s1.current_term >= s.current_term
             /\ s1.voted_for \in {None, s.voted_for}
  <2>1. s.current_term \in Nat
    BY DEF RaftState
  <2> QED
    BY <1>2, <2>1, AfterAppendEntriesEffect
<1>3. ASSUME NEW m \in appendReplies, s1 = AfterAppendReply(s, m)
      PROVE  /\ s1.current_term >= s.current_term
             /\ s1.voted_for \in {None, s.voted_for}
  <2>1. s1 \in RaftState
    BY <1>3, AfterAppendReplyType
  <2>2. s.current_term \in Nat /\ s1.current_term \in Nat
    BY <2>1 DEF RaftState
  <2>3. \/ s1.current_term > s.current_term /\ s1.voted_for = None
        \/ s1.current_term = s.current_term /\ s1.voted_for = s.voted_for
    BY <1>3, AfterAppendReplyEffect DEF SameButIndexes
  <2> QED
    BY <2>2, <2>3
<1>4. CASE s1 = Candidate(s, n)
  BY <1>4 DEF Candidate, RaftState
<1>5. \/ n \notin up' /\ s1 = InitialNode
      \/ s1 = Candidate(s, n)
      \/ /\ s1.current_term = s.current_term
         /\ s1.voted_for \in {None, s.voted_for}
      \/ \E r \in voteRequests : s1 = AfterRequestVote(s, r).state
      \/ \E r \in appendRequests : s1 = AfterAppendEntries(s, r).state
      \/ \E m \in appendReplies : s1 = AfterAppendReply(s, m)
  BY DEF NodeStep, RaftState, reset_election_timer, reset_heartbeat_timer,
         schedule_heartbeat, become_leader, downgrade_to_follower, Appended
<1> QED
  BY <1>1, <1>2, <1>3, <1>4, <1>5 DEF RaftState

\* No running node falls back to an older term.
THEOREM TermsOnlyGrow == Spec => TermsNeverDecrease
<1>1. TypeOK /\ [Next]_vars =>
        [\A n \in up \cap up' : node[n].current_term <= node'[n].current_term]_vars
  <2> SUFFICES ASSUME TypeOK, [Next]_vars, NEW n \in up \cap up'
               PROVE  node[n].current_term <= node'[n].current_term
    OBVIOUS
  <2>1. n \in Node
    BY DEF TypeOK
  <2>2. node[n] \in RaftState /\ node'[n] \in RaftState
    <3>1. TypeOK'
      BY TypeNext
    <3> QED
      BY <2>1, <3>1 DEF TypeOK
  <2>3. NodeStep(n, node[n], node'[n])
    BY <2>1, NodeSteps
  <2>4. node'[n].current_term >= node[n].current_term
    BY <2>1, <2>2, <2>3, NodeStepTerm
  <2> QED
    BY <2>2, <2>4 DEF RaftState
<1> QED
  BY <1>1, TypeCorrect, PTL DEF Spec, TermsNeverDecrease

\* Within a term no vote passes from one candidate straight to another.
THEOREM VotesStay == Spec => VotesAreNotTransferred
<1>1. TypeOK /\ [Next]_vars =>
        [\A n \in Node :
           node[n].voted_for # None
           /\ node'[n].voted_for \notin {None, node[n].voted_for} =>
             node'[n].current_term > node[n].current_term]_vars
  <2> SUFFICES ASSUME TypeOK, [Next]_vars, NEW n \in Node,
                      node[n].voted_for # None,
                      node'[n].voted_for \notin {None, node[n].voted_for}
               PROVE  node'[n].current_term > node[n].current_term
    OBVIOUS
  <2>1. node[n] \in RaftState
    BY ThreadTypes
  <2>2. NodeStep(n, node[n], node'[n])
    BY NodeSteps
  <2> QED
    BY <2>1, <2>2, NodeStepTerm DEF InitialNode
<1> QED
  BY <1>1, TypeCorrect, PTL DEF Spec, VotesAreNotTransferred

-----------------------------------------------------------------------------
(* Timers.                                                                 *)

\* A change of a node's state that leaves it with a way to the next election
\* and, if it leads, to the next heartbeat, as far as the state alone tells.
KeepsElectionTimer(s, s1) ==
  s1.role # "LEADER" =>
    \/ s1.election_timer
    \/ s.role # "LEADER" /\ s1.election_timer = s.election_timer

KeepsHeartbeat(s, s1) ==
  s1.role = "LEADER" =>
    \/ s1.heartbeat_timer
    \/ s.role = "LEADER" /\ s1.heartbeat_timer = s.heartbeat_timer

LEMMA HandlersKeepTimers ==
  ASSUME TypeOK, NEW s \in RaftState
  PROVE  /\ \A r \in voteRequests :
              /\ KeepsElectionTimer(s, AfterRequestVote(s, r).state)
              /\ KeepsHeartbeat(s, AfterRequestVote(s, r).state)
         /\ \A r \in appendRequests :
              /\ KeepsElectionTimer(s, AfterAppendEntries(s, r).state)
              /\ KeepsHeartbeat(s, AfterAppendEntries(s, r).state)
         /\ \A m \in appendReplies :
              /\ KeepsElectionTimer(s, AfterAppendReply(s, m))
              /\ KeepsHeartbeat(s, AfterAppendReply(s, m))
         /\ KeepsElectionTimer(s, downgrade_to_follower(s, s.current_term))
         /\ KeepsHeartbeat(s, downgrade_to_follower(s, s.current_term))
         /\ KeepsElectionTimer(s, s) /\ KeepsHeartbeat(s, s)
<1> USE MessageTypes DEF KeepsElectionTimer, KeepsHeartbeat
<1>1. ASSUME NEW r \in voteRequests, NEW s1,
             s1 = AfterRequestVote(s, r).state
      PROVE  KeepsElectionTimer(s, s1) /\ KeepsHeartbeat(s, s1)
  <2>1. CASE s1 = [s EXCEPT !.voted_for = r.from, !.election_timer = TRUE]
    <3>1. /\ s1.role = s.role /\ s1.election_timer
          /\ s1.heartbeat_timer = s.heartbeat_timer
      BY <2>1 DEF RaftState
    <3> QED
      BY <3>1
  <2>2. CASE s1 = s \/ (s1.role = "FOLLOWER" /\ s1.election_timer)
    BY <2>2
  <2> QED
    BY <1>1, <2>1, <2>2, AfterRequestVoteEffect
<1>2. ASSUME NEW r \in appendRequests, NEW s1,
             s1 = AfterAppendEntries(s, r).state
      PROVE  KeepsElectionTimer(s, s1) /\ KeepsHeartbeat(s, s1)
  BY <1>2, AfterAppendEntriesEffect
<1>3. ASSUME NEW m \in appendReplies, NEW s1, s1 = AfterAppendReply(s, m)
      PROVE  KeepsElectionTimer(s, s1) /\ KeepsHeartbeat(s, s1)
  BY <1>3, AfterAppendReplyEffect DEF SameButIndexes
<1>4. /\ KeepsElectionTimer(s, downgrade_to_follower(s, s.current_term))
      /\ KeepsHeartbeat(s, downgrade_to_follower(s, s.current_term))
  BY DEF downgrade_to_follower, reset_election_timer, RaftState
<1> QED
  BY <1>1, <1>2, <1>3, <1>4

\* Inductive where ElectionKeepsComing is not: it speaks of dead nodes too.
TimerOrElection ==
  \A k \in Node : ~Leads(k) =>
    \/ node[k].election_timer
    \/ fired[k] > 0
    \/ \E e \in elections : e.node = k

\* Steps that arm what they take.
LEMMA QuietStepKeepsElection ==
  ASSUME TypeOK, TimerOrElection, UNCHANGED fired,
         \A e \in elections : \E e1 \in elections' : e1.node = e.node,
         \A k \in Node : KeepsElectionTimer(node[k], node'[k])
  PROVE  TimerOrElection'
<1> SUFFICES ASSUME NEW k \in Node, node'[k].role # "LEADER"
             PROVE  \/ node'[k].election_timer
                    \/ fired'[k] > 0
                    \/ \E e \in elections' : e.node = k
  BY DEF TimerOrElection, Leads
<1>1. CASE node'[k].election_timer
  BY <1>1
<1>2. CASE /\ node[k].role # "LEADER"
           /\ node'[k].election_timer = node[k].election_timer
  BY <1>2 DEF TimerOrElection, Leads
<1> QED
  BY <1>1, <1>2 DEF KeepsElectionTimer

\* No server is ever left without a way to its next election.
THEOREM ElectionsKeepComing == Spec => []ElectionKeepsComing
<1>1. Init => TimerOrElection
  BY DEF Init, InitialNode, TimerOrElection
<1>2. TypeOK /\ TimerOrElection /\ [Next]_vars => TimerOrElection'
  <2> SUFFICES ASSUME TypeOK, TimerOrElection, [Next]_vars
               PROVE  TimerOrElection'
    OBVIOUS
  <2> USE ThreadTypes
  <2>0. node \in [Node -> RaftState] /\ fired \in [Node -> Nat]
    BY DEF TypeOK
  <2>1. ASSUME NEW n \in Node, ElectionTimeout(n)
        PROVE  TimerOrElection'
    <3>1. fired'[n] > 0 /\ elections' = elections
      BY <2>0, <2>1 DEF ElectionTimeout
    <3>2. \A k \in Node : k # n => node'[k] = node[k] /\ fired'[k] = fired[k]
      BY <2>0, <2>1 DEF ElectionTimeout
    <3> QED
      BY <3>1, <3>2 DEF TimerOrElection, Leads
  <2>2. ASSUME NEW n \in Node, start_election(n)
        PROVE  TimerOrElection'
    <3>1. \E e \in elections' : e.node = n
      <4> DEFINE e == [node |-> n, term |-> node'[n].current_term, votes |-> 1,
                       spawned |-> Others(n), waiting |-> {}]
      <4>1. e \in elections' /\ e.node = n
        BY <2>0, <2>2 DEF start_election
      <4> QED
        BY <4>1
    <3>2. \A k \in Node : k # n => node'[k] = node[k] /\ fired'[k] = fired[k]
      BY <2>0, <2>2 DEF start_election
    <3>3. elections \subseteq elections'
      BY <2>2 DEF start_election
    <3> QED
      BY <3>1, <3>2, <3>3 DEF TimerOrElection, Leads
  <2>3. ASSUME NEW e \in elections, NEW i \in Node,
               SendRequestVote(e, i) \/ RequestVoteFails(e, i)
        PROVE  TimerOrElection'
    <3>1. \E e1 \in elections' : e1.node = e.node
      <4>1. e \in Election
        BY DEF TypeOK
      <4>2. /\ [e EXCEPT !.spawned = @ \ {i}, !.waiting = @ \cup {i}].node = e.node
            /\ [e EXCEPT !.waiting = @ \ {i}].node = e.node
        BY <4>1 DEF Election
      <4>3. \/ [e EXCEPT !.spawned = @ \ {i}, !.waiting = @ \cup {i}] \in elections'
            \/ [e EXCEPT !.waiting = @ \ {i}] \in elections'
        BY <2>3 DEF SendRequestVote, RequestVoteFails, Replace
      <4> QED
        BY <4>2, <4>3
    <3>2. \A f \in elections : f # e => f \in elections'
      BY <2>3 DEF SendRequestVote, RequestVoteFails, Replace
    <3>3. UNCHANGED <<node, fired>>
      BY <2>3 DEF SendRequestVote, RequestVoteFails
    <3>4. \A k \in Node : KeepsElectionTimer(node[k], node'[k])
      BY <3>3, HandlersKeepTimers
    <3> QED
      BY <3>1, <3>2, <3>3, <3>4, QuietStepKeepsElection
  <2>4. ASSUME NEW e \in elections, NEW m \in voteReplies,
               HandleRequestVoteReply(e, m)
        PROVE  TimerOrElection'
    <3>1. \E e1 \in elections' : e1.node = e.node
      <4> DEFINE e1 == [e EXCEPT !.waiting = @ \ {m.to},
                                 !.votes = IF m.voteGranted THEN @ + 1 ELSE @]
      <4>1. e1.node = e.node
        BY DEF TypeOK, Election
      <4>2. e1 \in elections'
        BY <2>4 DEF HandleRequestVoteReply, Replace
      <4> QED
        BY <4>1, <4>2
    <3>2. \A f \in elections : f # e => f \in elections'
      BY <2>4 DEF HandleRequestVoteReply, Replace
    <3>3. \A k \in Node : KeepsElectionTimer(node[k], node'[k])
      BY <2>0, <2>4, HandlersKeepTimers DEF HandleRequestVoteReply
    <3>4. UNCHANGED fired
      BY <2>4 DEF HandleRequestVoteReply
    <3> QED
      BY <3>1, <3>2, <3>3, <3>4, QuietStepKeepsElection
  <2>5. ASSUME NEW e \in elections, FinishElection(e)
        PROVE  TimerOrElection'
    <3>1. \/ node'[e.node].role = "LEADER"
          \/ node'[e.node].election_timer
      BY <2>0, <2>5 DEF FinishElection, become_leader, schedule_heartbeat,
                        reset_election_timer, RaftState
    <3>2. /\ fired' = fired
          /\ \A f \in elections : f # e => f \in elections'
          /\ \A k \in Node : k # e.node => node'[k] = node[k]
      BY <2>0, <2>5 DEF FinishElection
    <3> QED
      BY <3>1, <3>2 DEF TimerOrElection, Leads
  <2>6. ASSUME UNCHANGED <<fired, elections>>,
               \A k \in Node : KeepsElectionTimer(node[k], node'[k])
        PROVE  TimerOrElection'
    BY <2>6, QuietStepKeepsElection
  <2>7. ASSUME NEW r \in voteRequests, RequestVote(r)
        PROVE  TimerOrElection'
    BY <2>0, <2>6, <2>7, HandlersKeepTimers DEF RequestVote, threads
  <2>8. ASSUME Replicate
        PROVE  TimerOrElection'
    <3>1. ASSUME NEW n \in Node, piggyback_heartbeat(n)
          PROVE  TimerOrElection'
      BY <2>0, <2>6, <3>1
      DEF piggyback_heartbeat, KeepsElectionTimer, RaftState
    <3>2. ASSUME NEW t \in rounds, NEW i \in Node,
                 SendAppendEntries(t, i) \/ AppendEntriesFails(t, i)
          PROVE  TimerOrElection'
      BY <2>6, <3>2, HandlersKeepTimers
      DEF SendAppendEntries, AppendEntriesFails
    <3>3. ASSUME NEW t \in rounds, NEW m \in appendReplies,
                 HandleAppendReply(t, m)
          PROVE  TimerOrElection'
      BY <2>0, <2>6, <3>3, HandlersKeepTimers DEF HandleAppendReply
    <3>4. ASSUME NEW t \in rounds, FinishRound(t)
          PROVE  TimerOrElection'
      BY <2>0, <2>6, <3>4
      DEF FinishRound, KeepsElectionTimer, reset_heartbeat_timer, RaftState
    <3>5. ASSUME NEW r \in appendRequests, AppendEntries(r)
          PROVE  TimerOrElection'
      BY <2>0, <2>6, <3>5, HandlersKeepTimers DEF AppendEntries, threads
    <3> QED
      BY <2>8, <3>1, <3>2, <3>3, <3>4, <3>5 DEF Replicate
  <2>9. ASSUME Serve
        PROVE  TimerOrElection'
    <3>1. ASSUME NEW n \in Node, NEW op \in Op, replicate_entry(n, op)
          PROVE  TimerOrElection'
      BY <2>0, <2>6, <3>1
      DEF replicate_entry, KeepsElectionTimer, schedule_heartbeat, threads,
          RaftState
    <3>2. ASSUME NEW w \in waiters, WaiterWakes(w)
          PROVE  TimerOrElection'
      BY <2>6, <3>2, HandlersKeepTimers DEF WaiterWakes, threads
    <3> QED
      BY <2>9, <3>1, <3>2 DEF Serve
  <2>10. ASSUME NEW n \in Node, Crash(n)
         PROVE  TimerOrElection'
    <3>1. node'[n].election_timer
      BY <2>0, <2>10 DEF Crash, InitialNode
    <3>2. \A k \in Node : k # n => node'[k] = node[k] /\ fired'[k] = fired[k]
      BY <2>0, <2>10 DEF Crash
    <3>3. \A e \in elections : e.node # n => e \in elections'
      BY <2>10 DEF Crash
    <3> QED
      BY <3>1, <3>2, <3>3 DEF TimerOrElection, Leads
  <2>11. ASSUME UNCHANGED <<node, fired, elections>>
         PROVE  TimerOrElection'
    BY <2>11 DEF TimerOrElection, Leads
  <2>12. ASSUME Elect
         PROVE  TimerOrElection'
    BY <2>12, <2>1, <2>2, <2>3, <2>4, <2>5, <2>7 DEF Elect
  <2>13. ASSUME Fail
         PROVE  TimerOrElection'
    BY <2>13, <2>10, <2>11 DEF Fail, Restart, threads
  <2> QED
    BY <2>8, <2>9, <2>11, <2>12, <2>13 DEF Next, vars, threads
<1>3. TypeOK /\ TimerOrElection => ElectionKeepsComing
  BY DEF TypeOK, TimerOrElection, ElectionKeepsComing
<1> QED
  BY <1>1, <1>2, <1>3, TypeCorrect, PTL DEF Spec

LEMMA QuietStepKeepsHeartbeat ==
  ASSUME TypeOK, LeaderKeepsBeating,
         \A t \in rounds : \E t1 \in rounds' : t1.node = t.node,
         \A k \in Node : KeepsHeartbeat(node[k], node'[k])
  PROVE  LeaderKeepsBeating'
<1> SUFFICES ASSUME NEW k \in Node, node'[k].role = "LEADER"
             PROVE  \/ node'[k].heartbeat_timer
                    \/ \E t \in rounds' : t.node = k
  BY DEF LeaderKeepsBeating, Leads
<1>1. CASE node'[k].heartbeat_timer
  BY <1>1
<1>2. CASE /\ node[k].role = "LEADER"
           /\ node'[k].heartbeat_timer = node[k].heartbeat_timer
  BY <1>2 DEF LeaderKeepsBeating, Leads
<1> QED
  BY <1>1, <1>2 DEF KeepsHeartbeat

\* A leader's heartbeats never stop while it leads.
THEOREM LeadersKeepBeating == Spec => []LeaderKeepsBeating
<1>1. Init => LeaderKeepsBeating
  BY DEF Init, InitialNode, LeaderKeepsBeating, Leads
<1>2. TypeOK /\ LeaderKeepsBeating /\ [Next]_vars => LeaderKeepsBeating'
  <2> SUFFICES ASSUME TypeOK, LeaderKeepsBeating, [Next]_vars
               PROVE  LeaderKeepsBeating'
    OBVIOUS
  <2> USE ThreadTypes
  <2>0. node \in [Node -> RaftState]
    BY DEF TypeOK
  <2>1. ASSUME UNCHANGED rounds,
               \A k \in Node : KeepsHeartbeat(node[k], node'[k])
        PROVE  LeaderKeepsBeating'
    BY <2>1, QuietStepKeepsHeartbeat
  <2>2. ASSUME UNCHANGED <<node, rounds>>
        PROVE  LeaderKeepsBeating'
    BY <2>2 DEF LeaderKeepsBeating, Leads
  <2>3. ASSUME Elect
        PROVE  LeaderKeepsBeating'
    <3>1. ASSUME NEW n \in Node, ElectionTimeout(n)
          PROVE  LeaderKeepsBeating'
      BY <2>0, <2>1, <3>1 DEF ElectionTimeout, KeepsHeartbeat, RaftState
    <3>2. ASSUME NEW n \in Node, start_election(n)
          PROVE  LeaderKeepsBeating'
      BY <2>0, <2>1, <3>2 DEF start_election, KeepsHeartbeat, RaftState
    <3>3. ASSUME NEW e \in elections, NEW m \in voteReplies,
                 HandleRequestVoteReply(e, m)
          PROVE  LeaderKeepsBeating'
      BY <2>0, <2>1, <3>3, HandlersKeepTimers DEF HandleRequestVoteReply
    <3>4. ASSUME NEW e \in elections, FinishElection(e)
          PROVE  LeaderKeepsBeating'
      BY <2>0, <2>1, <3>4
      DEF FinishElection, KeepsHeartbeat, RaftState, become_leader,
          schedule_heartbeat, reset_election_timer
    <3>5. ASSUME NEW r \in voteRequests, RequestVote(r)
          PROVE  LeaderKeepsBeating'
      BY <2>0, <2>1, <3>5, HandlersKeepTimers DEF RequestVote, threads
    <3> QED
      BY <2>2, <2>3, <3>1, <3>2, <3>3, <3>4, <3>5
      DEF Elect, SendRequestVote, RequestVoteFails
  <2>4. ASSUME NEW n \in Node, piggyback_heartbeat(n)
        PROVE  LeaderKeepsBeating'
    <3>1. \E t \in rounds' : t.node = n
      <4>1. PICK p \in Slot :
              rounds' = rounds \cup {[node |-> n, slot |-> p,
                                      spawned |-> Others(n), waiting |-> {}]}
        BY <2>4 DEF piggyback_heartbeat
      <4> DEFINE t == [node |-> n, slot |-> p,
                       spawned |-> Others(n), waiting |-> {}]
      <4>2. t \in rounds' /\ t.node = n
        BY <4>1
      <4> QED
        BY <4>2
    <3>2. /\ rounds \subseteq rounds'
          /\ \A k \in Node : k # n => node'[k] = node[k]
      BY <2>0, <2>4 DEF piggyback_heartbeat
    <3> QED
      BY <3>1, <3>2 DEF LeaderKeepsBeating, Leads
  <2>5. ASSUME NEW t \in rounds, NEW i \in Node,
               SendAppendEntries(t, i) \/ AppendEntriesFails(t, i)
        PROVE  LeaderKeepsBeating'
    <3>1. \E t1 \in rounds' : t1.node = t.node
      <4>1. t \in Round
        BY DEF TypeOK
      <4>2. /\ [t EXCEPT !.spawned = @ \ {i}, !.waiting = @ \cup {i}].node = t.node
            /\ [t EXCEPT !.spawned = @ \ {i}].node = t.node
            /\ [t EXCEPT !.waiting = @ \ {i}].node = t.node
        BY <4>1 DEF Round
      <4>3. \/ [t EXCEPT !.spawned = @ \ {i}, !.waiting = @ \cup {i}] \in rounds'
            \/ [t EXCEPT !.spawned = @ \ {i}] \in rounds'
            \/ [t EXCEPT !.waiting = @ \ {i}] \in rounds'
        BY <2>5 DEF SendAppendEntries, AppendEntriesFails, Replace
      <4> QED
        BY <4>2, <4>3
    <3>2. \A u \in rounds : u # t => u \in rounds'
      BY <2>5 DEF SendAppendEntries, AppendEntriesFails, Replace
    <3>3. UNCHANGED node
      BY <2>5 DEF SendAppendEntries, AppendEntriesFails
    <3> QED
      BY <3>1, <3>2, <3>3 DEF LeaderKeepsBeating, Leads
  <2>6. ASSUME NEW t \in rounds, NEW m \in appendReplies, HandleAppendReply(t, m)
        PROVE  LeaderKeepsBeating'
    <3>1. \E t1 \in rounds' : t1.node = t.node
      <4> DEFINE t1 == [t EXCEPT !.waiting = @ \ {m.to}]
      <4>1. t1 \in rounds' /\ t1.node = t.node
        BY <2>6 DEF HandleAppendReply, Replace, TypeOK, Round
      <4> QED
        BY <4>1
    <3>2. \A u \in rounds : u # t => u \in rounds'
      BY <2>6 DEF HandleAppendReply, Replace
    <3>3. \A k \in Node : KeepsHeartbeat(node[k], node'[k])
      BY <2>0, <2>6, HandlersKeepTimers DEF HandleAppendReply
    <3> QED
      BY <3>1, <3>2, <3>3, QuietStepKeepsHeartbeat
  <2>7. ASSUME NEW t \in rounds, FinishRound(t)
        PROVE  LeaderKeepsBeating'
    <3>1. node'[t.node].role = "LEADER" => node'[t.node].heartbeat_timer
      BY <2>0, <2>7 DEF FinishRound, reset_heartbeat_timer, RaftState
    <3>2. /\ \A u \in rounds : u # t => u \in rounds'
          /\ \A k \in Node : k # t.node => node'[k] = node[k]
      BY <2>0, <2>7 DEF FinishRound
    <3> QED
      BY <3>1, <3>2 DEF LeaderKeepsBeating, Leads
  <2>8. ASSUME NEW r \in appendRequests, AppendEntries(r)
        PROVE  LeaderKeepsBeating'
    BY <2>0, <2>1, <2>8, HandlersKeepTimers DEF AppendEntries, threads
  <2>9. ASSUME NEW n \in Node, NEW op \in Op, replicate_entry(n, op)
        PROVE  LeaderKeepsBeating'
    BY <2>0, <2>1, <2>9
    DEF replicate_entry, KeepsHeartbeat, schedule_heartbeat, threads, RaftState
  <2>10. ASSUME NEW n \in Node, Crash(n)
         PROVE  LeaderKeepsBeating'
    <3>1. node'[n].role # "LEADER"
      BY <2>0, <2>10 DEF Crash, InitialNode
    <3>2. /\ \A k \in Node : k # n => node'[k] = node[k]
          /\ \A t \in rounds : t.node # n => t \in rounds'
      BY <2>0, <2>10 DEF Crash
    <3> QED
      BY <3>1, <3>2 DEF LeaderKeepsBeating, Leads
  <2>11. ASSUME Replicate
         PROVE  LeaderKeepsBeating'
    BY <2>11, <2>4, <2>5, <2>6, <2>7, <2>8 DEF Replicate
  <2>12. ASSUME Serve \/ Fail
         PROVE  LeaderKeepsBeating'
    BY <2>12, <2>2, <2>9, <2>10
    DEF Serve, Fail, WaiterWakes, Restart, threads
  <2> QED
    BY <2>2, <2>3, <2>11, <2>12 DEF Next, vars, threads
<1> QED
  BY <1>1, <1>2, TypeCorrect, PTL DEF Spec

-----------------------------------------------------------------------------
(* Candidates and leaders.                                                 *)

\* No node calls itself.
CallsGoToPeers ==
  /\ \A e \in elections : e.node \notin e.spawned
  /\ \A t \in rounds : t.node \notin t.spawned
  /\ \A r \in voteRequests : r.from # r.to
  /\ \A r \in appendRequests : r.from # r.to
  /\ \A m \in appendReplies : m.from # m.to

LEMMA PeersNext ==
  ASSUME TypeOK, CallsGoToPeers, [Next]_vars
  PROVE  CallsGoToPeers'
<1> USE DEF CallsGoToPeers
<1>1. ASSUME NEW n \in Node, start_election(n)
      PROVE  CallsGoToPeers'
  BY <1>1 DEF start_election, Others, network
<1>2. ASSUME NEW e \in elections, NEW i \in Node, SendRequestVote(e, i)
      PROVE  CallsGoToPeers'
  <2> DEFINE e1 == [e EXCEPT !.spawned = @ \ {i}, !.waiting = @ \cup {i}]
  <2>1. e1.node = e.node /\ e1.spawned \subseteq e.spawned
    BY DEF TypeOK, Election
  <2>2. PICK r : /\ r.from = e.node /\ r.to = i
                 /\ voteRequests' = voteRequests \cup {r}
    BY <1>2 DEF SendRequestVote
  <2>3. /\ e.node # i
        /\ elections' = Replace(elections, e, e1)
        /\ UNCHANGED <<rounds, appendRequests, appendReplies>>
    BY <1>2 DEF SendRequestVote
  <2> HIDE DEF e1
  <2> QED
    BY <2>1, <2>2, <2>3 DEF Replace
<1>3. ASSUME NEW e \in elections, NEW i \in Node, RequestVoteFails(e, i)
      PROVE  CallsGoToPeers'
  <2> DEFINE e1 == [e EXCEPT !.waiting = @ \ {i}]
             Late(r) == [r EXCEPT !.live = FALSE]
  <2>1. e1.node = e.node /\ e1.spawned = e.spawned
    BY DEF TypeOK, Election
  <2>2. \A r \in voteRequests : Late(r).from = r.from /\ Late(r).to = r.to
    BY DEF TypeOK, VoteRequest
  <2>3. voteRequests' \subseteq voteRequests \cup {Late(r) : r \in voteRequests}
    BY <1>3 DEF RequestVoteFails
  <2>4. /\ elections' = Replace(elections, e, e1)
        /\ UNCHANGED <<rounds, appendRequests, appendReplies>>
    BY <1>3 DEF RequestVoteFails
  <2> HIDE DEF e1, Late
  <2> QED
    BY <2>1, <2>2, <2>3, <2>4 DEF Replace
<1>4. ASSUME NEW e \in elections, NEW m \in voteReplies,
             HandleRequestVoteReply(e, m)
      PROVE  CallsGoToPeers'
  <2> DEFINE e1 == [e EXCEPT !.waiting = @ \ {m.to},
                             !.votes = IF m.voteGranted THEN @ + 1 ELSE @]
  <2>1. e1.node = e.node /\ e1.spawned = e.spawned
    BY DEF TypeOK, Election
  <2>2. /\ elections' = Replace(elections, e, e1)
        /\ UNCHANGED <<rounds, voteRequests, appendRequests, appendReplies>>
    BY <1>4 DEF HandleRequestVoteReply
  <2> HIDE DEF e1
  <2> QED
    BY <2>1, <2>2 DEF Replace
<1>5. ASSUME NEW e \in elections, FinishElection(e)
      PROVE  CallsGoToPeers'
  BY <1>5 DEF FinishElection, network
<1>6. ASSUME NEW r \in voteRequests, RequestVote(r)
      PROVE  CallsGoToPeers'
  BY <1>6 DEF RequestVote, threads
<1>7. ASSUME NEW n \in Node, piggyback_heartbeat(n)
      PROVE  CallsGoToPeers'
  BY <1>7 DEF piggyback_heartbeat, Others, network
<1>8. ASSUME NEW t \in rounds, NEW i \in Node, SendAppendEntries(t, i)
      PROVE  CallsGoToPeers'
  <2> DEFINE t1 == [t EXCEPT !.spawned = @ \ {i}, !.waiting = @ \cup {i}]
             t2 == [t EXCEPT !.spawned = @ \ {i}]
  <2>1. /\ t1.node = t.node /\ t1.spawned \subseteq t.spawned
        /\ t2.node = t.node /\ t2.spawned \subseteq t.spawned
    BY DEF TypeOK, Round
  <2>2. \/ UNCHANGED appendRequests
        \/ \E r : /\ r.from = t.node /\ r.to = i
                  /\ appendRequests' = appendRequests \cup {r}
    BY <1>8 DEF SendAppendEntries
  <2>3. /\ t.node # i
        /\ \/ rounds' = Replace(rounds, t, t1)
           \/ rounds' = Replace(rounds, t, t2)
        /\ UNCHANGED <<elections, voteRequests, appendReplies>>
    BY <1>8 DEF SendAppendEntries
  <2> HIDE DEF t1, t2
  <2> QED
    BY <2>1, <2>2, <2>3 DEF Replace
<1>9. ASSUME NEW t \in rounds, NEW i \in Node, AppendEntriesFails(t, i)
      PROVE  CallsGoToPeers'
  <2> DEFINE t1 == [t EXCEPT !.waiting = @ \ {i}]
             Late(r) == [r EXCEPT !.live = FALSE]
  <2>1. t1.node = t.node /\ t1.spawned = t.spawned
    BY DEF TypeOK, Round
  <2>2. \A r \in appendRequests : Late(r).from = r.from /\ Late(r).to = r.to
    BY DEF TypeOK, AppendRequest
  <2>3. appendRequests'
          \subseteq appendRequests \cup {Late(r) : r \in appendRequests}
    BY <1>9 DEF AppendEntriesFails
  <2>4. /\ rounds' = Replace(rounds, t, t1)
        /\ appendReplies' \subseteq appendReplies
        /\ UNCHANGED <<elections, voteRequests>>
    BY <1>9 DEF AppendEntriesFails
  <2> HIDE DEF t1, Late
  <2> QED
    BY <2>1, <2>2, <2>3, <2>4 DEF Replace
<1>10. ASSUME NEW t \in rounds, NEW m \in appendReplies, HandleAppendReply(t, m)
       PROVE  CallsGoToPeers'
  <2>1. /\ [t EXCEPT !.waiting = @ \ {m.to}].node = t.node
        /\ [t EXCEPT !.waiting = @ \ {m.to}].spawned = t.spawned
    BY DEF TypeOK, Round
  <2> QED
    BY <1>10, <2>1 DEF HandleAppendReply, Replace
<1>11. ASSUME NEW t \in rounds, FinishRound(t)
       PROVE  CallsGoToPeers'
  BY <1>11 DEF FinishRound, network
<1>12. ASSUME NEW r \in appendRequests, AppendEntries(r)
       PROVE  CallsGoToPeers'
  BY <1>12 DEF AppendEntries, threads
<1>13. ASSUME NEW n \in Node, Crash(n)
       PROVE  CallsGoToPeers'
  <2> DEFINE Late(r) == [r EXCEPT !.live = FALSE]
  <2>1. \A r \in voteRequests \cup appendRequests :
          Late(r).from = r.from /\ Late(r).to = r.to
    BY DEF TypeOK, VoteRequest, AppendRequest
  <2>2. /\ voteRequests'
             \subseteq voteRequests \cup {Late(r) : r \in voteRequests}
        /\ appendRequests'
             \subseteq appendRequests \cup {Late(r) : r \in appendRequests}
    BY <1>13 DEF Crash
  <2>3. /\ elections' \subseteq elections /\ rounds' \subseteq rounds
        /\ appendReplies' \subseteq appendReplies
    BY <1>13 DEF Crash
  <2> HIDE DEF Late
  <2> QED
    BY <2>1, <2>2, <2>3
<1>14. ASSUME UNCHANGED <<elections, rounds, network>>
       PROVE  CallsGoToPeers'
  BY <1>14 DEF network
<1>15. ASSUME Elect
       PROVE  CallsGoToPeers'
  BY <1>15, <1>1, <1>2, <1>3, <1>4, <1>5, <1>6, <1>14
  DEF Elect, ElectionTimeout
<1>16. ASSUME Replicate
       PROVE  CallsGoToPeers'
  BY <1>16, <1>7, <1>8, <1>9, <1>10, <1>11, <1>12 DEF Replicate
<1> QED
  BY <1>13, <1>14, <1>15, <1>16
  DEF Next, Serve, Fail, replicate_entry, WaiterWakes, Restart, vars, threads

HoldsItsVote(s, n) ==
  s.role # "FOLLOWER" => s.voted_for = n /\ s.current_leader = None

MatchesItself(s, n) ==
  s.role = "LEADER" => s.match_index[n] = Len(s.log)

\* The steps of one node that stands or leads afterwards.
LEMMA NodeStepOffice ==
  ASSUME TypeOK, CallsGoToPeers, NEW n \in Node, NEW s \in RaftState, NEW s1,
         NodeStep(n, s, s1)
  PROVE  /\ HoldsItsVote(s, n) => HoldsItsVote(s1, n)
         /\ MatchesItself(s, n) => MatchesItself(s1, n)
         /\ s.role = "LEADER" /\ s1.role = "LEADER" =>
              s1.log = s.log \/ \E op \in Op : s1 = Appended(s, n, op)
<1> USE MessageTypes DEF HoldsItsVote, MatchesItself
<1>0. /\ s.log \in Seq(Entry) /\ Len(s.log) \in Nat
      /\ s.match_index \in [Node -> Nat] /\ s.current_term \in Nat
  BY DEF RaftState
<1>1. ASSUME NEW r \in voteRequests, r.to = n, s1 = AfterRequestVote(s, r).state
      PROVE  \/ s1 = s
             \/ s1.role = "FOLLOWER"
             \/ /\ s.voted_for \in {None, r.from} /\ r.from # n
                /\ s1.role = s.role /\ s1.log = s.log
                /\ s1.match_index = s.match_index
  <2>1. CASE s1 = [s EXCEPT !.voted_for = r.from, !.election_timer = TRUE]
    <3>1. /\ s1.role = s.role /\ s1.log = s.log
          /\ s1.match_index = s.match_index
      BY <2>1 DEF RaftState
    <3>2. \/ s1.role = "FOLLOWER"
          \/ s1 = s
          \/ s.voted_for \in {None, r.from}
      BY <1>1, AfterRequestVoteEffect
    <3> QED
      BY <1>1, <3>1, <3>2 DEF CallsGoToPeers
  <2> QED
    BY <1>1, <2>1, AfterRequestVoteEffect
<1>2. ASSUME NEW r \in appendRequests, s1 = AfterAppendEntries(s, r).state
      PROVE  s1 = s \/ s1.role = "FOLLOWER"
  BY <1>2, AfterAppendEntriesEffect
<1>3. ASSUME NEW m \in appendReplies, m.from = n, s1 = AfterAppendReply(s, m)
      PROVE  \/ s1.role = "FOLLOWER"
             \/ SameButIndexes(s, s1) /\ s1.match_index[n] = s.match_index[n]
  BY <1>3, AfterAppendReplyEffect DEF CallsGoToPeers
<1>4. ASSUME NEW op \in Op, s1 = Appended(s, n, op)
      PROVE  /\ s1.role = s.role /\ s1.voted_for = s.voted_for
             /\ s1.current_leader = s.current_leader
             /\ s1.match_index[n] = Len(s1.log)
  <2>1. [term |-> s.current_term, op |-> op] \in Entry
    BY <1>0 DEF Entry
  <2>2. Len(Append(s.log, [term |-> s.current_term, op |-> op]))
          = Len(s.log) + 1
    BY <1>0, <2>1, AppendProperties
  <2> QED
    BY <1>0, <1>4, <2>2 DEF Appended, schedule_heartbeat, RaftState
<1>5. CASE s1 = become_leader(s, n) /\ s.role = "CANDIDATE"
  BY <1>5 DEF become_leader, schedule_heartbeat, RaftState
<1>6. CASE s1 = Candidate(s, n)
  BY <1>6 DEF Candidate, RaftState
<1>7. CASE s1 \in {s, [s EXCEPT !.election_timer = FALSE],
                   [s EXCEPT !.heartbeat_timer = FALSE],
                   reset_election_timer(s), reset_heartbeat_timer(s)}
  <2>1. /\ s1.role = s.role /\ s1.voted_for = s.voted_for
        /\ s1.current_leader = s.current_leader /\ s1.log = s.log
        /\ s1.match_index = s.match_index
    BY <1>7 DEF reset_election_timer, reset_heartbeat_timer, RaftState
  <2> QED
    BY <2>1
<1>8. CASE SameButIndexes(s, s1) /\ s1.match_index[n] = s.match_index[n]
  BY <1>8 DEF SameButIndexes
<1>9. CASE \E r \in voteRequests : r.to = n /\ s1 = AfterRequestVote(s, r).state
  <2>1. PICK r \in voteRequests : r.to = n /\ s1 = AfterRequestVote(s, r).state
    BY <1>9
  <2>2. CASE /\ s.voted_for \in {None, r.from} /\ r.from # n
             /\ s1.role = s.role /\ s1.log = s.log
             /\ s1.match_index = s.match_index
    <3>1. s.voted_for # n
      BY <2>2
    <3> QED
      BY <2>2, <3>1
  <2>3. CASE s1 = s \/ s1.role = "FOLLOWER"
    BY <2>3
  <2> QED
    BY <1>1, <2>1, <2>2, <2>3
<1>10. CASE \/ \E r \in appendRequests : s1 = AfterAppendEntries(s, r).state
            \/ \E m \in appendReplies :
                 m.from = n /\ s1 = AfterAppendReply(s, m)
  BY <1>2, <1>3, <1>8, <1>10
<1>11. CASE \E op \in Op : s1 = Appended(s, n, op)
  BY <1>4, <1>11
<1>12. CASE s1 = InitialNode
  BY <1>12 DEF InitialNode
<1>13. CASE s1 = downgrade_to_follower(s, s.current_term)
  <2>1. s1.role = "FOLLOWER"
    BY <1>13 DEF downgrade_to_follower, reset_election_timer, RaftState
  <2> QED
    BY <2>1
<1>14. \/ s1 \in {s, [s EXCEPT !.election_timer = FALSE],
                  [s EXCEPT !.heartbeat_timer = FALSE],
                  reset_election_timer(s), reset_heartbeat_timer(s)}
       \/ s1 = Candidate(s, n)
       \/ s1 = become_leader(s, n) /\ s.role = "CANDIDATE"
       \/ s1 = downgrade_to_follower(s, s.current_term)
       \/ \E r \in voteRequests : r.to = n /\ s1 = AfterRequestVote(s, r).state
       \/ \E r \in appendRequests : s1 = AfterAppendEntries(s, r).state
       \/ \E m \in appendReplies : m.from = n /\ s1 = AfterAppendReply(s, m)
       \/ \E op \in Op : s1 = Appended(s, n, op)
       \/ s1 = InitialNode
  BY DEF NodeStep
<1> HIDE DEF HoldsItsVote, MatchesItself
<1> QED
  BY <1>5, <1>6, <1>7, <1>9, <1>10, <1>11, <1>12, <1>13, <1>14

LEMMA PeersInvariant == Spec => [](TypeOK /\ CallsGoToPeers)
<1>1. Init => CallsGoToPeers
  BY DEF Init, CallsGoToPeers
<1>2. TypeOK /\ CallsGoToPeers /\ [Next]_vars => CallsGoToPeers'
  BY PeersNext
<1> QED
  BY <1>1, <1>2, TypeCorrect, PTL DEF Spec

\* A node that stands or leads holds its own vote and follows nobody.
THEOREM CandidatesHold == Spec => []CandidatesHoldTheirVote
<1> DEFINE Inv == \A n \in Node : HoldsItsVote(node[n], n)
<1>1. Init => Inv
  BY DEF Init, InitialNode, HoldsItsVote
<1>2. TypeOK /\ CallsGoToPeers /\ Inv /\ [Next]_vars => Inv'
  <2> SUFFICES ASSUME TypeOK, CallsGoToPeers, Inv, [Next]_vars, NEW n \in Node
               PROVE  HoldsItsVote(node'[n], n)
    BY DEF HoldsItsVote
  <2>1. NodeStep(n, node[n], node'[n]) /\ node[n] \in RaftState
    BY NodeSteps, ThreadTypes
  <2> QED
    BY <2>1, NodeStepOffice
<1>3. Inv => CandidatesHoldTheirVote
  BY DEF HoldsItsVote, CandidatesHoldTheirVote
<1> QED
  BY <1>1, <1>2, <1>3, PeersInvariant, PTL DEF Spec

\* A leader's own entry of match_index is its whole log.
THEOREM LeadersMatch == Spec => []LeaderMatchesItself
<1> DEFINE Inv == \A n \in Node : MatchesItself(node[n], n)
<1>1. Init => Inv
  BY DEF Init, InitialNode, MatchesItself
<1>2. TypeOK /\ CallsGoToPeers /\ Inv /\ [Next]_vars => Inv'
  <2> SUFFICES ASSUME TypeOK, CallsGoToPeers, Inv, [Next]_vars, NEW n \in Node
               PROVE  MatchesItself(node'[n], n)
    BY DEF MatchesItself
  <2>1. NodeStep(n, node[n], node'[n]) /\ node[n] \in RaftState
    BY NodeSteps, ThreadTypes
  <2> QED
    BY <2>1, NodeStepOffice
<1>3. Inv => LeaderMatchesItself
  BY DEF MatchesItself, LeaderMatchesItself, Leads
<1> QED
  BY <1>1, <1>2, <1>3, PeersInvariant, PTL DEF Spec

\* A leader that stays in office only appends to its log.
THEOREM LeadersAppend == Spec => LeaderAppendOnly
<1>1. TypeOK /\ CallsGoToPeers /\ [Next]_vars =>
        [\A n \in Node : Leads(n) /\ Leads(n)' =>
           /\ Len(node[n].log) <= Len(node'[n].log)
           /\ \A i \in DOMAIN node[n].log :
                node'[n].log[i] = node[n].log[i]]_vars
  <2> SUFFICES ASSUME TypeOK, CallsGoToPeers, [Next]_vars, NEW n \in Node,
                      Leads(n), Leads(n)'
               PROVE  /\ Len(node[n].log) <= Len(node'[n].log)
                      /\ \A i \in DOMAIN node[n].log :
                           node'[n].log[i] = node[n].log[i]
    OBVIOUS
  <2> DEFINE s == node[n]
             s1 == node'[n]
  <2>1. NodeStep(n, s, s1) /\ s \in RaftState
    BY NodeSteps, ThreadTypes
  <2>2. s1.log = s.log \/ \E op \in Op : s1 = Appended(s, n, op)
    BY <2>1, NodeStepOffice DEF Leads
  <2>3. s.log \in Seq(Entry) /\ s.current_term \in Nat
    BY <2>1 DEF RaftState
  <2>4. ASSUME NEW op \in Op, s1 = Appended(s, n, op)
        PROVE  /\ Len(s.log) <= Len(s1.log)
               /\ \A i \in DOMAIN s.log : s1.log[i] = s.log[i]
    <3> DEFINE entry == [term |-> s.current_term, op |-> op]
    <3>1. s1.log = Append(s.log, entry)
      BY <2>1, <2>4 DEF Appended, schedule_heartbeat, RaftState
    <3>2. entry \in Entry
      BY <2>3 DEF Entry
    <3> HIDE DEF entry, s, s1
    <3> QED
      BY <2>3, <3>1, <3>2, AppendProperties
  <2>5. CASE s1.log = s.log
    BY <2>3, <2>5
  <2> QED
    BY <2>2, <2>4, <2>5
<1> QED
  BY <1>1, PeersInvariant, PTL DEF Spec, LeaderAppendOnly

-----------------------------------------------------------------------------
(* What the requests on their way carry.                                   *)

\* r and q are the same request, whether its caller still waits or not.
SameRequest(r, q) ==
  /\ q.from = r.from /\ q.term = r.term
  /\ q.prevLogIndex = r.prevLogIndex /\ q.prevLogTerm = r.prevLogTerm
  /\ q.entries = r.entries /\ q.leaderCommit = r.leaderCommit

\* q is what a leader with state s sends.
SentBy(s, q) ==
  /\ s.role = "LEADER" /\ q.term = s.current_term
  /\ q.prevLogIndex <= Len(s.log)
  /\ q.prevLogTerm = TermAt(s.log, q.prevLogIndex)
  /\ q.entries = SubSeq(s.log, q.prevLogIndex + 1, Len(s.log))
  /\ q.leaderCommit = s.commit_index

\* A request on its way after a step was there before, or was sent in it.
LEMMA RequestSteps ==
  ASSUME TypeOK, [Next]_vars, NEW q \in appendRequests'
  PROVE  \/ \E r \in appendRequests : SameRequest(r, q)
         \/ SentBy(node[q.from], q) /\ UNCHANGED <<node, spent>>
<1> DEFINE Late(r) == [r EXCEPT !.live = FALSE]
<1>1. \A r \in appendRequests : SameRequest(r, r) /\ SameRequest(r, Late(r))
  BY DEF TypeOK, AppendRequest, SameRequest
<1>2. CASE appendRequests'
             \subseteq appendRequests \cup {Late(r) : r \in appendRequests}
  <2> HIDE DEF Late
  <2> QED
    BY <1>1, <1>2
<1>3. ASSUME NEW t \in rounds, NEW i \in Node, SendAppendEntries(t, i)
      PROVE  \/ \E r \in appendRequests : SameRequest(r, q)
             \/ SentBy(node[q.from], q) /\ UNCHANGED <<node, spent>>
  <2>1. CASE q \in appendRequests
    BY <1>1, <2>1
  <2>2. CASE q \notin appendRequests
    <3> DEFINE s == node[t.node]
               prev == s.next_index[i] - 1
               r == [from |-> t.node, to |-> i, slot |-> t.slot, live |-> TRUE,
                     term |-> s.current_term, prevLogIndex |-> prev,
                     prevLogTerm |-> TermAt(s.log, prev),
                     entries |-> SubSeq(s.log, prev + 1, Len(s.log)),
                     leaderCommit |-> s.commit_index]
    <3>1. /\ s.role = "LEADER" /\ prev <= Len(s.log)
          /\ appendRequests' = appendRequests \cup {r}
          /\ UNCHANGED <<node, spent>>
      BY <1>3, <2>2 DEF SendAppendEntries, PrevLogTerm
    <3>2. q = r
      BY <2>2, <3>1
    <3>3. /\ q.from = t.node /\ q.term = s.current_term
          /\ q.prevLogIndex = prev /\ q.prevLogTerm = TermAt(s.log, prev)
          /\ q.entries = SubSeq(s.log, prev + 1, Len(s.log))
          /\ q.leaderCommit = s.commit_index
      BY <3>2
    <3> HIDE DEF prev, r
    <3> QED
      BY <3>1, <3>3 DEF SentBy
  <2> QED
    BY <2>1, <2>2
<1>4. ASSUME NEW t \in rounds, NEW i \in Node, AppendEntriesFails(t, i)
      PROVE  appendRequests'
               \subseteq appendRequests \cup {Late(r) : r \in appendRequests}
  BY <1>4 DEF AppendEntriesFails
<1>5. ASSUME NEW n \in Node, Crash(n)
      PROVE  appendRequests'
               \subseteq appendRequests \cup {Late(r) : r \in appendRequests}
  BY <1>5 DEF Crash
<1>6. ASSUME NEW r \in appendRequests, AppendEntries(r)
      PROVE  appendRequests' \subseteq appendRequests
  BY <1>6 DEF AppendEntries
<1>7. ASSUME Elect
      PROVE  UNCHANGED appendRequests
  BY <1>7 DEF Elect, ElectionTimeout, start_election, SendRequestVote,
     RequestVoteFails, HandleRequestVoteReply, FinishElection, RequestVote,
     network
<1>8. ASSUME Serve \/ UNCHANGED vars \/ \E n \in Node : Restart(n)
      PROVE  UNCHANGED appendRequests
  BY <1>8 DEF Serve, replicate_entry, WaiterWakes, Restart, vars, network
<1>9. ASSUME Replicate
      PROVE  \/ UNCHANGED appendRequests
             \/ \E t \in rounds, i \in Node :
                  SendAppendEntries(t, i) \/ AppendEntriesFails(t, i)
             \/ \E r \in appendRequests : AppendEntries(r)
  BY <1>9 DEF Replicate, piggyback_heartbeat, HandleAppendReply, FinishRound,
     network
<1>10. \/ \E t \in rounds, i \in Node : SendAppendEntries(t, i)
       \/ appendRequests'
            \subseteq appendRequests \cup {Late(r) : r \in appendRequests}
  <2> HIDE DEF Late
  <2> QED
    BY <1>4, <1>5, <1>6, <1>7, <1>8, <1>9 DEF Next, Fail
<1> HIDE DEF Late
<1> QED
  BY <1>2, <1>3, <1>10

-----------------------------------------------------------------------------
(* The terms in a log.                                                     *)

\* The terms of a sequence of entries never decrease, and lie between two.
TermsBetween(entries, low, high) ==
  /\ \A i, j \in DOMAIN entries : i <= j => entries[i].term <= entries[j].term
  /\ \A i \in DOMAIN entries :
       low <= entries[i].term /\ entries[i].term <= high

\* LogTermsOrdered for one node, and for one request: what it carries could
\* stand in a log behind the entry it continues.
LogOrdered(s) == TermsBetween(s.log, 0, s.current_term)

RequestOrdered(r) == TermsBetween(r.entries, r.prevLogTerm, r.term)

\* Entries have terms.
LEMMA EntryTerms ==
  ASSUME NEW log \in Seq(Entry), NEW k \in DOMAIN log
  PROVE  log[k].term \in Nat
<1>1. k \in 1..Len(log)
  OBVIOUS
<1>2. log[k] \in Entry
  BY <1>1, ElementOfSeq
<1> QED
  BY <1>2 DEF Entry

\* The entries of log[i + 1 : j + 1].
LEMMA SliceAt ==
  ASSUME NEW log \in Seq(Entry), NEW i \in Nat, NEW j \in Nat, i <= j,
         j <= Len(log)
  PROVE  /\ Len(SubSeq(log, i + 1, j)) = j - i
         /\ \A k \in 1..(j - i) : SubSeq(log, i + 1, j)[k] = log[i + k]
         /\ DOMAIN SubSeq(log, i + 1, j) = 1..(j - i)
<1>1. /\ Len(SubSeq(log, i + 1, j)) = j - i
      /\ \A k \in 1..(j - i) : SubSeq(log, i + 1, j)[k] = log[i + k]
  BY SubSeqProperties
<1>2. DOMAIN SubSeq(log, i + 1, j) = 1..(j - i)
  BY <1>1
<1> QED
  BY <1>1, <1>2

\* Every piece of an ordered log is ordered.
LEMMA SliceOrdered ==
  ASSUME NEW log \in Seq(Entry), NEW high \in Nat, TermsBetween(log, 0, high),
         NEW i \in Nat, NEW j \in Nat, i <= j, j <= Len(log)
  PROVE  TermsBetween(SubSeq(log, i + 1, j), TermAt(log, i), high)
<1> DEFINE piece == SubSeq(log, i + 1, j)
<1>1. /\ Len(piece) = j - i
      /\ \A k \in 1..(j - i) : piece[k] = log[i + k]
  BY SliceAt
<1>2. DOMAIN piece = 1..(j - i)
  BY SliceAt
<1>3. \A k \in 1..(j - i) : i + k \in DOMAIN log
  OBVIOUS
<1>4. \A k \in 1..(j - i) : log[i + k].term \in Nat
  BY <1>3, EntryTerms
<1> HIDE DEF piece
<1>5. ASSUME NEW k \in 1..(j - i)
      PROVE  TermAt(log, i) <= log[i + k].term
  <2>1. CASE i = 0
    BY <1>4, <2>1 DEF TermAt
  <2>2. CASE i # 0
    <3>1. i \in DOMAIN log /\ i <= i + k
      BY <2>2
    <3> QED
      BY <1>3, <2>2, <3>1 DEF TermAt, TermsBetween
  <2> QED
    BY <2>1, <2>2
<1>6. \A k \in 1..(j - i) : log[i + k].term <= high
  BY <1>3 DEF TermsBetween
<1>7. \A k, l \in 1..(j - i) : k <= l => log[i + k].term <= log[i + l].term
  BY <1>3 DEF TermsBetween
<1> QED
  BY <1>1, <1>2, <1>5, <1>6, <1>7 DEF TermsBetween, piece

\* The beginning of an ordered log is ordered; "- 1" below 0 leaves nothing.
LEMMA BeginningOrdered ==
  ASSUME NEW log \in Seq(Entry), NEW high \in Nat, TermsBetween(log, 0, high),
         NEW j \in Int, j <= Len(log)
  PROVE  /\ SubSeq(log, 1, j) \in Seq(Entry)
         /\ TermsBetween(SubSeq(log, 1, j), 0, high)
<1>1. CASE j >= 1
  <2>1. TermsBetween(SubSeq(log, 0 + 1, j), TermAt(log, 0), high)
    BY <1>1, SliceOrdered, 0 \in Nat
  <2>2. SubSeq(log, 0 + 1, j) \in Seq(Entry)
    BY <1>1, SliceType, 0 \in Nat
  <2> QED
    BY <2>1, <2>2 DEF TermAt
<1>2. CASE ~(j >= 1)
  <2>1. SubSeq(log, 1, j) = <<>>
    BY <1>2
  <2> QED
    BY <2>1 DEF TermsBetween
<1> QED
  BY <1>1, <1>2

\* Ordered entries behind the entry they continue make an ordered log.
LEMMA StoredOrdered ==
  ASSUME NEW log \in Seq(Entry), NEW entries \in Seq(Entry),
         NEW high \in Nat, NEW term \in Nat, high <= term,
         NEW prev \in Nat, prev <= Len(log),
         TermsBetween(log, 0, high),
         TermsBetween(entries, TermAt(log, prev), term)
  PROVE  TermsBetween(SubSeq(log, 1, prev) \o entries, 0, term)
<1> DEFINE kept == SubSeq(log, 1, prev)
           new == kept \o entries
<1>1. /\ kept \in Seq(Entry) /\ Len(kept) = prev
      /\ \A k \in 1..prev : kept[k] = log[k]
  BY SubSeqProperties
<1> HIDE DEF kept
<1>2. /\ Len(new) = prev + Len(entries)
      /\ \A k \in 1..prev : new[k] = log[k]
      /\ \A k \in 1..Len(entries) : new[prev + k] = entries[k]
  <2>1. /\ Len(new) = prev + Len(entries)
        /\ \A k \in 1..(prev + Len(entries)) :
             new[k] = IF k <= prev THEN kept[k] ELSE entries[k - prev]
    BY <1>1, ConcatProperties
  <2>2. ASSUME NEW k \in 1..Len(entries)
        PROVE  new[prev + k] = entries[k]
    <3>1. /\ prev + k \in 1..(prev + Len(entries))
          /\ ~(prev + k <= prev) /\ (prev + k) - prev = k
      OBVIOUS
    <3> HIDE DEF new
    <3> QED
      BY <2>1, <3>1
  <2>3. ASSUME NEW k \in 1..prev
        PROVE  new[k] = log[k]
    <3>1. k \in 1..(prev + Len(entries)) /\ k <= prev
      OBVIOUS
    <3> HIDE DEF new
    <3> QED
      BY <1>1, <2>1, <3>1
  <2> QED
    BY <2>1, <2>2, <2>3
<1>3. DOMAIN new = 1..(prev + Len(entries))
  BY <1>1, <1>2
<1> HIDE DEF new
<1>4. /\ \A k \in DOMAIN log : log[k].term \in Nat
      /\ \A k \in DOMAIN entries : entries[k].term \in Nat
  BY EntryTerms
<1>5. ASSUME NEW k \in 1..prev
      PROVE  /\ k \in DOMAIN log /\ new[k].term \in Nat
             /\ new[k].term <= high
             /\ new[k].term <= TermAt(log, prev)
  <2>1. k \in DOMAIN log /\ prev \in DOMAIN log /\ prev # 0 /\ k <= prev
    OBVIOUS
  <2> QED
    BY <1>2, <1>4, <2>1 DEF TermsBetween, TermAt
<1>6. ASSUME NEW k \in 1..(prev + Len(entries)), ~(k <= prev)
      PROVE  /\ k - prev \in DOMAIN entries
             /\ new[k] = entries[k - prev]
             /\ new[k].term \in Nat
             /\ TermAt(log, prev) <= new[k].term
             /\ new[k].term <= term
  <2>1. k - prev \in 1..Len(entries) /\ prev + (k - prev) = k
    BY <1>6
  <2>2. k - prev \in DOMAIN entries
    BY <2>1
  <2>3. new[k] = entries[k - prev]
    BY <1>2, <2>1
  <2> QED
    BY <1>4, <2>2, <2>3 DEF TermsBetween
<1>7. TermAt(log, prev) \in Nat
  BY TermAtType
<1>8. ASSUME NEW k \in DOMAIN new
      PROVE  0 <= new[k].term /\ new[k].term <= term
  <2>1. CASE k <= prev
    <3>1. k \in 1..prev
      BY <1>3, <2>1
    <3> QED
      BY <1>5, <3>1
  <2>2. CASE ~(k <= prev)
    BY <1>3, <1>6, <2>2
  <2> QED
    BY <2>1, <2>2
<1>9. ASSUME NEW k \in DOMAIN new, NEW l \in DOMAIN new, k <= l
      PROVE  new[k].term <= new[l].term
  <2>1. CASE l <= prev
    <3>1. k \in 1..prev /\ l \in 1..prev
      BY <1>3, <1>9, <2>1
    <3>2. /\ k \in DOMAIN log /\ l \in DOMAIN log
          /\ new[k] = log[k] /\ new[l] = log[l]
      BY <1>2, <1>5, <3>1
    <3> QED
      BY <1>9, <3>2 DEF TermsBetween
  <2>2. CASE k <= prev /\ ~(l <= prev)
    <3>1. k \in 1..prev /\ l \in 1..(prev + Len(entries))
      BY <1>3, <2>2
    <3>2. /\ new[k].term <= TermAt(log, prev) /\ new[k].term \in Nat
      BY <1>5, <3>1
    <3>3. TermAt(log, prev) <= new[l].term /\ new[l].term \in Nat
      BY <1>6, <2>2, <3>1
    <3> QED
      BY <1>7, <3>2, <3>3
  <2>3. CASE ~(k <= prev) /\ ~(l <= prev)
    <3>1. k \in 1..(prev + Len(entries)) /\ l \in 1..(prev + Len(entries))
      BY <1>3
    <3>2. /\ k - prev \in DOMAIN entries /\ new[k] = entries[k - prev]
          /\ l - prev \in DOMAIN entries /\ new[l] = entries[l - prev]
      BY <1>6, <2>3, <3>1
    <3>3. k - prev <= l - prev
      BY <1>9, <3>1
    <3> QED
      BY <3>2, <3>3 DEF TermsBetween
  <2> QED
    BY <1>3, <1>9, <2>1, <2>2, <2>3
<1> QED
  BY <1>8, <1>9 DEF TermsBetween, new, kept

\* What the AppendEntries servicer leaves of a log.
LEMMA AfterAppendEntriesLog ==
  ASSUME NEW s \in RaftState, NEW r \in AppendRequest, NEW s1,
         s1 = AfterAppendEntries(s, r).state
  PROVE  \/ s1 = s
         \/ /\ s1.current_term = r.term /\ r.term >= s.current_term
            /\ \/ s1.log = s.log
               \/ /\ r.prevLogIndex <= Len(s.log)
                  /\ s1.log = SubSeq(s.log, 1, r.prevLogIndex - 1)
               \/ /\ r.prevLogIndex <= Len(s.log)
                  /\ TermAt(s.log, r.prevLogIndex) = r.prevLogTerm
                  /\ s1.log = SubSeq(s.log, 1, r.prevLogIndex) \o r.entries
<1> DEFINE follower == FollowLeader(s, r)
           stored == StoreEntries(follower, r)
           commit == IF r.leaderCommit < LastIndex(r)
                     THEN r.leaderCommit ELSE LastIndex(r)
           cut == [follower EXCEPT !.log = SubSeq(@, 1, r.prevLogIndex - 1)]
           Stores(x) == \/ x.log = s.log
                        \/ x.log = SubSeq(s.log, 1, r.prevLogIndex) \o r.entries
<1>1. r.prevLogIndex \in Nat /\ Len(s.log) \in Nat
  BY DEF AppendRequest, RaftState
<1>2. follower \in RaftState /\ follower.log = s.log
  BY FollowLeaderType
<1> HIDE DEF follower
<1>3. cut.log = SubSeq(s.log, 1, r.prevLogIndex - 1)
  BY <1>2 DEF RaftState
<1>4. Stores(stored)
  BY <1>2 DEF StoreEntries, RaftState
<1>5. CommitUpTo(stored, commit).log = stored.log
  <2>1. stored \in [DOMAIN follower -> {stored[f] : f \in DOMAIN follower}]
    BY <1>2 DEF StoreEntries, RaftState
  <2> HIDE DEF stored, commit
  <2> QED
    BY <1>2, <2>1 DEF CommitUpTo, RaftState
<1>6. Stores(CommitUpTo(stored, commit))
  BY <1>4, <1>5
<1> HIDE DEF stored, commit, cut
<1>7. s1 = IF RefusesTerm(s, r.term) THEN s
           ELSE IF r.prevLogIndex > Len(s.log) THEN follower
           ELSE IF TermAt(s.log, r.prevLogIndex) # r.prevLogTerm THEN cut
           ELSE IF s.commit_index < r.leaderCommit
           THEN CommitUpTo(stored, commit) ELSE stored
  BY DEF AfterAppendEntries, follower, stored, commit, cut
<1>8. \/ s1 = s
      \/ s1.current_term = r.term /\ r.term >= s.current_term
  BY AfterAppendEntriesEffect
<1>9. CASE s1 = s \/ s1 = follower
  BY <1>2, <1>8, <1>9
<1>10. CASE r.prevLogIndex <= Len(s.log) /\ s1 = cut
  BY <1>3, <1>8, <1>10
<1>11. CASE /\ r.prevLogIndex <= Len(s.log)
            /\ TermAt(s.log, r.prevLogIndex) = r.prevLogTerm
            /\ Stores(s1)
  BY <1>8, <1>11
<1> HIDE DEF Stores
<1>12. \/ s1 = s \/ s1 = follower
       \/ ~(r.prevLogIndex > Len(s.log)) /\ s1 = cut
       \/ /\ ~(r.prevLogIndex > Len(s.log))
          /\ TermAt(s.log, r.prevLogIndex) = r.prevLogTerm
          /\ s1 \in {CommitUpTo(stored, commit), stored}
  BY <1>7
<1>13. ~(r.prevLogIndex > Len(s.log)) => r.prevLogIndex <= Len(s.log)
  BY <1>1
<1> QED
  BY <1>4, <1>6, <1>9, <1>10, <1>11, <1>12, <1>13

\* The steps of one node keep its log ordered, provided the requests that
\* reach it are.
LEMMA NodeStepOrdered ==
  ASSUME TypeOK, NEW n \in Node, NEW s \in RaftState, NEW s1,
         NodeStep(n, s, s1), LogOrdered(s),
         \A r \in appendRequests : RequestOrdered(r)
  PROVE  LogOrdered(s1)
<1> USE MessageTypes
<1>0. /\ s.log \in Seq(Entry) /\ Len(s.log) \in Nat
      /\ s.current_term \in Nat
  BY DEF RaftState
<1>1. ASSUME s1.log = s.log, s1.current_term \in Nat,
             s1.current_term >= s.current_term
      PROVE  LogOrdered(s1)
  <2>1. \A i \in DOMAIN s.log : s.log[i].term \in Nat
    BY <1>0, EntryTerms
  <2> QED
    BY <1>0, <1>1, <2>1 DEF LogOrdered, TermsBetween
<1>2. CASE s1 \in {s, [s EXCEPT !.election_timer = FALSE],
                   [s EXCEPT !.heartbeat_timer = FALSE],
                   reset_election_timer(s), reset_heartbeat_timer(s),
                   Candidate(s, n), become_leader(s, n),
                   downgrade_to_follower(s, s.current_term)}
  <2>1. /\ s1.log = s.log
        /\ s1.current_term \in {s.current_term, s.current_term + 1}
    BY <1>2 DEF reset_election_timer, reset_heartbeat_timer, Candidate,
         become_leader, schedule_heartbeat, downgrade_to_follower, RaftState
  <2> QED
    BY <1>0, <1>1, <2>1
<1>3. ASSUME NEW r \in voteRequests, s1 = AfterRequestVote(s, r).state
      PROVE  LogOrdered(s1)
  <2>1. r \in VoteRequest /\ r.term \in Nat
    BY DEF VoteRequest
  <2>2. \/ s1 = s
        \/ /\ s1.current_term = r.term /\ r.term > s.current_term
           /\ s1.log = s.log
        \/ s1 = [s EXCEPT !.voted_for = r.from, !.election_timer = TRUE]
    BY <1>3, <2>1, AfterRequestVoteEffect
  <2>3. /\ s1.log = s.log /\ s1.current_term \in Nat
        /\ s1.current_term >= s.current_term
    <3>1. CASE s1 = [s EXCEPT !.voted_for = r.from, !.election_timer = TRUE]
      <4>1. s1.log = s.log /\ s1.current_term = s.current_term
        BY <3>1 DEF RaftState
      <4> QED
        BY <1>0, <4>1
    <3>2. CASE s1 = s
      BY <1>0, <3>2
    <3>3. CASE /\ s1.current_term = r.term /\ r.term > s.current_term
               /\ s1.log = s.log
      BY <1>0, <2>1, <3>3
    <3> QED
      BY <2>2, <3>1, <3>2, <3>3
  <2> QED
    BY <1>0, <1>1, <2>1, <2>3
<1>4. ASSUME NEW r \in appendRequests, s1 = AfterAppendEntries(s, r).state
      PROVE  LogOrdered(s1)
  <2>1. r \in AppendRequest
    OBVIOUS
  <2>2. /\ r.term \in Nat /\ r.prevLogIndex \in Nat
        /\ r.entries \in Seq(Entry)
    BY <2>1 DEF AppendRequest
  <2>3. TermsBetween(s.log, 0, s.current_term)
    BY DEF LogOrdered
  <2>4. CASE s1 = s
    BY <2>4
  <2>5. CASE /\ s1.current_term = r.term /\ r.term >= s.current_term
             /\ s1.log = s.log
    BY <1>1, <2>2, <2>5
  <2>6. CASE /\ s1.current_term = r.term /\ r.term >= s.current_term
             /\ r.prevLogIndex <= Len(s.log)
             /\ s1.log = SubSeq(s.log, 1, r.prevLogIndex - 1)
    <3>1. r.prevLogIndex <= Len(s.log)
      BY <2>6
    <3>2. PICK j \in Int : j = r.prevLogIndex - 1 /\ j <= Len(s.log)
      BY <1>0, <2>2, <3>1
    <3>3. /\ SubSeq(s.log, 1, j) \in Seq(Entry)
          /\ TermsBetween(SubSeq(s.log, 1, j), 0, s.current_term)
      BY <1>0, <2>3, <3>2, BeginningOrdered
    <3>4. s1.log = SubSeq(s.log, 1, j)
      BY <2>6, <3>2
    <3>5. \A i \in DOMAIN s1.log : s1.log[i].term \in Nat
      BY <3>3, <3>4, EntryTerms
    <3>6. TermsBetween(s1.log, 0, s.current_term)
      BY <3>3, <3>4
    <3>7. r.term \in Nat /\ r.term >= s.current_term /\ s1.current_term = r.term
      BY <2>2, <2>6
    <3> QED
      BY <1>0, <3>5, <3>6, <3>7 DEF LogOrdered, TermsBetween
  <2>7. CASE /\ s1.current_term = r.term /\ r.term >= s.current_term
             /\ r.prevLogIndex <= Len(s.log)
             /\ TermAt(s.log, r.prevLogIndex) = r.prevLogTerm
             /\ s1.log = SubSeq(s.log, 1, r.prevLogIndex) \o r.entries
    <3>1. TermsBetween(r.entries, TermAt(s.log, r.prevLogIndex), r.term)
      BY <2>7 DEF RequestOrdered
    <3>2. TermsBetween(s1.log, 0, r.term)
      BY <1>0, <2>2, <2>3, <2>7, <3>1, StoredOrdered
    <3> QED
      BY <2>7, <3>2 DEF LogOrdered
  <2> QED
    BY <1>4, <2>1, <2>4, <2>5, <2>6, <2>7, AfterAppendEntriesLog
<1>5. ASSUME NEW m \in appendReplies, s1 = AfterAppendReply(s, m)
      PROVE  LogOrdered(s1)
  <2>1. m \in AppendReply
    OBVIOUS
  <2>2. s1 \in RaftState
    BY <1>5, <2>1, AfterAppendReplyType
  <2>3. s1.current_term \in Nat
    BY <2>2 DEF RaftState
  <2>4. /\ s1.log = s.log
        /\ s1.current_term > s.current_term \/ s1.current_term = s.current_term
    BY <1>5, <2>1, AfterAppendReplyEffect DEF SameButIndexes
  <2> QED
    BY <1>0, <1>1, <2>3, <2>4
<1>6. ASSUME NEW op \in Op, s1 = Appended(s, n, op)
      PROVE  LogOrdered(s1)
  <2> DEFINE entry == [term |-> s.current_term, op |-> op]
  <2>1. /\ s1.log = Append(s.log, entry) /\ s1.current_term = s.current_term
    BY <1>6 DEF Appended, schedule_heartbeat, RaftState
  <2>2. entry \in Entry /\ entry.term = s.current_term
    BY <1>0 DEF Entry
  <2> HIDE DEF entry
  <2>3. /\ Len(s1.log) = Len(s.log) + 1
        /\ s1.log[Len(s.log) + 1] = entry
        /\ \A k \in 1..Len(s.log) : s1.log[k] = s.log[k]
        /\ s1.log \in Seq(Entry)
    BY <1>0, <2>1, <2>2, AppendProperties
  <2>4. DOMAIN s1.log = 1..(Len(s.log) + 1)
    BY <2>3
  <2>5. \A k \in 1..Len(s.log) : k \in DOMAIN s.log /\ s.log[k].term \in Nat
    BY <1>0, EntryTerms
  <2>6. \A k \in DOMAIN s1.log : k \in 1..Len(s.log) \/ k = Len(s.log) + 1
    BY <1>0, <2>4
  <2>7. \A k \in DOMAIN s1.log :
          0 <= s1.log[k].term /\ s1.log[k].term <= s.current_term
    BY <1>0, <2>2, <2>3, <2>5, <2>6 DEF LogOrdered, TermsBetween
  <2>8. ASSUME NEW k \in DOMAIN s1.log, NEW l \in DOMAIN s1.log, k <= l
        PROVE  s1.log[k].term <= s1.log[l].term
    <3>1. CASE l = Len(s.log) + 1
      BY <2>2, <2>3, <2>7, <3>1
    <3>2. CASE l \in 1..Len(s.log)
      <4>1. k \in 1..Len(s.log)
        BY <1>0, <2>4, <2>8, <3>2
      <4> QED
        BY <2>3, <2>5, <2>8, <3>2, <4>1 DEF LogOrdered, TermsBetween
    <3> QED
      BY <2>6, <3>1, <3>2
  <2> QED
    BY <2>1, <2>7, <2>8 DEF LogOrdered, TermsBetween
<1>7. CASE s1 = InitialNode
  <2>1. s1.log = <<>>
    BY <1>7 DEF InitialNode
  <2> QED
    BY <2>1 DEF LogOrdered, TermsBetween
<1> QED
  BY <1>2, <1>3, <1>4, <1>5, <1>6, <1>7 DEF NodeStep

\* What a leader with an ordered log sends is ordered.
LEMMA SentOrdered ==
  ASSUME NEW s \in RaftState, NEW q \in AppendRequest, LogOrdered(s),
         SentBy(s, q)
  PROVE  RequestOrdered(q)
<1>1. /\ s.log \in Seq(Entry) /\ Len(s.log) \in Nat
      /\ s.current_term \in Nat /\ q.prevLogIndex \in Nat
  BY DEF RaftState, AppendRequest
<1>2. TermsBetween(SubSeq(s.log, q.prevLogIndex + 1, Len(s.log)),
                   TermAt(s.log, q.prevLogIndex), s.current_term)
  BY <1>1, SliceOrdered DEF LogOrdered, SentBy
<1> QED
  BY <1>2 DEF SentBy, RequestOrdered

\* The terms of every log, and of every request on its way, are in order:
\* the inductive form of LogTermsOrdered.
TermsInv ==
  /\ \A n \in Node : LogOrdered(node[n])
  /\ \A r \in appendRequests : RequestOrdered(r)

LEMMA TermsNext ==
  ASSUME TypeOK, TermsInv, [Next]_vars
  PROVE  TermsInv'
<1>1. ASSUME NEW n \in Node
      PROVE  LogOrdered(node'[n])
  <2>1. NodeStep(n, node[n], node'[n]) /\ node[n] \in RaftState
    BY NodeSteps, ThreadTypes
  <2> QED
    BY <2>1, NodeStepOrdered DEF TermsInv
<1>2. ASSUME NEW q \in appendRequests'
      PROVE  RequestOrdered(q)
  <2>1. CASE \E r \in appendRequests : SameRequest(r, q)
    BY <2>1 DEF TermsInv, SameRequest, RequestOrdered
  <2>2. CASE SentBy(node[q.from], q)
    <3>1. q \in AppendRequest
      BY TypeNext DEF TypeOK
    <3>2. q.from \in Node
      BY <3>1 DEF AppendRequest
    <3>3. node[q.from] \in RaftState
      BY <3>2, ThreadTypes
    <3> QED
      BY <2>2, <3>1, <3>2, <3>3, SentOrdered DEF TermsInv
  <2> QED
    BY <2>1, <2>2, RequestSteps
<1> QED
  BY <1>1, <1>2 DEF TermsInv, LogOrdered, RequestOrdered, TermsBetween

\* Whatever requests are late, lost or of an older leader, the terms of a log
\* never decrease and never exceed the term of its node.
THEOREM LogsOrdered == Spec => []LogTermsOrdered
<1>1. Init => TermsInv
  BY DEF Init, TermsInv, InitialNode, LogOrdered, TermsBetween
<1>2. TypeOK /\ TermsInv /\ [Next]_vars => TermsInv'
  BY TermsNext
<1>3. TermsInv => LogTermsOrdered
  BY DEF TermsInv, LogOrdered, TermsBetween, LogTermsOrdered
<1> QED
  BY <1>1, <1>2, <1>3, TypeCorrect, PTL DEF Spec

-----------------------------------------------------------------------------
(* Requests and the log they come from.                                    *)

\* A commit of a leader moves its commit_index forward only.
LEMMA AfterAppendReplyCommits ==
  ASSUME NEW s \in RaftState, NEW m \in AppendReply, NEW s1,
         s1 = AfterAppendReply(s, m)
  PROVE  s1.commit_index \in Nat /\ s1.commit_index >= s.commit_index
<1> DEFINE match == [s EXCEPT !.match_index[m.to] = m.matched,
                              !.next_index[m.to] = m.matched + 1]
           median == get_match_index_median(match)
<1>1. s.commit_index \in Nat /\ Len(s.log) \in Nat
  BY DEF RaftState
<1>2. /\ downgrade_to_follower(s, m.term).commit_index = s.commit_index
      /\ DecrementNext(s, m.to).commit_index = s.commit_index
      /\ match.commit_index = s.commit_index
  BY DEF DecrementNext, downgrade_to_follower, reset_election_timer, RaftState
<1>3. match \in RaftState
  BY MatchType
<1> HIDE DEF match, median
<1>4. CommitUpTo(match, median).commit_index = median
  BY <1>3 DEF CommitUpTo, RaftState
<1>5. \/ s1 \in {downgrade_to_follower(s, m.term), DecrementNext(s, m.to), match}
      \/ /\ median \in (s.commit_index + 1)..Len(s.log)
         /\ s1 = CommitUpTo(match, median)
  BY DEF AfterAppendReply, match, median
<1>6. CASE s1 \in {downgrade_to_follower(s, m.term), DecrementNext(s, m.to), match}
  BY <1>1, <1>2, <1>6
<1>7. CASE /\ median \in (s.commit_index + 1)..Len(s.log)
           /\ s1 = CommitUpTo(match, median)
  BY <1>1, <1>4, <1>7
<1> QED
  BY <1>5, <1>6, <1>7

\* What the steps of a process that goes on do to office and term.  Nobody
\* leads who did not stand or lead in the same term, and nobody stands in a
\* term in which he did not stand before, unless the term is new.
LEMMA NodeStepTenure ==
  ASSUME TypeOK, NEW n \in Node, n \in up', NEW s \in RaftState, NEW s1,
         NodeStep(n, s, s1)
  PROVE  /\ s1.current_term \in Nat
         /\ s1.current_term >= s.current_term
         /\ s1.role = "LEADER" =>
              s.role # "FOLLOWER" /\ s1.current_term = s.current_term
         /\ s1.role = "CANDIDATE" /\ s1.current_term = s.current_term =>
              s.role = "CANDIDATE"
         /\ s1.role = "LEADER" =>
              s1.commit_index \in Nat /\ s1.commit_index >= s.commit_index
<1> USE MessageTypes
<1> DEFINE Goal ==
         /\ s1.current_term \in Nat
         /\ s1.current_term >= s.current_term
         /\ s1.role = "LEADER" =>
              s.role # "FOLLOWER" /\ s1.current_term = s.current_term
         /\ s1.role = "CANDIDATE" /\ s1.current_term = s.current_term =>
              s.role = "CANDIDATE"
         /\ s1.role = "LEADER" =>
              s1.commit_index \in Nat /\ s1.commit_index >= s.commit_index
<1> SUFFICES Goal
  OBVIOUS
<1>0. /\ s.current_term \in Nat /\ s.commit_index \in Nat
      /\ s.role \in Role
  BY DEF RaftState
<1>1. ASSUME s1.current_term = s.current_term, s1.commit_index = s.commit_index,
             s1.role = s.role
      PROVE  Goal
  BY <1>0, <1>1 DEF Role
<1>2. ASSUME s1.role = "FOLLOWER", s1.current_term \in Nat,
             s1.current_term >= s.current_term
      PROVE  Goal
  BY <1>0, <1>2
<1>3. CASE s1 \in {s, [s EXCEPT !.election_timer = FALSE],
                   [s EXCEPT !.heartbeat_timer = FALSE],
                   reset_election_timer(s), reset_heartbeat_timer(s)}
  <2>1. /\ s1.current_term = s.current_term /\ s1.commit_index = s.commit_index
        /\ s1.role = s.role
    BY <1>3 DEF reset_election_timer, reset_heartbeat_timer, RaftState
  <2> QED
    BY <1>1, <2>1
<1>4. CASE s1 = Candidate(s, n)
  <2>1. s1.role = "CANDIDATE" /\ s1.current_term = s.current_term + 1
    BY <1>4 DEF Candidate, RaftState
  <2> QED
    BY <1>0, <2>1
<1>5. CASE s.role = "CANDIDATE" /\ s1 = become_leader(s, n)
  <2>1. /\ s1.role = "LEADER" /\ s1.current_term = s.current_term
        /\ s1.commit_index = s.commit_index
    BY <1>5 DEF become_leader, schedule_heartbeat, RaftState
  <2> QED
    BY <1>0, <1>5, <2>1
<1>6. CASE s1 = downgrade_to_follower(s, s.current_term)
  <2>1. s1.role = "FOLLOWER" /\ s1.current_term = s.current_term
    BY <1>6 DEF downgrade_to_follower, reset_election_timer, RaftState
  <2> QED
    BY <1>0, <1>2, <2>1
<1>7. ASSUME NEW r \in voteRequests, s1 = AfterRequestVote(s, r).state
      PROVE  Goal
  <2>1. r \in VoteRequest /\ r.term \in Nat
    BY DEF VoteRequest
  <2>2. CASE s1 = s
    BY <1>1, <2>2
  <2>3. CASE /\ s1.role = "FOLLOWER" /\ s1.current_term = r.term
             /\ r.term > s.current_term
    BY <1>0, <1>2, <2>1, <2>3
  <2>4. CASE s1 = [s EXCEPT !.voted_for = r.from, !.election_timer = TRUE]
    <3>1. /\ s1.current_term = s.current_term
          /\ s1.commit_index = s.commit_index /\ s1.role = s.role
      BY <2>4 DEF RaftState
    <3> QED
      BY <1>1, <3>1
  <2> HIDE DEF Goal
  <2> QED
    BY <1>7, <2>1, <2>2, <2>3, <2>4, AfterRequestVoteEffect
<1>8. ASSUME NEW r \in appendRequests, s1 = AfterAppendEntries(s, r).state
      PROVE  Goal
  <2>1. r \in AppendRequest /\ r.term \in Nat
    BY DEF AppendRequest
  <2>2. CASE s1 = s
    BY <1>1, <2>2
  <2>3. CASE /\ s1.role = "FOLLOWER" /\ s1.current_term = r.term
             /\ r.term >= s.current_term
    BY <1>2, <2>1, <2>3
  <2> HIDE DEF Goal
  <2> QED
    BY <1>8, <2>1, <2>2, <2>3, AfterAppendEntriesEffect
<1>9. ASSUME NEW m \in appendReplies, s1 = AfterAppendReply(s, m)
      PROVE  Goal
  <2>1. m \in AppendReply
    OBVIOUS
  <2>2. s1 \in RaftState
    BY <1>9, <2>1, AfterAppendReplyType
  <2>3. s1.commit_index \in Nat /\ s1.commit_index >= s.commit_index
    BY <1>9, <2>1, AfterAppendReplyCommits
  <2>4. CASE s1.role = "FOLLOWER" /\ s1.current_term > s.current_term
    <3>1. s1.current_term \in Nat
      BY <2>2 DEF RaftState
    <3> QED
      BY <1>0, <1>2, <2>4, <3>1
  <2>5. CASE s1.role = s.role /\ s1.current_term = s.current_term
    BY <1>0, <2>3, <2>5 DEF Role
  <2> HIDE DEF Goal
  <2> QED
    BY <1>9, <2>1, <2>4, <2>5, AfterAppendReplyEffect DEF SameButIndexes
<1>10. ASSUME NEW op \in Op, s1 = Appended(s, n, op)
       PROVE  Goal
  <2>1. /\ s1.current_term = s.current_term /\ s1.commit_index = s.commit_index
        /\ s1.role = s.role
    BY <1>10 DEF Appended, schedule_heartbeat, RaftState
  <2> QED
    BY <1>1, <2>1
<1>11. \/ s1 \in {s, [s EXCEPT !.election_timer = FALSE],
                  [s EXCEPT !.heartbeat_timer = FALSE],
                  reset_election_timer(s), reset_heartbeat_timer(s)}
       \/ s1 = Candidate(s, n)
       \/ s.role = "CANDIDATE" /\ s1 = become_leader(s, n)
       \/ s1 = downgrade_to_follower(s, s.current_term)
       \/ \E r \in voteRequests : s1 = AfterRequestVote(s, r).state
       \/ \E r \in appendRequests : s1 = AfterAppendEntries(s, r).state
       \/ \E m \in appendReplies : s1 = AfterAppendReply(s, m)
       \/ \E op \in Op : s1 = Appended(s, n, op)
  BY DEF NodeStep
<1> HIDE DEF Goal
<1> QED
  BY <1>3, <1>4, <1>5, <1>6, <1>7, <1>8, <1>9, <1>10, <1>11

\* RequestsComeFromTheLog for one request and the state s of its sender.
PieceOf(s, q) ==
  /\ q.prevLogIndex + Len(q.entries) <= Len(s.log)
  /\ q.prevLogTerm = TermAt(s.log, q.prevLogIndex)
  /\ \A i \in DOMAIN q.entries : q.entries[i] = s.log[q.prevLogIndex + i]
  /\ q.leaderCommit <= s.commit_index

\* A request is of a term its sender has reached, and was sent in office: a
\* sender that leads the same term has not left office since.
TrueToOffice(s, q) ==
  /\ q.term <= s.current_term
  /\ q.term = s.current_term => s.role # "CANDIDATE"
  /\ q.term = s.current_term /\ s.role = "LEADER" => PieceOf(s, q)

\* What a leader sends is a piece of its log.
LEMMA SentIsPiece ==
  ASSUME NEW s \in RaftState, NEW q \in AppendRequest, SentBy(s, q)
  PROVE  TrueToOffice(s, q)
<1>1. /\ s.log \in Seq(Entry) /\ Len(s.log) \in Nat /\ s.current_term \in Nat
      /\ s.commit_index \in Nat /\ q.prevLogIndex \in Nat
      /\ q.prevLogIndex <= Len(s.log)
  BY DEF RaftState, AppendRequest, SentBy
<1> DEFINE piece == SubSeq(s.log, q.prevLogIndex + 1, Len(s.log))
<1>2. /\ Len(piece) = Len(s.log) - q.prevLogIndex
      /\ \A i \in 1..(Len(s.log) - q.prevLogIndex) :
           piece[i] = s.log[q.prevLogIndex + i]
      /\ DOMAIN piece = 1..(Len(s.log) - q.prevLogIndex)
  <2>1. PICK j \in Nat :
          j = Len(s.log) /\ j <= Len(s.log) /\ q.prevLogIndex <= j
    BY <1>1
  <2>2. PICK log \in Seq(Entry), prev \in Nat :
          log = s.log /\ prev = q.prevLogIndex
    BY <1>1
  <2>3. /\ Len(SubSeq(log, prev + 1, j)) = j - prev
        /\ \A k \in 1..(j - prev) : SubSeq(log, prev + 1, j)[k] = log[prev + k]
        /\ DOMAIN SubSeq(log, prev + 1, j) = 1..(j - prev)
    <3>1. prev <= j /\ j <= Len(log)
      BY <2>1, <2>2
    <3> QED
      BY <3>1, SliceAt
  <2> QED
    BY <2>1, <2>2, <2>3, Zenon
<1>3. q.entries = piece
  BY DEF SentBy
<1> HIDE DEF piece
<1>4. q.prevLogIndex + Len(q.entries) <= Len(s.log)
  BY <1>1, <1>2, <1>3
<1>5. \A i \in DOMAIN q.entries : q.entries[i] = s.log[q.prevLogIndex + i]
  BY <1>2, <1>3
<1> QED
  BY <1>1, <1>4, <1>5 DEF TrueToOffice, PieceOf, SentBy

\* A step of the sender keeps its requests true to its office.
LEMMA TenureKeepsPieces ==
  ASSUME TypeOK, CallsGoToPeers, NEW n \in Node, n \in up',
         NEW s \in RaftState, NEW s1, NodeStep(n, s, s1),
         NEW q \in AppendRequest, TrueToOffice(s, q)
  PROVE  TrueToOffice(s1, q)
<1>1. /\ s.log \in Seq(Entry) /\ Len(s.log) \in Nat /\ s.current_term \in Nat
      /\ s.commit_index \in Nat /\ s.role \in Role
  BY DEF RaftState
<1>2. /\ q.prevLogIndex \in Nat /\ q.entries \in Seq(Entry)
      /\ Len(q.entries) \in Nat /\ q.leaderCommit \in Nat /\ q.term \in Nat
      /\ DOMAIN q.entries = 1..Len(q.entries)
  BY DEF AppendRequest
<1>3. /\ s1.current_term \in Nat
      /\ s1.current_term >= s.current_term
  BY NodeStepTenure
<1>4. /\ s1.role = "LEADER" =>
           s.role # "FOLLOWER" /\ s1.current_term = s.current_term
      /\ s1.role = "CANDIDATE" /\ s1.current_term = s.current_term =>
           s.role = "CANDIDATE"
  BY NodeStepTenure
<1>5. q.term <= s1.current_term
  BY <1>1, <1>2, <1>3 DEF TrueToOffice
<1>6. ASSUME q.term = s1.current_term
      PROVE  q.term = s.current_term /\ s.role # "CANDIDATE"
  BY <1>1, <1>2, <1>3, <1>6 DEF TrueToOffice
<1>7. ASSUME q.term = s1.current_term
      PROVE  s1.role # "CANDIDATE"
  BY <1>4, <1>6, <1>7
<1>8. ASSUME q.term = s1.current_term, s1.role = "LEADER"
      PROVE  PieceOf(s1, q)
  <2>1. s.role = "LEADER" /\ PieceOf(s, q)
    BY <1>1, <1>4, <1>6, <1>8 DEF TrueToOffice, Role
  <2>2. /\ Len(s1.log) \in Nat /\ Len(s.log) <= Len(s1.log)
        /\ \A i \in 1..Len(s.log) : s1.log[i] = s.log[i]
    <3>1. CASE s1.log = s.log
      BY <1>1, <3>1
    <3>2. ASSUME NEW op \in Op, s1 = Appended(s, n, op)
          PROVE  /\ Len(s1.log) \in Nat /\ Len(s.log) <= Len(s1.log)
                 /\ \A i \in 1..Len(s.log) : s1.log[i] = s.log[i]
      <4> DEFINE entry == [term |-> s.current_term, op |-> op]
      <4>1. s1.log = Append(s.log, entry)
        BY <3>2 DEF Appended, schedule_heartbeat, RaftState
      <4>2. entry \in Entry
        BY <1>1 DEF Entry
      <4> HIDE DEF entry
      <4> QED
        BY <1>1, <4>1, <4>2, AppendProperties
    <3> QED
      BY <1>8, <2>1, <3>1, <3>2, NodeStepOffice
  <2>3. q.prevLogIndex + Len(q.entries) <= Len(s1.log)
    BY <1>1, <1>2, <2>1, <2>2 DEF PieceOf
  <2>4. q.prevLogTerm = TermAt(s1.log, q.prevLogIndex)
    <3>1. q.prevLogIndex <= Len(s.log)
      BY <1>1, <1>2, <2>1 DEF PieceOf
    <3>2. CASE q.prevLogIndex = 0
      BY <2>1, <3>2 DEF PieceOf, TermAt
    <3>3. CASE q.prevLogIndex # 0
      <4>1. q.prevLogIndex \in 1..Len(s.log)
        BY <1>1, <1>2, <3>1, <3>3
      <4> QED
        BY <2>1, <2>2, <3>3, <4>1 DEF PieceOf, TermAt
    <3> QED
      BY <3>2, <3>3
  <2>5. ASSUME NEW i \in DOMAIN q.entries
        PROVE  q.entries[i] = s1.log[q.prevLogIndex + i]
    <3>1. q.prevLogIndex + i \in 1..Len(s.log)
      BY <1>1, <1>2, <2>1 DEF PieceOf
    <3> QED
      BY <2>1, <2>2, <3>1 DEF PieceOf
  <2>6. q.leaderCommit <= s1.commit_index
    <3>1. s1.commit_index \in Nat /\ s1.commit_index >= s.commit_index
      BY <1>8, NodeStepTenure
    <3> QED
      BY <1>1, <1>2, <2>1, <3>1 DEF PieceOf
  <2> QED
    BY <2>3, <2>4, <2>5, <2>6 DEF PieceOf
<1> QED
  BY <1>5, <1>7, <1>8 DEF TrueToOffice

\* Kills are counted, and until the first one every server is up.
LEMMA CrashesCounted ==
  ASSUME TypeOK, [Next]_vars, spent'.crashes = 0
  PROVE  spent.crashes = 0 /\ (up = Node => up' = Node)
<1>0. spent \in [elections : Nat, failures : Nat, crashes : Nat]
  BY DEF TypeOK
<1>1. CASE \E n \in Node : Crash(n)
  BY <1>0, <1>1 DEF Crash
<1>2. ASSUME Elect
      PROVE  up' = up /\ spent'.crashes = spent.crashes
  BY <1>0, <1>2 DEF Elect, ElectionTimeout, start_election, SendRequestVote,
     RequestVoteFails, HandleRequestVoteReply, FinishElection, RequestVote,
     CountFailure
<1>3. ASSUME Replicate
      PROVE  up' = up /\ spent'.crashes = spent.crashes
  BY <1>0, <1>3 DEF Replicate, piggyback_heartbeat, SendAppendEntries,
     AppendEntriesFails, HandleAppendReply, FinishRound, AppendEntries,
     CountFailure
<1>4. ASSUME Serve \/ UNCHANGED vars
      PROVE  up' = up /\ spent'.crashes = spent.crashes
  BY <1>4 DEF Serve, replicate_entry, WaiterWakes, vars
<1>5. ASSUME \E n \in Node : Restart(n)
      PROVE  /\ spent'.crashes = spent.crashes
             /\ \E n \in Node : up' = up \cup {n}
  BY <1>5 DEF Restart
<1> QED
  BY <1>1, <1>2, <1>3, <1>4, <1>5 DEF Next, Fail

\* The inductive form of RequestsComeFromTheLog, before the first kill.
OfficeInv ==
  spent.crashes = 0 =>
    /\ up = Node
    /\ \A r \in appendRequests : TrueToOffice(node[r.from], r)

LEMMA OfficeNext ==
  ASSUME TypeOK, CallsGoToPeers, OfficeInv, [Next]_vars
  PROVE  OfficeInv'
<1> SUFFICES ASSUME spent'.crashes = 0
             PROVE  /\ up' = Node
                    /\ \A q \in appendRequests' : TrueToOffice(node'[q.from], q)
  BY DEF OfficeInv, TrueToOffice, PieceOf, TermAt
<1>1. /\ up' = Node
      /\ \A r \in appendRequests : TrueToOffice(node[r.from], r)
  BY CrashesCounted DEF OfficeInv
<1>2. ASSUME NEW q \in appendRequests'
      PROVE  TrueToOffice(node'[q.from], q)
  <2>1. q \in AppendRequest /\ q.from \in Node
    BY TypeNext DEF TypeOK, AppendRequest
  <2>2. NodeStep(q.from, node[q.from], node'[q.from]) /\ node[q.from] \in RaftState
    BY <2>1, NodeSteps, ThreadTypes
  <2>3. CASE \E r \in appendRequests : SameRequest(r, q)
    <3>1. TrueToOffice(node[q.from], q)
      BY <1>1, <2>3 DEF SameRequest, TrueToOffice, PieceOf
    <3> QED
      BY <1>1, <2>1, <2>2, <3>1, TenureKeepsPieces
  <2>4. CASE SentBy(node[q.from], q) /\ UNCHANGED <<node, spent>>
    BY <2>1, <2>2, <2>4, SentIsPiece
  <2> QED
    BY <2>3, <2>4, RequestSteps
<1> QED
  BY <1>1, <1>2

\* Until a server is killed, every request under way, late or not, is a piece
\* of the log of its sender while that is in office.  (A killed server comes
\* back in term 0 with an empty log and may lead the term of its old requests
\* once more.)
THEOREM RequestsFromTheLog ==
  Spec => [](spent.crashes = 0 => RequestsComeFromTheLog)
<1>1. Init => OfficeInv
  BY DEF Init, OfficeInv
<1>2. TypeOK /\ CallsGoToPeers /\ OfficeInv /\ [Next]_vars => OfficeInv'
  BY OfficeNext
<1>3. OfficeInv => (spent.crashes = 0 => RequestsComeFromTheLog)
  BY DEF OfficeInv, TrueToOffice, PieceOf, RequestsComeFromTheLog
<1> QED
  BY <1>1, <1>2, <1>3, PeersInvariant, PTL DEF Spec

-----------------------------------------------------------------------------
(* The median of match_index.                                              *)

\* Of any indexes there is a middle one, as get_match_index_median chooses it.
LEMMA MedianExists ==
  ASSUME NEW f \in [Node -> Nat], NEW n \in Node,
         NEW half \in Nat, half < Cardinality(Node)
  PROVE  \E m \in {f[i] : i \in Node} :
           /\ Cardinality({i \in Node : f[i] < m}) <= half
           /\ Cardinality({i \in Node : f[i] <= m}) > half
<1> DEFINE Upto(k) == {i \in Node : f[i] <= k}
           Below(k) == {i \in Node : f[i] < k}
           size(k) == Cardinality(Upto(k))
           N == Cardinality(Node)
<1>1. IsFiniteSet(Node) /\ N \in Nat
  BY FS_CardinalityType DEF ConstantsAssumption
<1>2. \A k \in Nat : size(k) \in Nat /\ size(k) <= N /\ IsFiniteSet(Upto(k))
  <2>1. ASSUME NEW k \in Nat
        PROVE  size(k) \in Nat /\ size(k) <= N /\ IsFiniteSet(Upto(k))
    <3>1. Upto(k) \in SUBSET Node
      OBVIOUS
    <3> HIDE DEF Upto
    <3>2. IsFiniteSet(Upto(k)) /\ Cardinality(Upto(k)) <= Cardinality(Node)
      BY <1>1, <3>1, FS_Subset
    <3> QED
      BY <3>2, FS_CardinalityType
  <2> QED
    BY <2>1
<1>3. \A k, l \in Nat : k <= l => Upto(k) \subseteq Upto(l)
  OBVIOUS
<1> HIDE DEF N
<1>4. \E k \in Nat : Upto(k) = Node
  <2> DEFINE Sizes == {size(k) : k \in Nat}
  <2>1. Sizes \subseteq Nat /\ Sizes # {} /\ \A x \in Sizes : x <= N
    <3> HIDE DEF size
    <3> QED
      BY <1>2, 0 \in Nat
  <2>2. PICK x \in Sizes : \A y \in Sizes : y <= x
    <3> HIDE DEF Sizes
    <3> QED
      BY <1>1, <2>1, GreatestNatural
  <2>3. PICK k \in Nat : x = size(k)
    <3> HIDE DEF size
    <3> QED
      BY <2>2
  <2>4. ASSUME NEW i \in Node, i \notin Upto(k)
        PROVE  FALSE
    <3>1. f[i] \in Nat /\ k <= f[i] /\ i \in Upto(f[i])
      BY <2>4
    <3>2. Upto(k) \in SUBSET Upto(f[i])
      BY <1>3, <3>1
    <3>3. size(f[i]) <= size(k)
      <4> HIDE DEF size
      <4> QED
        BY <2>2, <2>3, <3>1
    <3> HIDE DEF Upto
    <3>4. size(k) <= size(f[i]) /\ (size(f[i]) = size(k) => Upto(f[i]) = Upto(k))
      BY <1>2, <3>1, <3>2, FS_Subset
    <3>5. size(f[i]) = size(k)
      <4> HIDE DEF size
      <4> QED
        BY <1>2, <3>1, <3>3, <3>4
    <3> QED
      BY <2>4, <3>1, <3>4, <3>5
  <2> QED
    BY <2>4
<1> DEFINE Most == {k \in Nat : size(k) > half}
<1>5. Most # {}
  <2>1. PICK k \in Nat : Upto(k) = Node
    BY <1>4
  <2>2. size(k) = N
    BY <2>1 DEF N
  <2> HIDE DEF size
  <2> QED
    BY <2>2 DEF N
<1>6. PICK m \in Most : \A k \in Most : m <= k
  <2>1. Most \subseteq Nat
    OBVIOUS
  <2> HIDE DEF Most
  <2> QED
    BY <1>5, <2>1, LeastNatural
<1>7. m \in Nat /\ size(m) > half /\ \A k \in Nat : size(k) > half => m <= k
  <2> HIDE DEF size
  <2> QED
    BY <1>6
<1> HIDE DEF Most
<1>8. Cardinality(Below(m)) <= half
  <2>1. CASE m = 0
    <3>1. Below(m) = {}
      BY <2>1
    <3> QED
      BY <3>1, FS_EmptySet
  <2>2. CASE m # 0
    <3>1. m - 1 \in Nat /\ ~(m <= m - 1)
      BY <1>7, <2>2
    <3>2. Below(m) = Upto(m - 1)
      BY <1>7, <3>1
    <3>3. size(m - 1) \in Nat /\ ~(size(m - 1) > half)
      <4> HIDE DEF size
      <4> QED
        BY <1>2, <1>7, <3>1
    <3>4. Cardinality(Below(m)) = size(m - 1)
      BY <3>2
    <3> HIDE DEF size
    <3> QED
      BY <3>3, <3>4
  <2> QED
    BY <2>1, <2>2
<1>9. m \in {f[i] : i \in Node}
  <2>1. ASSUME m \notin {f[i] : i \in Node}
        PROVE  Upto(m) = Below(m)
    BY <1>7, <2>1
  <2>2. Upto(m) # Below(m)
    <3>1. Cardinality(Upto(m)) > half
      BY <1>7
    <3>2. Cardinality(Upto(m)) \in Nat
      BY <1>2, <1>7
    <3> HIDE DEF Upto, Below
    <3> QED
      BY <1>8, <3>1, <3>2
  <2> QED
    BY <2>1, <2>2
<1> QED
  BY <1>7, <1>8, <1>9

\* The median is an index that at least half of the servers have reached.
LEMMA MedianMatched ==
  ASSUME NEW s \in RaftState, NEW n \in Node
  PROVE  LET median == get_match_index_median(s) IN
           /\ median \in Nat
           /\ 2 * Cardinality({i \in Node : s.match_index[i] >= median})
                >= Cardinality(Node)
<1> DEFINE f == s.match_index
           N == Cardinality(Node)
           half == Cardinality(Node) \div 2
           Middle(m) == /\ Cardinality({i \in Node : f[i] < m}) <= half
                        /\ Cardinality({i \in Node : f[i] <= m}) > half
           median == CHOOSE m \in {f[i] : i \in Node} : Middle(m)
<1>1. f \in [Node -> Nat]
  BY DEF RaftState
<1>2. IsFiniteSet(Node) /\ N \in Nat /\ N # 0
  BY FS_CardinalityType, FS_EmptySet DEF ConstantsAssumption
<1>3. half \in Nat /\ half < N /\ 2 * half <= N
  BY <1>2
<1> HIDE DEF half
<1>4. \E m \in {f[i] : i \in Node} : Middle(m)
  <2> HIDE DEF f
  <2> QED
    BY <1>1, <1>3, MedianExists
<1>5. median \in {f[i] : i \in Node} /\ Middle(median)
  <2> HIDE DEF f, Middle
  <2> QED
    BY <1>4
<1>6. get_match_index_median(s) = median
  BY DEF get_match_index_median, half
<1>7. median \in Nat
  <2> HIDE DEF median, f
  <2> QED
    BY <1>1, <1>5
<1> DEFINE Below == {i \in Node : f[i] < median}
           Matched == {i \in Node : f[i] >= median}
<1>8. Matched = Node \ Below
  <2> HIDE DEF median, f
  <2> QED
    BY <1>1, <1>7
<1>9. Node \cap Below = Below /\ Below \in SUBSET Node
  OBVIOUS
<1>10. Cardinality(Below) <= half
  BY <1>5
<1> HIDE DEF median, f, Below
<1>11. /\ Cardinality(Matched) = N - Cardinality(Below)
       /\ Cardinality(Below) \in Nat
  <2> HIDE DEF Matched
  <2>1. Cardinality(Matched) = N - Cardinality(Below)
    BY <1>2, <1>8, <1>9, FS_Difference
  <2>2. Cardinality(Below) \in Nat
    BY <1>2, <1>9, FS_Subset, FS_CardinalityType
  <2> QED
    BY <2>1, <2>2
<1>12. 2 * Cardinality(Matched) >= N
  <2> HIDE DEF Matched, N
  <2> QED
    BY <1>2, <1>3, <1>10, <1>11
<1> QED
  BY <1>6, <1>7, <1>12 DEF f

\* s1 comes from s by a commit as Raft allows it.
CommitsMatched(s, s1) ==
  LET index == s1.commit_index
      matched == {i \in Node : s1.match_index[i] >= index}
  IN /\ index > s.commit_index
     /\ index \in DOMAIN s.log
     /\ s.log[index].term = s.current_term
     /\ 2 * Cardinality(matched) >= Cardinality(Node)

LEMMA AfterAppendReplyMatched ==
  ASSUME NEW s \in RaftState, NEW m \in AppendReply, NEW s1,
         s1 = AfterAppendReply(s, m)
  PROVE  s1.commit_index = s.commit_index \/ CommitsMatched(s, s1)
<1> DEFINE match == [s EXCEPT !.match_index[m.to] = m.matched,
                              !.next_index[m.to] = m.matched + 1]
           median == get_match_index_median(match)
           matched == {i \in Node : match.match_index[i] >= median}
<1>1. /\ s.log \in Seq(Entry) /\ Len(s.log) \in Nat /\ s.commit_index \in Nat
      /\ m.to \in Node
  BY DEF RaftState, AppendReply
<1>2. /\ downgrade_to_follower(s, m.term).commit_index = s.commit_index
      /\ DecrementNext(s, m.to).commit_index = s.commit_index
      /\ match.commit_index = s.commit_index
  BY DEF DecrementNext, downgrade_to_follower, reset_election_timer, RaftState
<1>3. match \in RaftState
  BY MatchType
<1> HIDE DEF match
<1>4. 2 * Cardinality(matched) >= Cardinality(Node)
  BY <1>1, <1>3, MedianMatched
<1> HIDE DEF median
<1>5. /\ CommitUpTo(match, median).commit_index = median
      /\ CommitUpTo(match, median).match_index = match.match_index
  BY <1>3 DEF CommitUpTo, RaftState
<1>6. \/ s1 \in {downgrade_to_follower(s, m.term), DecrementNext(s, m.to), match}
      \/ /\ median \in (s.commit_index + 1)..Len(s.log)
         /\ s.log[median].term = s.current_term
         /\ s1 = CommitUpTo(match, median)
  BY DEF AfterAppendReply, match, median
<1>7. CASE s1 \in {downgrade_to_follower(s, m.term), DecrementNext(s, m.to), match}
  BY <1>2, <1>7
<1>8. CASE /\ median \in (s.commit_index + 1)..Len(s.log)
           /\ s.log[median].term = s.current_term
           /\ s1 = CommitUpTo(match, median)
  <2>1. s1.commit_index = median /\ s1.match_index = match.match_index
    BY <1>5, <1>8
  <2>2. median > s.commit_index /\ median \in DOMAIN s.log
    BY <1>1, <1>8
  <2>3. {i \in Node : s1.match_index[i] >= median} = matched
    BY <2>1
  <2> HIDE DEF matched
  <2> QED
    BY <1>4, <1>8, <2>1, <2>2, <2>3 DEF CommitsMatched
<1> QED
  BY <1>6, <1>7, <1>8

\* The steps of one node that leads before and after.
LEMMA NodeStepCommits ==
  ASSUME TypeOK, NEW n \in Node, NEW s \in RaftState, NEW s1,
         NodeStep(n, s, s1), s.role = "LEADER", s1.role = "LEADER"
  PROVE  s1.commit_index = s.commit_index \/ CommitsMatched(s, s1)
<1> USE MessageTypes
<1>1. CASE s1 \in {s, [s EXCEPT !.election_timer = FALSE],
                   [s EXCEPT !.heartbeat_timer = FALSE],
                   reset_election_timer(s), reset_heartbeat_timer(s),
                   Candidate(s, n), become_leader(s, n),
                   downgrade_to_follower(s, s.current_term)}
  BY <1>1 DEF reset_election_timer, reset_heartbeat_timer, Candidate,
     become_leader, schedule_heartbeat, downgrade_to_follower, RaftState
<1>2. ASSUME NEW r \in voteRequests, s1 = AfterRequestVote(s, r).state
      PROVE  s1.commit_index = s.commit_index
  <2>1. r \in VoteRequest
    OBVIOUS
  <2>2. \/ s1 = s \/ s1.role = "FOLLOWER"
        \/ s1 = [s EXCEPT !.voted_for = r.from, !.election_timer = TRUE]
    BY <1>2, <2>1, AfterRequestVoteEffect
  <2>3. [s EXCEPT !.voted_for = r.from, !.election_timer = TRUE].commit_index
          = s.commit_index
    BY DEF RaftState
  <2> QED
    BY <2>2, <2>3
<1>3. ASSUME NEW r \in appendRequests, s1 = AfterAppendEntries(s, r).state
      PROVE  s1.commit_index = s.commit_index
  <2>1. r \in AppendRequest
    OBVIOUS
  <2>2. s1 = s \/ s1.role = "FOLLOWER"
    BY <1>3, <2>1, AfterAppendEntriesEffect
  <2> QED
    BY <2>2
<1>4. ASSUME NEW m \in appendReplies, s1 = AfterAppendReply(s, m)
      PROVE  s1.commit_index = s.commit_index \/ CommitsMatched(s, s1)
  <2>1. m \in AppendReply
    OBVIOUS
  <2> QED
    BY <1>4, <2>1, AfterAppendReplyMatched
<1>5. ASSUME NEW op \in Op, s1 = Appended(s, n, op)
      PROVE  s1.commit_index = s.commit_index
  BY <1>5 DEF Appended, schedule_heartbeat, RaftState
<1>6. CASE s1 = InitialNode
  BY <1>6 DEF InitialNode
<1>7. \/ s1 \in {s, [s EXCEPT !.election_timer = FALSE],
                 [s EXCEPT !.heartbeat_timer = FALSE],
                 reset_election_timer(s), reset_heartbeat_timer(s),
                 Candidate(s, n), become_leader(s, n),
                 downgrade_to_follower(s, s.current_term)}
      \/ \E r \in voteRequests : s1 = AfterRequestVote(s, r).state
      \/ \E r \in appendRequests : s1 = AfterAppendEntries(s, r).state
      \/ \E m \in appendReplies : s1 = AfterAppendReply(s, m)
      \/ \E op \in Op : s1 = Appended(s, n, op)
      \/ s1 = InitialNode
  BY DEF NodeStep
<1> QED
  BY <1>1, <1>2, <1>3, <1>4, <1>5, <1>6, <1>7

\* A leader commits an entry of its own term that at least half of the
\* servers have acknowledged, and never takes a commit back.
THEOREM LeadersCommitMatched == Spec => LeadersCommitWhatIsMatched
<1>1. TypeOK /\ [Next]_vars =>
        [\A n \in Node :
           Leads(n) /\ Leads(n)' /\ node'[n].commit_index # node[n].commit_index =>
             LET index == node'[n].commit_index
                 matched == {i \in Node : node'[n].match_index[i] >= index}
             IN /\ index > node[n].commit_index
                /\ index \in DOMAIN node[n].log
                /\ node[n].log[index].term = node[n].current_term
                /\ 2 * Cardinality(matched) >= Cardinality(Node)]_vars
  <2> SUFFICES ASSUME TypeOK, [Next]_vars, NEW n \in Node, Leads(n), Leads(n)',
                      node'[n].commit_index # node[n].commit_index
               PROVE  CommitsMatched(node[n], node'[n])
    BY DEF CommitsMatched
  <2>1. NodeStep(n, node[n], node'[n]) /\ node[n] \in RaftState
    BY NodeSteps, ThreadTypes
  <2>2. node[n].role = "LEADER" /\ node'[n].role = "LEADER"
    BY DEF Leads
  <2> QED
    BY <2>1, <2>2, NodeStepCommits
<1> QED
  BY <1>1, TypeCorrect, PTL DEF Spec, LeadersCommitWhatIsMatched
=============================================================================
