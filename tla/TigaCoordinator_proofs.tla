------------------------ MODULE TigaCoordinator_proofs ------------------------
(***************************************************************************)
(* A coordinator finishes each request once and as itself, from replies of *)
(* one view of each shard and at one deadline, for any numbers of shards   *)
(* and replicas, any requests, deadlines, hashes, views and failures.      *)
(*                                                                         *)
(* CheckQuorum commits without asking isNonSerializable: it may, because a *)
(* quorum set is never left with different deadlines of all leaders (the   *)
(* lower ones are erased at once), and clearing replies adds none.         *)
(***************************************************************************)
EXTENDS TigaCoordinator, FiniteSetTheorems, TLAPS

OneView(q) ==
    \A s \in Shard : \A r \in Repliers(q, s) : q.replies[s][r].view = q.viewIds[s]

Reconciliation == [req : ReqId, shard : Shard, view : Nat, ddl : Hash]

OutcomeOK == DOMAIN outcome = ReqId

(* The daemon is at the request the client has in process. *)
EarlierCommitted == \A t \in ReqId : t < running => t \in committedIds
OnlyRunning == \A t \in ReqId : quorumSets[t] # None => t = running
ReconcilesLaunched == \A m \in reconciliations : m.req <= running

(* What a quorum set is left with can be committed when it is complete. *)
LeftSerializable ==
    \A t \in ReqId : quorumSets[t] # None => ~isNonSerializable(quorumSets[t])

IInv ==
    /\ TypeOK
    /\ OutcomeOK
    /\ EarlierCommitted
    /\ OnlyRunning
    /\ ReconcilesLaunched
    /\ LeftSerializable
    /\ RepliesOfOneView
    /\ FinishesRequestInProcess
    /\ CommittedAtOneDeadline

-----------------------------------------------------------------------------
(* Quorum sets.                                                            *)

LEMMA LeaderIsReplica == ASSUME NEW v \in Nat PROVE LeaderIn(v) \in Replica
BY SizeAssumption DEF LeaderIn, Replica

(* The first reply makes a quorum set of one view. *)
LEMMA NewQuorumSetOK ==
    ASSUME TypeOK, NEW x \in Server, NEW rep \in Reply
    PROVE  NewQuorumSet(x, rep) \in QuorumSet /\ OneView(NewQuorumSet(x, rep))
<1>1. x[1] \in Shard /\ x[2] \in Replica /\ 0 \in Replica
    BY SizeAssumption DEF Server, Replica
<1>2. rep.view \in Nat
    BY DEF Reply
<1>3. NoReplies \in [Replica -> Reply \cup {None}]
    BY DEF NoReplies
<1>4. NewQuorumSet(x, rep) \in QuorumSet
    BY <1>1, <1>2, <1>3 DEF NewQuorumSet, QuorumSet, TypeOK
<1>5. OneView(NewQuorumSet(x, rep))
    BY <1>1 DEF OneView, Repliers, NewQuorumSet, NoReplies
<1> QED BY <1>4, <1>5

(* Taking a reply over keeps one view if those of older ones are cleared. *)
LEMMA TakeOK ==
    ASSUME NEW q \in QuorumSet, NEW x \in Server, NEW rep \in Reply, NEW S \in SUBSET Shard,
           OneView(q), x[1] \in S \/ q.viewIds[x[1]] = rep.view
    PROVE  Take(q, x, rep, S) \in QuorumSet /\ OneView(Take(q, x, rep, S))
<1>1. x[1] \in Shard /\ x[2] \in Replica
    BY DEF Server
<1>2. rep.view \in Nat
    BY DEF Reply
<1>3. ClearShards(q, S) \in [Shard -> [Replica -> Reply \cup {None}]]
    BY DEF ClearShards, NoReplies, QuorumSet
<1>4. Take(q, x, rep, S) \in QuorumSet
    BY <1>1, <1>2, <1>3 DEF Take, QuorumSet
<1>5. OneView(Take(q, x, rep, S))
    <2> SUFFICES ASSUME NEW s \in Shard, NEW r \in Repliers(Take(q, x, rep, S), s)
                 PROVE  Take(q, x, rep, S).replies[s][r].view = Take(q, x, rep, S).viewIds[s]
        BY DEF OneView
    <2>1. r \in Replica /\ Take(q, x, rep, S).replies[s][r] # None
        BY DEF Repliers
    <2>2. q.viewIds \in [Shard -> Nat]
        BY DEF QuorumSet
    <2>3. CASE s = x[1] /\ r = x[2]
        BY <2>3, <2>1, <2>2, <1>1, <1>3 DEF Take
    <2>4. CASE s = x[1] /\ r # x[2]
        <3>1. Take(q, x, rep, S).replies[s][r] = ClearShards(q, S)[s][r]
            BY <2>4, <1>1, <1>3, <2>1 DEF Take
        <3>2. s \notin S
            BY <3>1, <2>1 DEF ClearShards, NoReplies
        <3>3. Take(q, x, rep, S).replies[s][r] = q.replies[s][r]
            BY <3>1, <3>2 DEF ClearShards
        <3> QED BY <3>2, <3>3, <2>1, <2>2, <2>4, <1>1 DEF OneView, Repliers, Take
    <2>5. CASE s # x[1]
        <3>1. Take(q, x, rep, S).replies[s] = ClearShards(q, S)[s]
            BY <2>5, <1>1, <1>3 DEF Take
        <3>2. s \notin S
            BY <3>1, <2>1 DEF ClearShards, NoReplies
        <3>3. Take(q, x, rep, S).replies[s][r] = q.replies[s][r]
            BY <3>1, <3>2 DEF ClearShards
        <3> QED BY <3>3, <2>1, <2>2, <2>5 DEF OneView, Repliers, Take
    <2> QED BY <2>3, <2>4, <2>5
<1> QED BY <1>4, <1>5

LEMMA AddToQuorumSetOK ==
    ASSUME NEW q \in QuorumSet, NEW x \in Server, NEW rep \in Reply, OneView(q)
    PROVE  AddToQuorumSet(q, x, rep) \in QuorumSet /\ OneView(AddToQuorumSet(q, x, rep))
<1>1. x[1] \in Shard /\ rep.view \in Nat /\ q.gView \in Nat /\ q.viewIds[x[1]] \in Nat
    BY DEF Server, Reply, QuorumSet
<1>2. CASE q.gView < rep.view
    BY <1>2, <1>1, TakeOK DEF AddToQuorumSet
<1>3. CASE q.gView >= rep.view /\ q.viewIds[x[1]] < rep.view
    <2>1. AddToQuorumSet(q, x, rep) = Take(q, x, rep, {x[1]})
        BY <1>3, <1>1 DEF AddToQuorumSet
    <2> QED BY <2>1, <1>1, TakeOK
<1>4. CASE q.gView >= rep.view /\ q.viewIds[x[1]] = rep.view
    <2>1. AddToQuorumSet(q, x, rep) = Take(q, x, rep, {})
        BY <1>4, <1>1 DEF AddToQuorumSet
    <2> QED BY <2>1, <1>4, TakeOK
<1>5. CASE q.gView >= rep.view /\ q.viewIds[x[1]] > rep.view
    <2>1. AddToQuorumSet(q, x, rep) = q
        BY <1>5, <1>1 DEF AddToQuorumSet
    <2> QED BY <2>1
<1> QED BY <1>1, <1>2, <1>3, <1>4, <1>5

(* q is left with some of its replies, in the same views. *)
Fewer(p, q) ==
    /\ p.viewIds = q.viewIds
    /\ \A s \in Shard, r \in Replica : p.replies[s][r] \in {q.replies[s][r], None}

LEMMA FewerOneView ==
    ASSUME NEW p, NEW q, Fewer(p, q), OneView(q)
    PROVE  OneView(p)
BY DEF Fewer, OneView, Repliers

LEMMA ClearShardOK ==
    ASSUME NEW q \in QuorumSet, NEW s
    PROVE  ClearShard(q, s) \in QuorumSet /\ Fewer(ClearShard(q, s), q)
<1>1. ClearShards(q, {s}) \in [Shard -> [Replica -> Reply \cup {None}]]
    BY DEF ClearShards, NoReplies, QuorumSet
<1>2. ClearShard(q, s) = [gView |-> q.gView, viewIds |-> q.viewIds, replies |-> ClearShards(q, {s})]
    BY DEF ClearShard, QuorumSet
<1>3. ClearShard(q, s) \in QuorumSet
    <2>1. q.gView \in Nat /\ q.viewIds \in [Shard -> Nat]
        BY DEF QuorumSet
    <2>2. [gView |-> q.gView, viewIds |-> q.viewIds, replies |-> ClearShards(q, {s})] \in QuorumSet
        BY <1>1, <2>1 DEF QuorumSet
    <2> QED BY <1>2, <2>2
<1>4. Fewer(ClearShard(q, s), q)
    BY <1>2 DEF Fewer, ClearShards, NoReplies
<1> QED BY <1>3, <1>4

LEMMA WithoutLowerOK ==
    ASSUME NEW q \in QuorumSet
    PROVE  WithoutLower(q) \in QuorumSet /\ Fewer(WithoutLower(q), q)
<1> DEFINE R == [s \in Shard |-> IF s \notin Lower(q) THEN q.replies[s]
                    ELSE [q.replies[s] EXCEPT ![LeaderIn(q.viewIds[s])] = None]]
<1>1. WithoutLower(q) = [gView |-> q.gView, viewIds |-> q.viewIds, replies |-> R]
    BY SMTT(30) DEF WithoutLower, QuorumSet
<1>2. R \in [Shard -> [Replica -> Reply \cup {None}]]
    BY DEF QuorumSet
<1>3. WithoutLower(q) \in QuorumSet
    BY <1>1, <1>2 DEF QuorumSet
<1>4. ASSUME NEW s \in Shard, NEW r \in Replica
      PROVE  R[s][r] \in {q.replies[s][r], None}
    BY DEF QuorumSet
<1>5. Fewer(WithoutLower(q), q)
    BY <1>1, <1>4 DEF Fewer
<1> QED BY <1>3, <1>5

-----------------------------------------------------------------------------
(* Deadlines.                                                              *)

AllLeaders(q) == \A s \in targetShards : LeaderReply(q, s) # None

LEMMA TargetsAreShards == targetShards \subseteq Shard
<1>1. running \in ReqId => Targets[running] \in (SUBSET Shard) \ {{}}
    BY TargetsAssumption DEF ReqId
<1> QED BY <1>1 DEF targetShards

LEMMA TargetsFinite == IsFiniteSet(targetShards)
<1>1. IsFiniteSet(Shard)
    BY SizeAssumption, FS_Interval DEF Shard
<1> QED BY <1>1, TargetsAreShards, FS_Subset

LEMMA DeadlinesFinite ==
    ASSUME NEW q
    PROVE  IsFiniteSet(LeaderDeadlines(q)) /\ Cardinality(LeaderDeadlines(q)) \in Nat
<1> DEFINE f == [s \in targetShards |-> LeaderReply(q, s).hash]
<1>1. f \in Surjection(targetShards, LeaderDeadlines(q))
    BY DEF Surjection, LeaderDeadlines
<1>2. IsFiniteSet(LeaderDeadlines(q))
    BY <1>1, TargetsFinite, FS_Surjection
<1> QED BY <1>2, FS_CardinalityType

(* Deadlines that are all the same are one. *)
LEMMA SameDeadline ==
    ASSUME NEW q, targetShards # {},
           \A s, o \in targetShards : LeaderReply(q, s).hash = LeaderReply(q, o).hash
    PROVE  Cardinality(LeaderDeadlines(q)) = 1
<1>1. PICK s \in targetShards : TRUE
    OBVIOUS
<1>2. LeaderDeadlines(q) = {LeaderReply(q, s).hash}
    BY <1>1 DEF LeaderDeadlines
<1> QED BY <1>2, FS_Singleton

(* A complete quorum set that is not non-serializable has one deadline. *)
LEMMA OneDeadline ==
    ASSUME NEW q, targetShards # {}, AllLeaders(q), ~isNonSerializable(q)
    PROVE  Cardinality(LeaderDeadlines(q)) = 1
<1>0. Cardinality(targetShards) \in Nat
    BY TargetsFinite, FS_CardinalityType
<1>1. CASE Cardinality(targetShards) > 1
    <2>1. ~(Cardinality(LeaderDeadlines(q)) > 1)
        BY <1>1 DEF isNonSerializable, AllLeaders
    <2>2. Cardinality(LeaderDeadlines(q)) # 0
        <3>1. LeaderDeadlines(q) # {}
            BY DEF LeaderDeadlines
        <3> QED BY <3>1, DeadlinesFinite, FS_EmptySet
    <2> QED BY <2>1, <2>2, DeadlinesFinite
<1>2. CASE ~(Cardinality(targetShards) > 1)
    <2>1. Cardinality(targetShards) # 0
        BY TargetsFinite, FS_EmptySet
    <2>2. PICK s : targetShards = {s}
        BY <1>0, <1>2, <2>1, TargetsFinite, FS_Singleton
    <2> QED BY <2>2, SameDeadline
<1> QED BY <1>1, <1>2

(* Clearing replies leaves no more to disagree. *)
LEMMA FewerSerializable ==
    ASSUME NEW p, NEW q \in QuorumSet, Fewer(p, q), ~isNonSerializable(q)
    PROVE  ~isNonSerializable(p)
<1> SUFFICES ASSUME isNonSerializable(p) PROVE FALSE
    OBVIOUS
<1>1. ASSUME NEW s \in targetShards
      PROVE  LeaderReply(p, s) = LeaderReply(q, s)
    <2>1. s \in Shard /\ q.viewIds[s] \in Nat
        BY TargetsAreShards DEF QuorumSet
    <2>2. LeaderReply(p, s) # None
        BY DEF isNonSerializable
    <2> QED BY <2>1, <2>2, LeaderIsReplica DEF LeaderReply, Fewer
<1>2. LeaderDeadlines(p) = LeaderDeadlines(q)
    BY <1>1 DEF LeaderDeadlines
<1> QED BY <1>1, <1>2 DEF isNonSerializable

(* If the deadlines differ, one that is lower than another is erased. *)
LEMMA WithoutLowerSerializable ==
    ASSUME NEW q \in QuorumSet, isNonSerializable(q)
    PROVE  ~isNonSerializable(WithoutLower(q))
<1>1. targetShards # {}
    <2>1. Cardinality(targetShards) > 1
        BY DEF isNonSerializable
    <2> QED BY <2>1, FS_EmptySet
<1>2. PICK s \in targetShards, o \in targetShards :
          LeaderReply(q, s).hash # LeaderReply(q, o).hash
    <2>1. Cardinality(LeaderDeadlines(q)) # 1
        BY DeadlinesFinite DEF isNonSerializable
    <2> QED BY <2>1, <1>1, SameDeadline
<1>3. ASSUME NEW u \in targetShards
      PROVE  LeaderReply(q, u).hash \in Nat
    <2>1. u \in Shard /\ q.viewIds[u] \in Nat
        BY TargetsAreShards DEF QuorumSet
    <2>2. LeaderReply(q, u) \in Reply
        BY <2>1, LeaderIsReplica DEF isNonSerializable, LeaderReply, QuorumSet
    <2> QED BY <2>2, DeadlineAssumption DEF Reply, Hash
<1>4. PICK u \in targetShards : u \in Lower(q)
    <2>1. \/ LeaderReply(q, s).hash < LeaderReply(q, o).hash
          \/ LeaderReply(q, o).hash < LeaderReply(q, s).hash
        BY <1>2, <1>3
    <2> QED BY <2>1 DEF Lower, LeaderDeadlines
<1>5. LeaderReply(WithoutLower(q), u) = None
    <2>1. u \in Shard /\ q.viewIds[u] \in Nat
        BY TargetsAreShards DEF QuorumSet
    <2>2. LeaderIn(q.viewIds[u]) \in Replica
        BY <2>1, LeaderIsReplica
    <2>3. WithoutLower(q).viewIds = q.viewIds
        BY WithoutLowerOK DEF Fewer
    <2>4. WithoutLower(q).replies[u][LeaderIn(q.viewIds[u])] = None
        BY <2>1, <2>2, <1>4 DEF WithoutLower, QuorumSet
    <2> QED BY <2>3, <2>4 DEF LeaderReply
<1> QED BY <1>4, <1>5 DEF isNonSerializable

(* Reconciliation is asked of the servers the replies came from. *)
LEMMA RequestsOK ==
    ASSUME NEW t \in ReqId, NEW q \in QuorumSet, isNonSerializable(q)
    PROVE  ReconciliationRequests(t, q) \subseteq Reconciliation
<1>1. ASSUME NEW s \in targetShards
      PROVE  s \in Shard /\ q.viewIds[s] \in Nat /\ LeaderReply(q, s).hash \in Hash
    <2>1. s \in Shard /\ q.viewIds[s] \in Nat
        BY TargetsAreShards DEF QuorumSet
    <2>2. LeaderReply(q, s) \in Reply
        BY <2>1, LeaderIsReplica DEF isNonSerializable, LeaderReply, QuorumSet
    <2> QED BY <2>1, <2>2 DEF Reply
<1>2. Agreed(q) \subseteq Hash
    BY <1>1 DEF Agreed, LeaderDeadlines
<1> QED BY <1>1, <1>2 DEF ReconciliationRequests, Reconciliation, Lower

-----------------------------------------------------------------------------
(* Steps of the daemon.  What it leaves, in all of them:                   *)

Environment ==
    /\ gView' = gView /\ currentViews' = currentViews /\ currentSynced' = currentSynced
    /\ taken' \in [ReqId -> SUBSET Server]
    /\ reconciliations' \subseteq Reconciliation
    /\ \A m \in reconciliations' : m.req <= running

LEMMA FinishKeeps ==
    ASSUME IInv, Environment, NEW t \in ReqId, t = running, NEW q \in QuorumSet,
           AllLeaders(q), ~isNonSerializable(q), Finish(t, q)
    PROVE  IInv'
<1> USE DEF IInv
<1>0. running \in ReqId /\ running \in Nat /\ running' = running + 1
    BY DEF TypeOK, Finish
<1>1. quorumSets' = [u \in ReqId |-> IF u = t THEN None ELSE quorumSets[u]]
    BY DEF Finish, TypeOK
<1>2. \A u \in ReqId : quorumSets'[u] = None
    BY <1>1 DEF OnlyRunning
<1>3. targetShards # {}
    <2>1. Targets[running] \in (SUBSET Shard) \ {{}}
        BY <1>0, TargetsAssumption DEF ReqId
    <2> QED BY <1>0, <2>1 DEF targetShards
<1>4. Cardinality(LeaderDeadlines(q)) = 1
    BY <1>3, OneDeadline
<1>5. PICK d : outcome' = [outcome EXCEPT ![running] =
                 [req |-> t, deadlines |-> Cardinality(LeaderDeadlines(q)), disagreeing |-> d]]
    BY DEF Finish
<1>6. DOMAIN outcome = ReqId
    BY DEF OutcomeOK
<1>7. /\ outcome'[t].req = t /\ outcome'[t].deadlines = 1
      /\ \A u \in ReqId \ {t} : outcome'[u] = outcome[u]
    BY <1>0, <1>4, <1>5, <1>6
<1>8. TypeOK'
    <2>1. quorumSets' \in [ReqId -> QuorumSet \cup {None}]
        BY <1>1 DEF TypeOK
    <2> QED BY <2>1, <1>0 DEF TypeOK, Environment, Finish, Reconciliation
<1>9. OutcomeOK'
    BY <1>5, <1>6 DEF OutcomeOK
<1>10. EarlierCommitted'
    <2> SUFFICES ASSUME NEW u \in ReqId, u < running + 1 PROVE u \in committedIds'
        BY <1>0 DEF EarlierCommitted
    <2>1. u \in Int
        BY DEF ReqId
    <2> QED BY <2>1, <1>0 DEF EarlierCommitted, Finish
<1>11. OnlyRunning' /\ LeftSerializable' /\ RepliesOfOneView'
    BY <1>2 DEF OnlyRunning, LeftSerializable, RepliesOfOneView
<1>12. ReconcilesLaunched'
    <2> SUFFICES ASSUME NEW m \in reconciliations' PROVE m.req <= running + 1
        BY <1>0 DEF ReconcilesLaunched
    <2>1. m.req \in Int /\ m.req <= running
        BY DEF Environment, Reconciliation, ReqId
    <2> QED BY <2>1, <1>0
<1>13. FinishesRequestInProcess' /\ CommittedAtOneDeadline'
    BY <1>7 DEF FinishesRequestInProcess, CommittedAtOneDeadline
<1> QED BY <1>8, <1>9, <1>10, <1>11, <1>12, <1>13

LEMMA KeepKeeps ==
    ASSUME IInv, Environment, NEW t \in ReqId, t = running, NEW q \in QuorumSet,
           OneView(q), ~isNonSerializable(q), Keep(t, q)
    PROVE  IInv'
<1> USE DEF IInv
<1>1. quorumSets' = [u \in ReqId |-> IF u = t THEN q ELSE quorumSets[u]]
    BY DEF Keep, TypeOK
<1>2. running' = running /\ outcome' = outcome /\ committedIds' = committedIds
    BY DEF Keep, coordVars
<1>3. TypeOK'
    <2>1. quorumSets' \in [ReqId -> QuorumSet \cup {None}]
        BY <1>1 DEF TypeOK
    <2> QED BY <2>1 DEF TypeOK, Environment, Keep, coordVars, Reconciliation
<1>4. OutcomeOK' /\ EarlierCommitted'
    BY <1>2 DEF OutcomeOK, EarlierCommitted
<1>5. OnlyRunning'
    BY <1>1, <1>2 DEF OnlyRunning
<1>6. ReconcilesLaunched'
    BY <1>2 DEF ReconcilesLaunched, Environment
<1>7. LeftSerializable'
    <2> SUFFICES ASSUME NEW u \in ReqId, quorumSets'[u] # None
                 PROVE  ~isNonSerializable(quorumSets[u])'
        BY DEF LeftSerializable
    <2>1. quorumSets'[u] = q
        BY <1>1 DEF OnlyRunning
    <2> QED BY <2>1, <1>2 DEF isNonSerializable, LeaderDeadlines, LeaderReply, targetShards
<1>8. RepliesOfOneView'
    BY <1>1 DEF RepliesOfOneView, OneView, Repliers
<1>9. FinishesRequestInProcess' /\ CommittedAtOneDeadline'
    BY <1>2 DEF FinishesRequestInProcess, CommittedAtOneDeadline
<1> QED BY <1>3, <1>4, <1>5, <1>6, <1>7, <1>8, <1>9

LEMMA StaysSerializable ==
    ASSUME LeftSerializable, UNCHANGED <<quorumSets, running>>
    PROVE  LeftSerializable'
<1>1. targetShards' = targetShards
    BY DEF targetShards
<1>2. \A t \in ReqId : LeaderDeadlines(quorumSets[t])' = LeaderDeadlines(quorumSets[t])
    BY <1>1 DEF LeaderDeadlines, LeaderReply
<1>3. \A t \in ReqId : isNonSerializable(quorumSets[t])' <=> isNonSerializable(quorumSets[t])
    BY <1>1, <1>2 DEF isNonSerializable, LeaderReply
<1> QED BY <1>3 DEF LeftSerializable

(* An assertion that fails, or a reply that is dropped. *)
LEMMA NoneKeeps ==
    ASSUME IInv, Environment, aborted' \in BOOLEAN,
           UNCHANGED <<quorumSets, committedIds, coordVars>>
    PROVE  IInv'
<1> USE DEF IInv, coordVars
<1>1. TypeOK'
    BY DEF TypeOK, Environment, Reconciliation
<1>2. OutcomeOK' /\ EarlierCommitted' /\ OnlyRunning'
    BY DEF OutcomeOK, EarlierCommitted, OnlyRunning
<1>3. ReconcilesLaunched'
    BY DEF ReconcilesLaunched, Environment
<1>4. LeftSerializable'
    BY StaysSerializable
<1>5. RepliesOfOneView' /\ FinishesRequestInProcess' /\ CommittedAtOneDeadline'
    BY DEF RepliesOfOneView, Repliers, FinishesRequestInProcess, CommittedAtOneDeadline
<1> QED BY <1>1, <1>2, <1>3, <1>4, <1>5

LEMMA CompleteHasLeaders ==
    ASSUME NEW t, NEW q, Blocking(t, q) = {}
    PROVE  AllLeaders(q)
BY DEF Blocking, ShardCommitted, AllLeaders

(* Whatever the reply of x to a request that has been launched. *)
LEMMA UpdateKeeps ==
    ASSUME IInv, NEW t \in ReqId, t <= running, NEW x \in Server, NEW rep \in Reply,
           NEW others \in SUBSET Reconciliation, \A m \in others : m.req <= running,
           UpdateQuorumSet(t, x, rep, others),
           gView' = gView, UNCHANGED syncVars, taken' \in [ReqId -> SUBSET Server]
    PROVE  IInv'
<1>0. reconciliations' = others => Environment
    BY DEF Environment, syncVars
<1>1. CASE Committed(t)
    <2>1. reconciliations' = others /\ UNCHANGED <<quorumSets, committedIds, aborted, coordVars>>
        BY <1>1 DEF UpdateQuorumSet
    <2>2. aborted' \in BOOLEAN
        BY <2>1 DEF IInv, TypeOK
    <2> QED BY <2>1, <2>2, <1>0, NoneKeeps
<1>2. CASE ~Committed(t)
    <2> DEFINE q == IF quorumSets[t] = None THEN NewQuorumSet(x, rep)
                    ELSE AddToQuorumSet(quorumSets[t], x, rep)
               blocking == Blocking(t, q)
    <2>1. t = running
        BY <1>2 DEF IInv, EarlierCommitted, Committed, TypeOK, ReqId
    <2>2. q \in QuorumSet /\ OneView(q)
        <3>1. TypeOK
            BY DEF IInv
        <3>2. CASE quorumSets[t] = None
            BY <3>1, <3>2, NewQuorumSetOK
        <3>3. CASE quorumSets[t] # None
            <4>1. quorumSets[t] \in QuorumSet /\ OneView(quorumSets[t])
                BY <3>3 DEF IInv, TypeOK, RepliesOfOneView, OneView
            <4> QED BY <3>3, <4>1, AddToQuorumSetOK
        <3> QED BY <3>2, <3>3
    <2>3. \/ AssertFails /\ reconciliations' = others
          \/ \E p \in IF blocking = {} THEN {q} ELSE Blocked(q, Min(blocking)) :
                IF isNonSerializable(p)
                THEN /\ Keep(t, WithoutLower(p))
                     /\ reconciliations' = others \cup ReconciliationRequests(t, p)
                ELSE /\ IF blocking = {} THEN Finish(t, p) ELSE Keep(t, p)
                     /\ reconciliations' = others
        BY <1>2 DEF UpdateQuorumSet
    <2>4. CASE AssertFails /\ reconciliations' = others
        BY <2>4, <1>0, NoneKeeps DEF AssertFails
    <2>5. ASSUME NEW p \in IF blocking = {} THEN {q} ELSE Blocked(q, Min(blocking)),
                 IF isNonSerializable(p)
                 THEN /\ Keep(t, WithoutLower(p))
                      /\ reconciliations' = others \cup ReconciliationRequests(t, p)
                 ELSE /\ IF blocking = {} THEN Finish(t, p) ELSE Keep(t, p)
                      /\ reconciliations' = others
          PROVE  IInv'
        <3>1. p \in QuorumSet /\ OneView(p)
            <4> HIDE DEF q
            <4>1. p = q \/ p = ClearShard(q, Min(blocking))
                BY DEF Blocked
            <4> QED BY <4>1, <2>2, ClearShardOK, FewerOneView
        <3>2. CASE isNonSerializable(p)
            <4>1. WithoutLower(p) \in QuorumSet /\ OneView(WithoutLower(p))
                BY <3>1, WithoutLowerOK, FewerOneView
            <4>2. ~isNonSerializable(WithoutLower(p))
                BY <3>1, <3>2, WithoutLowerSerializable
            <4>3. ReconciliationRequests(t, p) \subseteq Reconciliation
                BY <3>1, <3>2, RequestsOK
            <4>4. \A m \in ReconciliationRequests(t, p) : m.req = t
                BY DEF ReconciliationRequests
            <4>5. Environment
                BY <2>5, <3>2, <4>3, <4>4 DEF Environment, syncVars
            <4> QED BY <2>5, <2>1, <3>2, <4>1, <4>2, <4>5, KeepKeeps
        <3>3. CASE ~isNonSerializable(p) /\ blocking = {}
            <4>1. p = q
                BY <3>3
            <4>2. AllLeaders(p)
                BY <3>3, <4>1, CompleteHasLeaders
            <4> QED BY <2>5, <2>1, <3>1, <3>3, <4>2, <1>0, FinishKeeps
        <3>4. CASE ~isNonSerializable(p) /\ blocking # {}
            BY <2>5, <2>1, <3>1, <3>4, <1>0, KeepKeeps
        <3> QED BY <3>2, <3>3, <3>4
    <2> QED BY <2>3, <2>4, <2>5
<1> QED BY <1>1, <1>2

-----------------------------------------------------------------------------
(* The invariant.                                                          *)

LEMMA InitOK == Init => IInv
<1> SUFFICES ASSUME Init PROVE IInv
    OBVIOUS
<1> USE DEF Init
<1>1. TypeOK
    <2>1. gView \in 0..MaxView /\ running \in Nat \ {0}
        <3>1. gView = 0 /\ running = 1 /\ MaxView \in Nat
            BY FailedAssumption
        <3> HIDE DEF Init
        <3> QED BY <3>1
    <2>5. aborted \in BOOLEAN
        OBVIOUS
    <2>2. /\ sentView \in [Shard -> [Replica -> Nat]]
          /\ currentViews \in [Shard -> [Replica -> Nat]]
          /\ currentSynced \in [Shard -> [Replica -> Nat]]
        OBVIOUS
    <2>3. taken \in [ReqId -> SUBSET Server] /\ quorumSets \in [ReqId -> QuorumSet \cup {None}]
        OBVIOUS
    <2>4. reconciliations = {} /\ committedIds = {}
        OBVIOUS
    <2> HIDE DEF Init
    <2> QED BY <2>1, <2>2, <2>3, <2>4, <2>5 DEF TypeOK
<1>2. OutcomeOK
    BY DEF OutcomeOK
<1>3. EarlierCommitted
    BY DEF EarlierCommitted, ReqId
<1>4. OnlyRunning /\ ReconcilesLaunched /\ LeftSerializable /\ RepliesOfOneView
    BY DEF OnlyRunning, ReconcilesLaunched, LeftSerializable, RepliesOfOneView
<1>5. FinishesRequestInProcess /\ CommittedAtOneDeadline
    BY DEF FinishesRequestInProcess, CommittedAtOneDeadline
<1> QED BY <1>1, <1>2, <1>3, <1>4, <1>5 DEF IInv

(* The reply of a server, in a view it has been in since the launch. *)
LEMMA TakeReplyKeeps ==
    ASSUME IInv, NEW t \in ReqId, NEW x \in Server, TakeReply(t, x)
    PROVE  IInv'
<1>1. x[1] \in Shard /\ x[2] \in Replica
    BY DEF Server
<1>2. PICK v \in sentView[x[1]][x[2]]..gView :
          \E h \in IF x[2] = LeaderIn(v) THEN Deadline ELSE FollowerHash :
             UpdateQuorumSet(t, x, [view |-> v, hash |-> h], reconciliations)
    BY DEF TakeReply
<1>3. PICK h \in IF x[2] = LeaderIn(v) THEN Deadline ELSE FollowerHash :
          UpdateQuorumSet(t, x, [view |-> v, hash |-> h], reconciliations)
    BY <1>2
<1>4. v \in Nat /\ h \in Hash
    BY <1>1 DEF IInv, TypeOK, Hash
<1>5. [view |-> v, hash |-> h] \in Reply
    BY <1>4 DEF Reply
<1>6. taken' \in [ReqId -> SUBSET Server]
    BY DEF IInv, TypeOK, TakeReply
<1>7. reconciliations \in SUBSET Reconciliation /\ \A m \in reconciliations : m.req <= running
    BY DEF IInv, TypeOK, Reconciliation, ReconcilesLaunched
<1>8. t <= running /\ gView' = gView /\ UNCHANGED syncVars
    BY DEF TakeReply
<1> HIDE DEF Hash
<1> QED BY <1>3, <1>5, <1>6, <1>7, <1>8, UpdateKeeps

(* The second reply of a leader, which is not checked for the phase. *)
LEMMA TakeReconciledKeeps ==
    ASSUME IInv, NEW m \in reconciliations, TakeReconciled(m)
    PROVE  IInv'
<1>1. m \in Reconciliation /\ m.req <= running
    BY DEF IInv, TypeOK, Reconciliation, ReconcilesLaunched
<1>2. m.req \in ReqId /\ m.shard \in Shard /\ m.view \in Nat /\ m.ddl \in Hash
    BY <1>1 DEF Reconciliation
<1>3. <<m.shard, LeaderIn(m.view)>> \in Server
    BY <1>2, LeaderIsReplica DEF Server
<1>4. [view |-> m.view, hash |-> m.ddl] \in Reply
    BY <1>2 DEF Reply
<1>5. /\ reconciliations \ {m} \in SUBSET Reconciliation
      /\ \A o \in reconciliations \ {m} : o.req <= running
    BY DEF IInv, TypeOK, Reconciliation, ReconcilesLaunched
<1>6. /\ gView' = gView /\ UNCHANGED syncVars /\ taken' \in [ReqId -> SUBSET Server]
      /\ UpdateQuorumSet(m.req, <<m.shard, LeaderIn(m.view)>>, [view |-> m.view, hash |-> m.ddl],
                         reconciliations \ {m})
    BY DEF TakeReconciled, IInv, TypeOK
<1> QED BY <1>1, <1>2, <1>3, <1>4, <1>5, <1>6, UpdateKeeps

(* CheckQuorum commits what has been left serializable. *)
LEMMA CheckQuorumKeeps ==
    ASSUME IInv, NEW t \in ReqId, CheckQuorum(t)
    PROVE  IInv'
<1> DEFINE q == quorumSets[t]
           blocking == Blocking(t, q)
<1>1. q \in QuorumSet /\ OneView(q) /\ ~isNonSerializable(q) /\ t = running
    BY DEF CheckQuorum, IInv, TypeOK, RepliesOfOneView, OneView, LeftSerializable, OnlyRunning
<1>2. Environment
    BY DEF Environment, CheckQuorum, syncVars, IInv, TypeOK, Reconciliation, ReconcilesLaunched
<1>3. CASE blocking = {}
    <2>1. Finish(t, q)
        BY <1>3 DEF CheckQuorum
    <2>2. AllLeaders(q)
        BY <1>3, CompleteHasLeaders
    <2> QED BY <1>1, <1>2, <2>1, <2>2, FinishKeeps
<1>4. CASE blocking # {} /\ AssertFails
    BY <1>2, <1>4, NoneKeeps DEF AssertFails
<1>5. CASE \E p \in Blocked(q, Min(blocking)) \ {q} : Keep(t, p)
    <2>1. PICK p \in Blocked(q, Min(blocking)) \ {q} : Keep(t, p)
        BY <1>5
    <2>2. p = ClearShard(q, Min(blocking))
        BY DEF Blocked
    <2> HIDE DEF q, blocking
    <2>3. p \in QuorumSet /\ OneView(p) /\ ~isNonSerializable(p)
        BY <1>1, <2>2, ClearShardOK, FewerOneView, FewerSerializable
    <2> QED BY <1>1, <1>2, <2>1, <2>3, KeepKeeps
<1> QED BY <1>3, <1>4, <1>5 DEF CheckQuorum

(* A sync status, a new global view. *)
LEMMA OthersKeep ==
    ASSUME IInv, \/ \E s \in Shard, r \in Replica : Inquiry(s, r)
                 \/ NewGlobalView
    PROVE  IInv'
<1>1. /\ UNCHANGED <<coordVars, daemonVars>> /\ gView' \in 0..MaxView
      /\ currentViews' \in [Shard -> [Replica -> Nat]]
      /\ currentSynced' \in [Shard -> [Replica -> Nat]]
    <2>1. CASE NewGlobalView
        BY <2>1, FailedAssumption DEF NewGlobalView, IInv, TypeOK, syncVars
    <2>2. ASSUME NEW s \in Shard, NEW r \in Replica, Inquiry(s, r)
          PROVE  /\ UNCHANGED <<coordVars, daemonVars>> /\ gView' \in 0..MaxView
                 /\ currentViews' \in [Shard -> [Replica -> Nat]]
                 /\ currentSynced' \in [Shard -> [Replica -> Nat]]
        <3>1. PICK v \in currentViews[s][r]..gView,
                   n \in IF <<s, r>> \in Failed THEN {0} ELSE {0, running} :
                 UpdateSyncStatus(s, r, v, n)
            BY <2>2 DEF Inquiry
        <3>2. v \in Nat /\ n \in Nat
            BY DEF IInv, TypeOK
        <3> QED BY <3>1, <3>2 DEF UpdateSyncStatus, IInv, TypeOK
    <2> QED BY <2>1, <2>2
<1> USE DEF coordVars, daemonVars
<1>2. TypeOK'
    BY <1>1 DEF IInv, TypeOK
<1>3. OutcomeOK' /\ EarlierCommitted' /\ OnlyRunning' /\ ReconcilesLaunched'
    BY <1>1 DEF IInv, OutcomeOK, EarlierCommitted, OnlyRunning, ReconcilesLaunched
<1>4. LeftSerializable'
    BY <1>1, StaysSerializable DEF IInv
<1>5. RepliesOfOneView' /\ FinishesRequestInProcess' /\ CommittedAtOneDeadline'
    BY <1>1 DEF IInv, RepliesOfOneView, Repliers, FinishesRequestInProcess,
                CommittedAtOneDeadline
<1> QED BY <1>2, <1>3, <1>4, <1>5 DEF IInv

LEMMA StepOK == IInv /\ [Next]_vars => IInv'
<1> SUFFICES ASSUME IInv, [Next]_vars PROVE IInv'
    OBVIOUS
<1>1. CASE \E t \in ReqId, x \in Server : TakeReply(t, x)
    BY <1>1, TakeReplyKeeps
<1>2. CASE \E m \in reconciliations : TakeReconciled(m)
    BY <1>2, TakeReconciledKeeps
<1>3. CASE \E t \in ReqId : CheckQuorum(t)
    BY <1>3, CheckQuorumKeeps
<1>4. CASE (\E s \in Shard, r \in Replica : Inquiry(s, r)) \/ NewGlobalView
    BY <1>4, OthersKeep
<1>5. CASE UNCHANGED vars
    <2>1. Environment /\ aborted' \in BOOLEAN /\ UNCHANGED <<quorumSets, committedIds, coordVars>>
        BY <1>5 DEF vars, daemonVars, syncVars, Environment, IInv, TypeOK, Reconciliation,
                    ReconcilesLaunched
    <2> QED BY <2>1, NoneKeeps
<1> QED BY <1>1, <1>2, <1>3, <1>4, <1>5 DEF Next

(* The inductive invariant of the coordinator: the daemon keeps a quorum   *)
(* set only of the request in process, of one view per shard, and never    *)
(* with different deadlines of all the leaders.                            *)
THEOREM CoordinatorInvariant == Spec => []IInv
BY InitOK, StepOK, PTL DEF Spec

(* Every variable always holds values of the types of the program's fields. *)
THEOREM CoordinatorTypeCorrect == Spec => []TypeOK
<1>1. IInv => TypeOK
    BY DEF IInv
<1> QED BY <1>1, CoordinatorInvariant, PTL

(* A request is committed at one deadline, whichever path finishes it. *)
THEOREM CommitsAtOneDeadline == Spec => []CommittedAtOneDeadline
<1>1. IInv => CommittedAtOneDeadline
    BY DEF IInv
<1> QED BY <1>1, CoordinatorInvariant, PTL

(* A late reply does not finish the request that is in process by then. *)
THEOREM FinishesOwnRequest == Spec => []FinishesRequestInProcess
<1>1. IInv => FinishesRequestInProcess
    BY DEF IInv
<1> QED BY <1>1, CoordinatorInvariant, PTL

(* Replies of different views of a shard are never counted together. *)
THEOREM CountsOneView == Spec => []RepliesOfOneView
<1>1. IInv => RepliesOfOneView
    BY DEF IInv
<1> QED BY <1>1, CoordinatorInvariant, PTL
=============================================================================
