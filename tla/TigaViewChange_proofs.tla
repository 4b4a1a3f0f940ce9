------------------------- MODULE TigaViewChange_proofs -------------------------
(***************************************************************************)
(* The view change, for any number of shards and of replicas and any       *)
(* transactions, whatever the view ids hold that nothing is assigned to.   *)
(*                                                                         *)
(* Control: no server is back to STATUS_NORMAL in the new view before the  *)
(* new leader of every shard has rebuilt its log.  Finishing the recovery  *)
(* is guarded by the number of the shards that have been answered; IInv    *)
(* says what a request is evidence of: the leader that sent it has rebuilt *)
(* its log, which it never does twice.                                     *)
(*                                                                         *)
(* Types: what a new leader is sent, and what it sends, is what it expects *)
(* in every state, whatever order the replies come in.  TInv says which    *)
(* requests and replies of the state transfer are still to come (the       *)
(* leader goes on when it has heard from as many replicas as it asked) and *)
(* that no StartView message begins beyond the end of its receiver's log.  *)
(*                                                                         *)
(* Data: what a coordinator has found with a majority of the servers stays *)
(* with one, and a rebuilt log has it if it is as long as it should be.    *)
(* DInv says that until the recovery of a shard is finished, each of its   *)
(* logs is a beginning of the old leader's, and that what StartView lets a *)
(* follower keep has what was confirmed.                                   *)
(***************************************************************************)
EXTENDS TigaViewChange, FiniteSetTheorems, SequenceTheorems, WellFoundedInduction, TLAPS

-----------------------------------------------------------------------------
(* Replicas.                                                               *)

LEMMA Replicas ==
    /\ NewLeader \in Replica /\ 0 \in Replica
    /\ Others \subseteq Replica /\ NewLeader \notin Others
    /\ Replica = Others \cup {NewLeader}
    /\ Replica \subseteq Nat
    /\ IsFiniteSet(Replica) /\ Cardinality(Replica) = ReplicaNum
<1>1. NewLeader \in Replica /\ 0 \in Replica /\ Replica \subseteq Nat
  BY ClusterAssumption DEF NewLeader, Replica
<1>2. IsFiniteSet(Replica) /\ Cardinality(Replica) = ReplicaNum
  <2>1. 0 \in Int /\ ReplicaNum - 1 \in Int /\ ~ (0 > ReplicaNum - 1) /\ ReplicaNum \in Int
    BY ClusterAssumption
  <2>2. IsFiniteSet(0..ReplicaNum - 1) /\ Cardinality(0..ReplicaNum - 1) = ReplicaNum - 1 - 0 + 1
    BY <2>1, FS_Interval
  <2> QED BY <2>1, <2>2 DEF Replica
<1> QED BY <1>1, <1>2 DEF Others

-----------------------------------------------------------------------------
(* Who has rebuilt its log.                                                *)

AllRebuilt == \A o \in Shard : Rebuilt(o)

ControlOK ==
    /\ status \in [Shard -> [Replica -> Status]]
    /\ view \in [Shard -> [Replica -> {0, 1}]]
    /\ verifiedShards \in [Shard -> SUBSET Shard]
    /\ DOMAIN startViews = Shard
    /\ DOMAIN verifyReqs = Shard
    /\ \A s \in Shard : DOMAIN verifyReqs[s] = Shard

(* A new leader is in view 1 when it recovers. *)
RecoversInNewView ==
    \A s \in Shard :
        status[s][NewLeader] \in {"COLLECT_VC", "REBUILD_LOG", "LOG_CONFIRMING"}
            => view[s][NewLeader] = 1

(* A leader asks the others, not itself, when it has rebuilt its log. *)
AsksWhenRebuilt ==
    \A s, o \in Shard : verifyReqs[s][o] # None => o # s /\ Rebuilt(o)

VerifiedAreRebuilt ==
    \A s, o \in Shard : o \in verifiedShards[s] => o # s /\ Rebuilt(o)

StartsWhenAllRebuilt ==
    \A s \in Shard, r \in Replica : startViews[s][r] # None => AllRebuilt

IInv ==
    /\ ControlOK
    /\ RecoversInNewView
    /\ AsksWhenRebuilt
    /\ VerifiedAreRebuilt
    /\ StartsWhenAllRebuilt
    /\ NormalAfterAllRebuilt

(* Shards other than s that are as many as there are shards but one are    *)
(* all the others.                                                         *)
LEMMA AllOthers ==
    ASSUME NEW s \in Shard, NEW S \in SUBSET Shard,
           s \notin S, Cardinality(S) + 1 = ShardNum
    PROVE  S \cup {s} = Shard
<1> USE ClusterAssumption
<1>1. IsFiniteSet(Shard) /\ Cardinality(Shard) = ShardNum
  <2>1. Shard = 0..(ShardNum - 1) BY DEF Shard
  <2>2. IsFiniteSet(Shard) /\ Cardinality(Shard) = (IF 0 > ShardNum - 1 THEN 0 ELSE ShardNum - 1 - 0 + 1)
    BY <2>1, FS_Interval, 0 \in Int, ShardNum - 1 \in Int
  <2> QED BY <2>2
<1>2. IsFiniteSet(S)
  BY <1>1, FS_Subset
<1>3. IsFiniteSet(S \cup {s}) /\ Cardinality(S \cup {s}) = ShardNum
  BY <1>2, FS_AddElement
<1>4. S \cup {s} \subseteq Shard
  OBVIOUS
<1> QED
  BY <1>1, <1>3, <1>4, FS_Subset

(* A log that is rebuilt remains so, whatever step is taken. *)
LEMMA RebuiltStable ==
    ASSUME ControlOK, Next,
           NEW o \in Shard, Rebuilt(o)
    PROVE  Rebuilt(o)'
<1> NewLeader \in Replica BY Replicas
<1> view[o][NewLeader] = 1 /\ status[o][NewLeader] \in {"LOG_CONFIRMING", "NORMAL"}
  BY DEF Rebuilt
<1> SUFFICES view'[o][NewLeader] = 1 /\ status'[o][NewLeader] \in {"LOG_CONFIRMING", "NORMAL"}
  BY DEF Rebuilt
<1> USE DEF ControlOK
<1>1. CASE UNCHANGED <<status, view>>
  BY <1>1
<1>2. CASE Fail
  BY <1>2 DEF Fail, InViewZero, cmVars, serverVars
<1>3. ASSUME NEW s \in Shard, NEW r \in Replica, EnterViewChange(s, r)
      PROVE  view'[o][NewLeader] = 1 /\ status'[o][NewLeader] \in {"LOG_CONFIRMING", "NORMAL"}
  <2>1. ~(s = o /\ r = NewLeader)
    BY <1>3 DEF EnterViewChange, InViewZero
  <2>2. view'[o][NewLeader] = view[o][NewLeader]
    BY <1>3, <2>1 DEF EnterViewChange
  <2>3. status'[o][NewLeader] = status[o][NewLeader]
    BY <1>3, <2>1 DEF EnterViewChange
  <2> QED BY <2>2, <2>3
<1>4. CASE FailingViewChange
  BY <1>4 DEF FailingViewChange
<1>5. ASSUME NEW s \in Shard, CollectLogs(s)
      PROVE  view'[o][NewLeader] = 1 /\ status'[o][NewLeader] \in {"LOG_CONFIRMING", "NORMAL"}
  BY <1>5 DEF CollectLogs
<1>6. ASSUME NEW s \in Shard, RebuildLogs(s)
      PROVE  view'[o][NewLeader] = 1 /\ status'[o][NewLeader] \in {"LOG_CONFIRMING", "NORMAL"}
  BY <1>6 DEF RebuildLogs
<1>7. ASSUME NEW s \in Shard, LeaderFinalize(s)
      PROVE  view'[o][NewLeader] = 1 /\ status'[o][NewLeader] \in {"LOG_CONFIRMING", "NORMAL"}
  BY <1>7 DEF LeaderFinalize
<1>8. ASSUME NEW s \in Shard, NEW r \in Replica, FollowerFinalize(s, r)
      PROVE  view'[o][NewLeader] = 1 /\ status'[o][NewLeader] \in {"LOG_CONFIRMING", "NORMAL"}
  BY <1>8 DEF FollowerFinalize
<1>9. QED
  BY <1>1, <1>2, <1>3, <1>4, <1>5, <1>6, <1>7, <1>8
     DEF Next, LeaderExec, FollowerExec, InterReplicaSync, Commit, Kill, AllCommitted, Prepare,
         NewGView, StateTransfer, AnswerVerifyReq, recoveryVars, serverVars, cmVars

LEMMA ControlStep ==
    ASSUME ControlOK, Next
    PROVE  ControlOK'
<1> NewLeader \in Replica BY Replicas
<1> USE DEF ControlOK, Status
<1>1. CASE UNCHANGED <<status, view, verifiedShards, startViews, verifyReqs>>
  BY <1>1
<1>2. CASE Fail
  BY <1>2 DEF Fail, cmVars, serverVars, verifyVars
<1>3. ASSUME NEW s \in Shard, NEW r \in Replica, EnterViewChange(s, r)
      PROVE  ControlOK'
  <2>1. UNCHANGED <<verifiedShards, startViews, verifyReqs>> /\ view' = [view EXCEPT ![s][r] = 1]
    BY <1>3 DEF EnterViewChange, verifyVars
  <2>2. PICK st \in Status : status' = [status EXCEPT ![s][r] = st]
    BY <1>3 DEF EnterViewChange
  <2> QED BY <2>1, <2>2
<1>4. CASE FailingViewChange
  BY <1>4 DEF FailingViewChange, verifyVars
<1>5. ASSUME NEW s \in Shard, CollectLogs(s)
      PROVE  ControlOK'
  BY <1>5 DEF CollectLogs, verifyVars
<1>6. ASSUME NEW s \in Shard, RebuildLogs(s)
      PROVE  ControlOK'
  <2>1. status' = [status EXCEPT ![s][NewLeader] = "LOG_CONFIRMING"]
    BY <1>6 DEF RebuildLogs
  <2>2. UNCHANGED <<view, verifiedShards, startViews>>
    BY <1>6 DEF RebuildLogs
  <2>3. PICK l : verifyReqs' = [o \in Shard |-> IF o = s THEN verifyReqs[o]
                                   ELSE [verifyReqs[o] EXCEPT ![s] = HighestDeadline(l)]]
    BY <1>6 DEF RebuildLogs
  <2> QED BY <2>1, <2>2, <2>3
<1>7. ASSUME NEW s \in Shard, NEW o \in Shard, AnswerVerifyReq(s, o)
      PROVE  ControlOK'
  BY <1>7 DEF AnswerVerifyReq
<1>8. ASSUME NEW s \in Shard, LeaderFinalize(s)
      PROVE  ControlOK'
  <2>1. status' = [status EXCEPT ![s][NewLeader] = "NORMAL"]
    BY <1>8 DEF LeaderFinalize
  <2>2. UNCHANGED <<view, verifiedShards, verifyReqs>>
    BY <1>8 DEF LeaderFinalize, verifyVars
  <2>3. DOMAIN startViews' = Shard
    BY <1>8 DEF LeaderFinalize
  <2> QED BY <2>1, <2>2, <2>3
<1>9. ASSUME NEW s \in Shard, NEW r \in Replica, FollowerFinalize(s, r)
      PROVE  ControlOK'
  BY <1>9 DEF FollowerFinalize, verifyVars
<1>10. QED
  BY <1>1, <1>2, <1>3, <1>4, <1>5, <1>6, <1>7, <1>8, <1>9
     DEF Next, LeaderExec, FollowerExec, InterReplicaSync, Commit, Kill, AllCommitted, Prepare,
         NewGView, StateTransfer, recoveryVars, serverVars, cmVars, verifyVars

LEMMA InitInv ==
    ASSUME Init
    PROVE  IInv
<1> NewLeader \in Replica BY Replicas
<1>1. ControlOK
  BY DEF Init, ForServers, ControlOK, Status
<1>2. \A s \in Shard, r \in Replica : view[s][r] = 0 /\ status[s][r] = "NORMAL"
  BY DEF Init, ForServers
<1>3. RecoversInNewView /\ NormalAfterAllRebuilt
  BY <1>2 DEF RecoversInNewView, NormalAfterAllRebuilt
<1>4. AsksWhenRebuilt /\ VerifiedAreRebuilt /\ StartsWhenAllRebuilt
  BY DEF Init, ForServers, AsksWhenRebuilt, VerifiedAreRebuilt, StartsWhenAllRebuilt
<1> QED
  BY <1>1, <1>3, <1>4 DEF IInv

(* What each request and each answer is evidence of. *)
LEMMA EvidenceStep ==
    ASSUME IInv, Next
    PROVE  RecoversInNewView' /\ AsksWhenRebuilt' /\ VerifiedAreRebuilt'
<1> NewLeader \in Replica BY Replicas
<1> USE DEF IInv
<1>1. RecoversInNewView'
  <2> SUFFICES ASSUME NEW o \in Shard,
                      status'[o][NewLeader] \in {"COLLECT_VC", "REBUILD_LOG", "LOG_CONFIRMING"}
               PROVE  view'[o][NewLeader] = 1
    BY DEF RecoversInNewView
  <2> USE DEF ControlOK, RecoversInNewView
  <2>1. CASE UNCHANGED <<status, view>>
    BY <2>1
  <2>2. CASE Fail
    BY <2>2 DEF Fail, serverVars
  <2>3. ASSUME NEW s \in Shard, NEW r \in Replica, EnterViewChange(s, r)
        PROVE  view'[o][NewLeader] = 1
    BY <2>3 DEF EnterViewChange
  <2>4. CASE FailingViewChange
    BY <2>4 DEF FailingViewChange
  <2>5. ASSUME NEW s \in Shard, CollectLogs(s)
        PROVE  view'[o][NewLeader] = 1
    BY <2>5 DEF CollectLogs
  <2>6. ASSUME NEW s \in Shard, RebuildLogs(s)
        PROVE  view'[o][NewLeader] = 1
    BY <2>6 DEF RebuildLogs
  <2>7. ASSUME NEW s \in Shard, LeaderFinalize(s)
        PROVE  view'[o][NewLeader] = 1
    BY <2>7 DEF LeaderFinalize
  <2>8. ASSUME NEW s \in Shard, NEW r \in Replica, FollowerFinalize(s, r)
        PROVE  view'[o][NewLeader] = 1
    BY <2>8 DEF FollowerFinalize
  <2>9. QED
    BY <2>1, <2>2, <2>3, <2>4, <2>5, <2>6, <2>7, <2>8
       DEF Next, LeaderExec, FollowerExec, InterReplicaSync, Commit, Kill, AllCommitted, Prepare,
           NewGView, StateTransfer, AnswerVerifyReq, recoveryVars, serverVars, cmVars
<1>2. AsksWhenRebuilt'
  <2> SUFFICES ASSUME NEW s \in Shard, NEW o \in Shard, verifyReqs'[s][o] # None
               PROVE  o # s /\ Rebuilt(o)'
    BY DEF AsksWhenRebuilt
  <2>1. CASE verifyReqs[s][o] # None
    BY <2>1, RebuiltStable DEF AsksWhenRebuilt
  <2>2. CASE verifyReqs[s][o] = None
    <3>1. \E p \in Shard : RebuildLogs(p)
      BY <2>2 DEF Next, LeaderExec, FollowerExec, InterReplicaSync, Commit, Kill, AllCommitted, Fail,
           Prepare, NewGView, EnterViewChange, FailingViewChange, CollectLogs,
           StateTransfer, AnswerVerifyReq, LeaderFinalize, FollowerFinalize, recoveryVars,
           serverVars, cmVars, verifyVars
    <3>2. PICK p \in Shard : RebuildLogs(p)
      BY <3>1
    <3>3. PICK l : verifyReqs' = [q \in Shard |-> IF q = p THEN verifyReqs[q]
                                     ELSE [verifyReqs[q] EXCEPT ![p] = HighestDeadline(l)]]
      BY <3>2 DEF RebuildLogs
    <3>4. o = p /\ o # s
      BY <3>3, <2>2 DEF ControlOK
    <3>5. view[p][NewLeader] = 1
      BY <3>2 DEF RebuildLogs, RecoversInNewView
    <3>6. view'[p][NewLeader] = 1 /\ status'[p][NewLeader] = "LOG_CONFIRMING"
      BY <3>2, <3>5 DEF RebuildLogs, ControlOK
    <3> QED BY <3>4, <3>6 DEF Rebuilt
  <2> QED BY <2>1, <2>2
<1>3. VerifiedAreRebuilt'
  <2> SUFFICES ASSUME NEW s \in Shard, NEW o \in Shard, o \in verifiedShards'[s]
               PROVE  o # s /\ Rebuilt(o)'
    BY DEF VerifiedAreRebuilt
  <2>1. o # s /\ Rebuilt(o)
    <3>1. CASE o \in verifiedShards[s]
      BY <3>1 DEF VerifiedAreRebuilt
    <3>2. CASE o \notin verifiedShards[s]
      <4>1. \E p, q \in Shard : AnswerVerifyReq(p, q)
        BY <3>2 DEF Next, LeaderExec, FollowerExec, InterReplicaSync, Commit, Kill, AllCommitted,
             Fail, Prepare, NewGView, EnterViewChange, FailingViewChange,
             CollectLogs, StateTransfer, RebuildLogs, LeaderFinalize, FollowerFinalize,
             recoveryVars, serverVars, cmVars, verifyVars
      <4>2. PICK p, q \in Shard : AnswerVerifyReq(p, q)
        BY <4>1
      <4>3. s = p /\ o = q /\ verifyReqs[s][o] # None
        BY <4>2, <3>2 DEF AnswerVerifyReq, ControlOK
      <4> QED BY <4>3 DEF AsksWhenRebuilt
    <3> QED BY <3>1, <3>2
  <2> QED BY <2>1, RebuiltStable
<1> QED BY <1>1, <1>2, <1>3

(* Recovery is finished on that evidence. *)
LEMMA FinishStep ==
    ASSUME IInv, Next
    PROVE  StartsWhenAllRebuilt' /\ NormalAfterAllRebuilt'
<1> NewLeader \in Replica BY Replicas
<1> USE DEF IInv
<1>1. ASSUME AllRebuilt PROVE AllRebuilt'
  BY <1>1, RebuiltStable DEF AllRebuilt
<1>2. ASSUME NEW s \in Shard, LeaderFinalize(s) PROVE AllRebuilt
  <2>1. Rebuilt(s)
    BY <1>2 DEF LeaderFinalize, RecoversInNewView, Rebuilt
  <2>2. verifiedShards[s] \cup {s} = Shard
    BY SMTT(30), <1>2, AllOthers DEF LeaderFinalize, AllVerified, ControlOK, VerifiedAreRebuilt
  <2> QED BY <2>1, <2>2 DEF VerifiedAreRebuilt, AllRebuilt
<1>3. StartsWhenAllRebuilt'
  <2> SUFFICES ASSUME NEW s \in Shard, NEW r \in Replica, startViews'[s][r] # None
               PROVE  AllRebuilt'
    BY DEF StartsWhenAllRebuilt
  <2>1. CASE startViews[s][r] # None
    BY <2>1, <1>1 DEF StartsWhenAllRebuilt
  <2>2. CASE startViews[s][r] = None
    <3>1. \E p \in Shard : LeaderFinalize(p)
      BY <2>2 DEF Next, LeaderExec, FollowerExec, InterReplicaSync, Commit, Kill, AllCommitted, Fail,
           Prepare, NewGView, EnterViewChange, FailingViewChange, CollectLogs,
           StateTransfer, RebuildLogs, AnswerVerifyReq, FollowerFinalize, recoveryVars,
           serverVars, cmVars
    <3> QED BY <3>1, <1>2, <1>1
  <2> QED BY <2>1, <2>2
<1>4. NormalAfterAllRebuilt'
  <2> SUFFICES ASSUME NEW s \in Shard, NEW r \in Replica,
                      view'[s][r] = 1, status'[s][r] = "NORMAL"
               PROVE  AllRebuilt'
    BY DEF NormalAfterAllRebuilt, AllRebuilt
  <2>1. CASE view[s][r] = 1 /\ status[s][r] = "NORMAL"
    BY <2>1, <1>1 DEF NormalAfterAllRebuilt, AllRebuilt
  <2>2. CASE ~(view[s][r] = 1 /\ status[s][r] = "NORMAL")
    <3>1. \/ \E p \in Shard : LeaderFinalize(p)
          \/ \E p \in Shard, q \in Replica : FollowerFinalize(p, q)
      <4>1. CASE UNCHANGED <<status, view>>
        BY <4>1, <2>2
      <4>2. CASE Fail
        BY <4>2, <2>2 DEF Fail, serverVars, ControlOK
      <4>3. ASSUME NEW p \in Shard, NEW q \in Replica, EnterViewChange(p, q)
            PROVE  FALSE
        BY <4>3, <2>2 DEF EnterViewChange, ControlOK
      <4>4. CASE FailingViewChange
        BY <4>4, <2>2 DEF FailingViewChange, ControlOK
      <4>5. ASSUME NEW p \in Shard, CollectLogs(p) PROVE FALSE
        BY <4>5, <2>2 DEF CollectLogs, ControlOK
      <4>6. ASSUME NEW p \in Shard, RebuildLogs(p) PROVE FALSE
        BY <4>6, <2>2 DEF RebuildLogs, ControlOK
      <4> QED
        BY <4>1, <4>2, <4>3, <4>4, <4>5, <4>6
           DEF Next, LeaderExec, FollowerExec, InterReplicaSync, Commit, Kill, AllCommitted, Prepare,
             NewGView, StateTransfer, AnswerVerifyReq, recoveryVars, serverVars,
             cmVars
    <3>2. ASSUME NEW p \in Shard, NEW q \in Replica, FollowerFinalize(p, q)
          PROVE  AllRebuilt
      BY <3>2 DEF FollowerFinalize, StartsWhenAllRebuilt
    <3> QED BY <3>1, <3>2, <1>1, <1>2
  <2> QED BY <2>1, <2>2
<1> QED BY <1>3, <1>4

LEMMA ControlAlways == Spec => []IInv
<1>1. Init => IInv
  BY InitInv
<1>2. IInv /\ [Next]_vars => IInv'
  <2> SUFFICES ASSUME IInv, [Next]_vars PROVE IInv'
    OBVIOUS
  <2>1. CASE Next
    BY <2>1, ControlStep, EvidenceStep, FinishStep DEF IInv
  <2>2. CASE UNCHANGED vars
    BY <2>2 DEF vars, verifyVars, IInv, ControlOK, RecoversInNewView, AsksWhenRebuilt,
         VerifiedAreRebuilt, StartsWhenAllRebuilt, NormalAfterAllRebuilt, AllRebuilt, Rebuilt
  <2> QED BY <2>1, <2>2
<1> QED
  BY <1>1, <1>2, PTL DEF Spec

(* NormalAfterAllRebuilt holds in every state that the servers can reach:  *)
(* the count of verifiedShards_ is enough for a leader to know that every  *)
(* other has rebuilt its log, and its StartView tells its followers so.    *)
(* Nothing is supposed of the values of what is never assigned.            *)
THEOREM NormalAfterRebuilt == Spec => []NormalAfterAllRebuilt
<1>1. IInv => NormalAfterAllRebuilt
  BY DEF IInv
<1> QED BY <1>1, ControlAlways, PTL

-----------------------------------------------------------------------------
(* Logs.                                                                   *)

(* l is the beginning of m. *)
Begins(l, m) == Len(l) <= Len(m) /\ \A i \in 1..Len(l) : l[i] = m[i]

(* A set of numbers that is not empty has a least; numbers of the elements *)
(* of a finite set have a greatest.                                        *)
LEMMA Least ==
    ASSUME NEW S \in SUBSET Nat, S # {}
    PROVE  \E x \in S : \A y \in S : x <= y
<1>1. PICK x \in S : \A y \in S : ~ (<<y, x>> \in OpToRel(<, Nat))
  BY NatLessThanWellFounded, WFMin
<1>2. \A y \in S : ~ (y < x)
  BY <1>1 DEF OpToRel
<1> QED BY <1>2

LEMMA Greatest ==
    ASSUME NEW S, IsFiniteSet(S), S # {}, NEW f \in [S -> Nat]
    PROVE  \E x \in S : \A y \in S : f[y] <= f[x]
<1> DEFINE Capped(T) == \E x \in T : \A y \in T : f[y] <= f[x]
           Bad == {T \in SUBSET S : T # {} /\ ~ Capped(T)}
           Sizes == {Cardinality(T) : T \in Bad}
<1>1. \A T \in SUBSET S : IsFiniteSet(T) /\ Cardinality(T) \in Nat
  BY FS_Subset, FS_CardinalityType
<1>2. SUFFICES ASSUME Bad # {} PROVE FALSE
  BY DEF Bad
<1>3. PICK n \in Sizes : \A k \in Sizes : n <= k
  <2>1. Sizes \in SUBSET Nat /\ Sizes # {}
    BY <1>1, <1>2
  <2> QED BY <2>1, Least
<1>4. PICK T \in Bad : n = Cardinality(T)
  BY <1>3
<1>5. PICK m \in T : TRUE
  BY <1>4
<1> DEFINE R == T \ {m}
<1>6. Cardinality(R) = n - 1 /\ n \in Nat
  BY <1>1, <1>4, FS_RemoveElement
<1>7. R \notin Bad
  <2>1. SUFFICES ASSUME R \in Bad PROVE FALSE
    OBVIOUS
  <2>2. n - 1 \in Sizes
    BY <2>1, <1>6
  <2> QED BY <2>2, <1>3, <1>6
<1>8. CASE R = {}
  <2>1. T = {m} /\ f[m] \in Nat
    BY <1>8
  <2>2. Capped(T)
    BY <2>1
  <2> QED BY <2>2
<1>9. CASE R # {}
  <2>1. PICK x \in R : \A y \in R : f[y] <= f[x]
    BY <1>7, <1>9
  <2>2. f[x] \in Nat /\ f[m] \in Nat
    OBVIOUS
  <2>3. CASE f[m] <= f[x]
    <3>1. \A y \in T : f[y] <= f[x]
      BY <2>1, <2>3
    <3> QED BY <3>1
  <2>4. CASE ~ (f[m] <= f[x])
    <3>1. \A y \in T : f[y] <= f[m]
      <4> SUFFICES ASSUME NEW y \in T PROVE f[y] <= f[m]
        OBVIOUS
      <4>1. f[y] \in Nat /\ (y = m \/ f[y] <= f[x])
        BY <2>1
      <4> QED BY <4>1, <2>2, <2>4
    <3> QED BY <3>1
  <2> QED BY <2>3, <2>4
<1> QED BY <1>8, <1>9

(* The elements of a set of transactions can be put in order. *)
InOrder(l, n) == \A i, j \in 1..n : i < j => l[i] < l[j]

LEMMA SortedExists ==
    ASSUME NEW N \in Nat, NEW S \in SUBSET (1..N)
    PROVE  \E l \in [1..Cardinality(S) -> S] : InOrder(l, Cardinality(S))
<1> DEFINE Sorts(T) == \E l \in [1..Cardinality(T) -> T] : InOrder(l, Cardinality(T))
           Bad == {T \in SUBSET S : ~ Sorts(T)}
           Sizes == {Cardinality(T) : T \in Bad}
<1>1. \A T \in SUBSET S : IsFiniteSet(T) /\ Cardinality(T) \in Nat
  <2>1. IsFiniteSet(1..N)
    BY FS_Interval
  <2> QED BY <2>1, FS_Subset, FS_CardinalityType
<1>2. SUFFICES ASSUME Bad # {} PROVE FALSE
  BY DEF Bad
<1>3. PICK n \in Sizes : \A k \in Sizes : n <= k
  <2>1. Sizes \in SUBSET Nat /\ Sizes # {}
    BY <1>1, <1>2
  <2> QED BY <2>1, Least
<1>4. PICK T \in Bad : n = Cardinality(T)
  BY <1>3
<1>5. T # {}
  <2>1. SUFFICES ASSUME T = {} PROVE Sorts(T)
    BY <1>4
  <2>2. Cardinality(T) = 0
    BY <2>1, FS_EmptySet
  <2>3. [i \in 1..0 |-> 0] \in [1..0 -> T] /\ InOrder([i \in 1..0 |-> 0], 0)
    BY DEF InOrder
  <2> QED BY <2>2, <2>3
<1>6. PICK m \in T : \A x \in T : x <= m
  <2> DEFINE f == [x \in T |-> x]
  <2>1. f \in [T -> Nat]
    OBVIOUS
  <2>2. PICK m \in T : \A x \in T : f[x] <= f[m]
    BY <1>1, <1>5, <2>1, Greatest
  <2> QED BY <2>2
<1> DEFINE R == T \ {m}
<1>7. Cardinality(R) = n - 1 /\ n \in Nat \ {0}
  BY <1>1, <1>4, <1>5, FS_RemoveElement, FS_EmptySet
<1>8. Sorts(R)
  <2>1. SUFFICES ASSUME R \in Bad PROVE FALSE
    OBVIOUS
  <2>2. n - 1 \in Sizes
    BY <2>1, <1>7
  <2> QED BY <2>2, <1>3, <1>7
<1>9. PICK l \in [1..n - 1 -> R] : InOrder(l, n - 1)
  BY <1>7, <1>8
<1> DEFINE e == [i \in 1..n |-> IF i = n THEN m ELSE l[i]]
<1>10. e \in [1..n -> T]
  BY <1>7, <1>9
<1>11. InOrder(e, n)
  <2> SUFFICES ASSUME NEW i \in 1..n, NEW j \in 1..n, i < j PROVE e[i] < e[j]
    BY DEF InOrder
  <2>1. i \in 1..n - 1 /\ e[i] = l[i]
    BY <1>7
  <2>2. l[i] \in R
    BY <2>1, <1>9
  <2>3. CASE j = n
    <3>1. l[i] \in T /\ l[i] # m /\ T \subseteq 1..N
      BY <2>2
    <3>2. l[i] <= m
      BY <3>1, <1>6
    <3>3. l[i] \in 1..N /\ m \in 1..N
      BY <3>1
    <3> QED BY <2>1, <2>3, <3>1, <3>2, <3>3
  <2>4. CASE j # n
    <3>1. j \in 1..n - 1 /\ e[j] = l[j]
      BY <2>4, <1>7
    <3> QED BY <2>1, <3>1, <1>9 DEF InOrder
  <2> QED BY <2>3, <2>4
<1>12. Sorts(T)
  BY <1>4, <1>10, <1>11
<1> QED BY <1>4, <1>12

(* LeaderFinalizeRecoveredLogs makes a log of all that it puts together.   *)
LEMMA SortedIs ==
    ASSUME NEW N \in Nat, NEW S \in SUBSET (1..N)
    PROVE  /\ ByDeadline(S) \in Seq(S)
           /\ ToSet(ByDeadline(S)) = S
<1> DEFINE n == Cardinality(S)
           l == ByDeadline(S)
<1>1. IsFiniteSet(S) /\ n \in Nat
  <2>1. IsFiniteSet(1..N)
    BY FS_Interval
  <2> QED BY <2>1, FS_Subset, FS_CardinalityType
<1>2. l \in [1..n -> S] /\ InOrder(l, n)
  BY SortedExists DEF ByDeadline, InOrder
<1> HIDE DEF l
<1>3. l \in Seq(S) /\ Len(l) = n
  BY <1>1, <1>2
<1>4. ASSUME NEW t \in S, \A i \in 1..n : l[i] # t PROVE FALSE
  <2>1. IsFiniteSet(S \ {t}) /\ Cardinality(S \ {t}) = n - 1
    BY <1>1, FS_RemoveElement
  <2>2. IsFiniteSet(1..n) /\ Cardinality(1..n) = n
    BY <1>1, FS_Interval
  <2>3. l \in [1..n -> S \ {t}]
    BY <1>2, <1>4
  <2>4. PICK i \in 1..n, j \in 1..n : i # j /\ l[i] = l[j]
    BY <2>1, <2>2, <2>3, <1>1, FS_PigeonHole
  <2>5. i < j \/ j < i
    BY <1>1, <2>4
  <2>6. l[i] < l[j] \/ l[j] < l[i]
    BY <2>5, <1>2 DEF InOrder
  <2>7. l[i] \in S /\ l[j] \in S
    BY <1>2, <2>4
  <2>8. \A x \in S : ~ (x < x)
    OBVIOUS
  <2> QED BY <2>4, <2>6, <2>7, <2>8
<1>5. ToSet(l) = S
  BY <1>1, <1>2, <1>3, <1>4 DEF ToSet
<1> QED BY <1>3, <1>5 DEF l

LEMMA ToSetIs ==
    ASSUME NEW T, NEW l \in Seq(T)
    PROVE  ToSet(l) = {l[i] : i \in 1..Len(l)}
BY DEF ToSet

(* How the beginnings of logs grow and meet. *)
LEMMA BeginsHas ==
    ASSUME NEW T, NEW l \in Seq(T), NEW m \in Seq(T), Begins(l, m)
    PROVE  ToSet(l) \subseteq ToSet(m)
<1> SUFFICES ASSUME NEW x \in ToSet(l) PROVE x \in ToSet(m)
  OBVIOUS
<1>1. PICK i \in 1..Len(l) : x = l[i]
  BY ToSetIs
<1>2. i \in 1..Len(m) /\ x = m[i]
  BY <1>1 DEF Begins
<1> QED BY <1>2, ToSetIs

LEMMA BeginsAppend ==
    ASSUME NEW T, NEW l \in Seq(T), NEW m \in Seq(T), Begins(l, m), NEW t \in T
    PROVE  Begins(l, Append(m, t))
BY DEF Begins

LEMMA BeginsNext ==
    ASSUME NEW T, NEW l \in Seq(T), NEW m \in Seq(T), Begins(l, m), Len(l) < Len(m)
    PROVE  Begins(Append(l, m[Len(l) + 1]), m)
<1>1. m[Len(l) + 1] \in T
  OBVIOUS
<1> QED BY <1>1 DEF Begins

LEMMA BeginsCompare ==
    ASSUME NEW T, NEW l \in Seq(T), NEW m \in Seq(T), NEW n \in Seq(T),
           Begins(l, n), Begins(m, n), Len(l) <= Len(m)
    PROVE  Begins(l, m)
BY DEF Begins

(* Adding what one log has beyond the other makes it the same. *)
LEMMA AddIs ==
    ASSUME NEW T, NEW l \in Seq(T), NEW m \in Seq(T), Begins(l, m)
    PROVE  l \o SubSeq(m, Len(l) + 1, Len(m)) = m
<1> DEFINE e == SubSeq(m, Len(l) + 1, Len(m))
<1>1. \A i \in Len(l) + 1..Len(m) : m[i] \in T
  OBVIOUS
<1>2. /\ e \in Seq(T)
      /\ Len(e) = Len(m) - Len(l)
      /\ \A i \in 1..Len(m) - Len(l) : e[i] = m[Len(l) + i]
  <2>1. Len(l) + 1 \in Int /\ Len(m) \in Int /\ Len(l) <= Len(m)
    BY DEF Begins
  <2>2. /\ e \in Seq(T)
        /\ Len(e) = (IF Len(l) + 1 <= Len(m) THEN Len(m) - (Len(l) + 1) + 1 ELSE 0)
        /\ \A i \in 1..Len(m) - (Len(l) + 1) + 1 : e[i] = m[Len(l) + 1 + i - 1]
    BY <1>1, <2>1, SubSeqProperties
  <2>3. ASSUME NEW i \in 1..Len(m) - Len(l) PROVE e[i] = m[Len(l) + i]
    <3>1. i \in 1..Len(m) - (Len(l) + 1) + 1 /\ Len(l) + 1 + i - 1 = Len(l) + i
      BY <2>1
    <3> QED BY <2>2, <3>1
  <2> QED BY <2>1, <2>2, <2>3
<1> HIDE DEF e
<1>3. /\ l \o e \in Seq(T) /\ Len(l \o e) = Len(m)
      /\ \A i \in 1..Len(m) : (l \o e)[i] = IF i <= Len(l) THEN l[i] ELSE e[i - Len(l)]
  BY <1>2, ConcatProperties
<1>4. ASSUME NEW i \in 1..Len(m) PROVE (l \o e)[i] = m[i]
  <2>1. CASE i <= Len(l)
    BY <1>3, <2>1 DEF Begins
  <2>2. CASE ~ (i <= Len(l))
    <3>1. i - Len(l) \in 1..Len(m) - Len(l) /\ Len(l) + (i - Len(l)) = i
      BY <2>2
    <3> QED BY <1>2, <1>3, <2>2, <3>1
  <2> QED BY <2>1, <2>2
<1>5. l \o e = m
  BY <1>3, <1>4, SeqEqual
<1> QED BY <1>5 DEF e

-----------------------------------------------------------------------------
(* The servers of a shard, from view 0 to view 1.                          *)

Done(s) == view[s][NewLeader] = 1 /\ status[s][NewLeader] = "NORMAL"

Collected(s) == status[s][NewLeader] \in {"REBUILD_LOG", "LOG_CONFIRMING"} \/ Done(s)

(* What a status says of the server that has it. *)
StatusInv(s) ==
    \A r \in Replica :
        /\ status[s][r] \in {"COLLECT_VC", "REBUILD_LOG", "LOG_CONFIRMING", "WAIT_START_VIEW"}
              => view[s][r] = 1
        /\ status[s][r] \in {"COLLECT_VC", "REBUILD_LOG", "LOG_CONFIRMING"} => r = NewLeader
        /\ status[s][r] = "WAIT_START_VIEW" => r # NewLeader
        /\ status[s][r] = "FAILING" => s = Victim[1] /\ r = Victim[2]

(* The logs are collected from servers of the new view, and none is back   *)
(* to normal in it before its leader is.                                   *)
NewViewInv(s) ==
    /\ Collected(s) => \A r \in Replica : view[s][r] = 1
    /\ \A r \in Replica : view[s][r] = 1 /\ status[s][r] = "NORMAL" => Done(s)
    /\ \A r \in Replica : startViews[s][r] # None => Done(s)

(* A ViewChange message is true of its sender until the recovery is over. *)
MessagesInv(s) ==
    /\ \A r \in Others : viewChanges[s][r] # None =>
           view[s][r] = 1 /\ viewChanges[s][r] = ViewChangeMsg(s, r)
    /\ status[s][NewLeader] \in {"REBUILD_LOG", "LOG_CONFIRMING"} =>
           \A r \in Others : viewChanges[s][r] # None
    /\ Done(s) => \A r \in Others : viewChanges[s][r] = None

-----------------------------------------------------------------------------
(* The servers that are asked.                                             *)

LEMMA Asked ==
    ASSUME NEW s
    PROVE  /\ Involved(s) \subseteq Alive(s) /\ Alive(s) \subseteq Others
           /\ Involved(s) \cup {NewLeader} \subseteq Replica
BY Replicas DEF Involved, Alive

(* The target is one of them that none of them is beyond. *)
LEMMA TargetIs ==
    ASSUME NEW s, \A r \in Involved(s) \cup {NewLeader} : SyncPointOf(s, r) \in Nat
    PROVE  /\ Target(s) \in Involved(s) \cup {NewLeader}
           /\ \A r \in Involved(s) \cup {NewLeader} : SyncPointOf(s, r) <= SyncPointOf(s, Target(s))
<1> DEFINE Q == Involved(s) \cup {NewLeader}
           Before(r, o) ==
              \/ SyncPointOf(s, o) < SyncPointOf(s, r)
              \/ /\ SyncPointOf(s, o) = SyncPointOf(s, r)
                 /\ r = NewLeader \/ (o # NewLeader /\ r < o)
           points == [r \in Q |-> SyncPointOf(s, r)]
<1>1. Q \subseteq Replica /\ IsFiniteSet(Q) /\ Q # {} /\ Q \subseteq Nat
  <2>1. Q \subseteq Replica
    BY Asked
  <2> QED BY <2>1, Replicas, FS_Subset
<1>2. points \in [Q -> Nat]
  OBVIOUS
<1>3. PICK h \in Q : \A o \in Q : points[o] <= points[h]
  <2> HIDE DEF points, Q
  <2> QED BY <1>1, <1>2, Greatest
<1>4. \E r \in Q : \A o \in Q \ {r} : Before(r, o)
  <2> DEFINE H == {r \in Q : SyncPointOf(s, r) = SyncPointOf(s, h)}
  <2>1. ASSUME NEW o \in Q \ H PROVE SyncPointOf(s, o) < SyncPointOf(s, h)
    <3>1. SyncPointOf(s, o) \in Nat /\ SyncPointOf(s, h) \in Nat
      OBVIOUS
    <3>2. points[o] <= points[h] /\ points[o] = SyncPointOf(s, o) /\ points[h] = SyncPointOf(s, h)
      BY <1>3
    <3> QED BY <3>1, <3>2
  <2>2. CASE NewLeader \in H
    <3>1. \A o \in Q \ {NewLeader} : Before(NewLeader, o)
      BY <2>1, <2>2
    <3> QED BY <3>1
  <2>3. CASE NewLeader \notin H
    <3>1. H \in SUBSET Nat /\ h \in H
      BY <1>1
    <3>2. PICK r \in H : \A o \in H : r <= o
      <4> HIDE DEF H
      <4> QED BY <3>1, Least
    <3>3. ASSUME NEW o \in Q \ {r} PROVE Before(r, o)
      <4>1. CASE o \in H
        <5>1. r <= o /\ o # r /\ o \in Nat /\ r \in Nat /\ o # NewLeader
          BY <3>1, <3>2, <4>1, <2>3
        <5>2. SyncPointOf(s, o) = SyncPointOf(s, r)
          BY <4>1
        <5> QED BY <5>1, <5>2
      <4>2. CASE o \notin H
        <5>1. SyncPointOf(s, o) < SyncPointOf(s, r)
          BY <2>1, <4>2
        <5> QED BY <5>1
      <4> QED BY <4>1, <4>2
    <3> QED BY <3>3
  <2> QED BY <2>2, <2>3
<1>5. Target(s) = CHOOSE r \in Q : \A o \in Q \ {r} : Before(r, o)
  BY DEF Target
<1>6. Target(s) \in Q /\ \A o \in Q \ {Target(s)} : Before(Target(s), o)
  <2> HIDE DEF Q, Before
  <2> QED BY <1>4, <1>5
<1>7. ASSUME NEW r \in Q PROVE SyncPointOf(s, r) <= SyncPointOf(s, Target(s))
  <2>1. SyncPointOf(s, r) \in Nat /\ SyncPointOf(s, Target(s)) \in Nat
    BY <1>6
  <2>2. CASE r = Target(s)
    BY <2>1, <2>2
  <2>3. CASE r # Target(s)
    <3>1. Before(Target(s), r)
      BY <1>6, <2>3
    <3> QED BY <2>1, <3>1
  <2> QED BY <2>2, <2>3
<1> QED BY <1>6, <1>7

(* They meet every majority of the servers. *)
LEMMA AskedMeetMajority ==
    ASSUME NEW s, NEW v \in Replica, Others \ Alive(s) \subseteq {v},
           NEW M \in SUBSET Replica, Cardinality(M) >= ReplicaNum \div 2 + 1
    PROVE  \E q \in M : q \in Involved(s) \cup {NewLeader}
<1> DEFINE Q == Involved(s) \cup {NewLeader}
           half == ReplicaNum \div 2
           Below(r) == {o \in Alive(s) : o < r}
<1>1. half \in Nat /\ ReplicaNum \in Nat /\ ReplicaNum < 2 * (half + 1)
  BY ClusterAssumption
<1>2. /\ IsFiniteSet(M) /\ IsFiniteSet(Q) /\ IsFiniteSet(Involved(s)) /\ IsFiniteSet(Alive(s))
      /\ Cardinality(M) \in Nat /\ Cardinality(Q) \in Nat /\ Cardinality(Involved(s)) \in Nat
  <2>1. Alive(s) \in SUBSET Replica /\ Involved(s) \in SUBSET Replica /\ Q \in SUBSET Replica
    BY Asked, Replicas
  <2>2. IsFiniteSet(Alive(s)) /\ IsFiniteSet(Involved(s)) /\ IsFiniteSet(Q) /\ IsFiniteSet(M)
    <3> HIDE DEF Q
    <3> QED BY <2>1, Replicas, FS_Subset
  <2> QED BY <2>2, FS_CardinalityType
<1>3. CASE Involved(s) = Alive(s)
  <2>1. SUFFICES ASSUME M \cap Q = {} PROVE FALSE
    OBVIOUS
  <2>2. M \subseteq {v} \ {NewLeader}
    BY <2>1, <1>3, Replicas
  <2>3. Cardinality(M) <= 1
    <3>1. IsFiniteSet({v}) /\ Cardinality({v}) = 1
      BY FS_Singleton
    <3> QED BY <2>2, <3>1, FS_Subset
  <2>4. ReplicaNum = 1
    BY <1>1, <1>2, <2>3, ClusterAssumption
  <2>5. Replica = {0} /\ NewLeader = 0
    BY <2>4 DEF Replica, NewLeader
  <2>6. M = {}
    BY <2>2, <2>5
  <2> QED BY <2>6, <1>1, FS_EmptySet
<1>4. CASE Involved(s) # Alive(s)
  <2> DEFINE Out == Alive(s) \ Involved(s)
  <2>1. Out \in SUBSET Nat /\ Out # {}
    BY <1>4, Asked, Replicas
  <2>2. PICK r \in Out : \A o \in Out : r <= o
    <3> HIDE DEF Out
    <3> QED BY <2>1, Least
  <2>3. Cardinality(Below(r)) >= half
    <3>1. IsFiniteSet(Below(r)) /\ Cardinality(Below(r)) \in Nat
      <4>1. Below(r) \in SUBSET Alive(s)
        OBVIOUS
      <4> QED BY <4>1, <1>2, FS_Subset, FS_CardinalityType
    <3>2. ~ (Cardinality(Below(r)) < half)
      BY <2>2 DEF Involved
    <3> QED BY <1>1, <3>1, <3>2
  <2>4. Below(r) \in SUBSET Involved(s)
    <3> SUFFICES ASSUME NEW o \in Below(r), o \notin Involved(s) PROVE FALSE
      OBVIOUS
    <3>1. o \in Out /\ o < r /\ o \in Nat /\ r \in Nat
      BY <2>1
    <3> QED BY <3>1, <2>2
  <2>5. Cardinality(Below(r)) <= Cardinality(Involved(s)) /\ Cardinality(Below(r)) \in Nat
    BY <2>4, <1>2, FS_Subset, FS_CardinalityType
  <2>6. Cardinality(Q) = Cardinality(Involved(s)) + 1
    <3>1. NewLeader \notin Involved(s)
      BY Asked, Replicas
    <3> QED BY <3>1, <1>2, FS_AddElement
  <2>7. Cardinality(M) + Cardinality(Q) > Cardinality(Replica)
    <3>1. Cardinality(Q) >= half + 1
      BY <2>3, <2>5, <2>6, <1>1, <1>2
    <3> QED BY <3>1, <1>1, <1>2, Replicas
  <2>8. M \cap Q # {}
    <3>1. Q \subseteq Replica
      BY Asked
    <3> HIDE DEF Q
    <3> QED BY <2>7, <3>1, Replicas, FS_MajoritiesIntersect
  <2> QED BY <2>8
<1> QED BY <1>3, <1>4

(* Whom a leader asks, and which is the target, is in the messages that    *)
(* have come and the length of its log.                                    *)
LEMMA SameAsked ==
    ASSUME NEW s, viewChanges'[s] = viewChanges[s]
    PROVE  /\ Alive(s)' = Alive(s)
           /\ Involved(s)' = Involved(s)
<1> DEFINE A(v) == {r \in Others : ~ v[r].failing}
           I(v) == {r \in {p \in Others : ~ v[p].failing} :
                      Cardinality({o \in {p \in Others : ~ v[p].failing} : o < r}) < ReplicaNum \div 2}
<1>1. Alive(s) = A(viewChanges[s]) /\ Involved(s) = I(viewChanges[s])
  BY Zenon DEF Alive, Involved
<1>2. Alive(s)' = A(viewChanges'[s]) /\ Involved(s)' = I(viewChanges'[s])
  BY Zenon DEF Alive, Involved, Others, NewLeader, Replica
<1> HIDE DEF A, I
<1> QED BY <1>1, <1>2

LEMMA SameTarget ==
    ASSUME NEW s, viewChanges'[s] = viewChanges[s],
           log'[s][NewLeader] = log[s][NewLeader]
    PROVE  Target(s)' = Target(s)
<1> DEFINE P(v, n, r) == IF r = NewLeader THEN n ELSE v[r].syncPoint
           T(I, v, n) ==
              CHOOSE r \in I \cup {NewLeader} :
                  \A o \in (I \cup {NewLeader}) \ {r} :
                      \/ P(v, n, o) < P(v, n, r)
                      \/ /\ P(v, n, o) = P(v, n, r)
                         /\ r = NewLeader \/ (o # NewLeader /\ r < o)
<1>1. Target(s) = T(Involved(s), viewChanges[s], Len(log[s][NewLeader]))
  BY Zenon DEF Target, SyncPointOf
<1>2. Target(s)' = T(Involved(s)', viewChanges'[s], Len(log'[s][NewLeader]))
  BY Zenon DEF Target, SyncPointOf
<1> HIDE DEF T
<1> QED BY <1>1, <1>2, SameAsked

-----------------------------------------------------------------------------
(* What a part of the invariant depends on.                                *)

SameStatus(s) == status'[s] = status[s] /\ view'[s] = view[s]

LEMMA SamePhase ==
    ASSUME NEW s, SameStatus(s)
    PROVE  /\ Done(s)' = Done(s) /\ Collected(s)' = Collected(s) /\ Rebuilt(s)' = Rebuilt(s)
           /\ \A r : InViewZero(s, r)' = InViewZero(s, r)
BY DEF SameStatus, Done, Collected, Rebuilt, InViewZero

LEMMA SameStatusInv ==
    ASSUME NEW s, SameStatus(s), StatusInv(s)
    PROVE  StatusInv(s)'
BY DEF SameStatus, StatusInv

LEMMA SameNewView ==
    ASSUME NEW s, SameStatus(s), startViews'[s] = startViews[s], NewViewInv(s)
    PROVE  NewViewInv(s)'
BY SamePhase DEF SameStatus, NewViewInv

LEMMA SameMessages ==
    ASSUME NEW s, SameStatus(s), log'[s] = log[s], viewChanges'[s] = viewChanges[s], MessagesInv(s)
    PROVE  MessagesInv(s)'
<1>1. \A r : ViewChangeMsg(s, r)' = ViewChangeMsg(s, r)
  BY DEF ViewChangeMsg, SameStatus
<1> QED BY <1>1, SamePhase DEF MessagesInv, SameStatus

LEMMA Types ==
    ASSUME TypeOK, NEW s \in Shard, NEW r \in Replica
    PROVE  /\ log[s][r] \in Seq(Txn) /\ cmdMap[s][r] \in SUBSET Txn
           /\ view[s][r] \in {0, 1} /\ status[s][r] \in Status
           /\ viewChanges[s][r] # None =>
                 /\ viewChanges[s][r].syncPoint \in Nat
                 /\ viewChanges[s][r].failing \in BOOLEAN
           /\ transfers[s][r] # None => transfers[s][r] \in Seq(Txn)
BY DEF TypeOK, ViewChange

LEMMA SeqGrows ==
    ASSUME NEW S, NEW T, S \subseteq T, NEW l \in Seq(S)
    PROVE  l \in Seq(T)
OBVIOUS

LEMMA TxnsAreNumbers == Txn \subseteq Nat /\ \A t \in Txn : t \in Int
BY ClusterAssumption DEF Txn

-----------------------------------------------------------------------------
(* What is sent fits, whatever the values are that nothing is assigned to. *)

(* The highest deadline is one of them, or 0. *)
LEMMA HighestIs ==
    ASSUME NEW l \in Seq(Txn)
    PROVE  HighestDeadline(l) \in Nat
<1> DEFINE D == ToSet(l) \cup {0}
           f == [d \in D |-> d]
<1>1. IsFiniteSet(D) /\ D # {} /\ D \subseteq Nat
  <2>1. ToSet(l) = {l[i] : i \in 1..Len(l)}
    BY ToSetIs
  <2>2. ToSet(l) \subseteq Txn
    BY <2>1
  <2>3. IsFiniteSet(Txn)
    BY ClusterAssumption, FS_Interval DEF Txn
  <2>4. IsFiniteSet(ToSet(l))
    BY <2>2, <2>3, FS_Subset
  <2>5. IsFiniteSet(ToSet(l) \cup {0})
    BY <2>4, FS_AddElement
  <2>6. ToSet(l) \subseteq Nat
    BY <2>2, TxnsAreNumbers
  <2> QED BY <2>5, <2>6
<1>2. f \in [D -> Nat]
  BY <1>1
<1>3. PICK h \in D : \A d \in D : f[d] <= f[h]
  <2> HIDE DEF D, f
  <2> QED BY <1>1, <1>2, Greatest
<1>4. \A d \in D : d <= h
  BY <1>3
<1>5. HighestDeadline(l) \in D
  BY <1>4 DEF HighestDeadline
<1> QED BY <1>1, <1>5

Heard(s) == {r \in Replica : transfers[s][r] # None}

(* Each server that is asked is heard once at most, so that a leader that  *)
(* has heard as many as it has asked is not waiting for any.               *)
AskedInv(s) ==
    /\ status[s][NewLeader] # "REBUILD_LOG" => asked[s] = {}
    /\ ~ Collected(s) => Heard(s) = {}
    /\ status[s][NewLeader] = "REBUILD_LOG" =>
           /\ asked[s] \subseteq Involved(s)
           /\ Cardinality(Heard(s)) + Cardinality(asked[s]) <= Cardinality(Involved(s))

(* The assertion of FollowerFinalizeRecoveredLogs: what is sent does not   *)
(* begin beyond the log of the follower.                                   *)
FitsInv(s) ==
    \A r \in Replica :
        startViews[s][r] # None /\ status[s][r] = "WAIT_START_VIEW" =>
            startViews[s][r].logBegin - 1 <= Len(log[s][r])

ServerInv(s) == StatusInv(s) /\ NewViewInv(s) /\ MessagesInv(s) /\ AskedInv(s) /\ FitsInv(s)

TInv == TypeOK /\ \A s \in Shard : ServerInv(s)

(* Nothing changes but the logs of servers that are still in view 0.       *)
LEMMA ServerFrame ==
    ASSUME NEW s, ServerInv(s), SameStatus(s),
           viewChanges'[s] = viewChanges[s], asked'[s] = asked[s],
           transfers'[s] = transfers[s], startViews'[s] = startViews[s],
           \A r \in Replica : view[s][r] = 1 => log'[s][r] = log[s][r]
    PROVE  ServerInv(s)'
<1> USE DEF ServerInv
<1>1. StatusInv(s)' /\ NewViewInv(s)'
  BY SameStatusInv, SameNewView
<1>2. MessagesInv(s)'
  <2>1. ASSUME NEW r \in Others, viewChanges'[s][r] # None
        PROVE  view'[s][r] = 1 /\ viewChanges'[s][r] = ViewChangeMsg(s, r)'
    <3>1. view[s][r] = 1 /\ viewChanges[s][r] = ViewChangeMsg(s, r)
      BY <2>1 DEF MessagesInv
    <3>2. log'[s][r] = log[s][r]
      BY <3>1, Replicas
    <3> QED BY <3>1, <3>2 DEF ViewChangeMsg, SameStatus
  <2> QED BY <2>1, SamePhase DEF MessagesInv, SameStatus
<1>3. AskedInv(s)'
  <2>1. Heard(s)' = Heard(s)
    BY DEF Heard
  <2> QED BY <2>1, SameAsked, SamePhase DEF AskedInv, SameStatus
<1>4. FitsInv(s)'
  <2>1. \A r \in Replica : status[s][r] = "WAIT_START_VIEW" => log'[s][r] = log[s][r]
    BY DEF StatusInv
  <2> QED BY <2>1 DEF FitsInv, SameStatus
<1> QED BY <1>1, <1>2, <1>3, <1>4

(* A server of view 0 fails or enters view 1. *)
LEMMA ServerBefore ==
    ASSUME NEW s \in Shard, ServerInv(s), ~ Collected(s), ~ Collected(s)',
           \A q \in Replica : view'[s][q] = 1 /\ status'[s][q] = "NORMAL" =>
               view[s][q] = 1 /\ status[s][q] = "NORMAL",
           asked'[s] = asked[s], transfers'[s] = transfers[s], startViews'[s] = startViews[s]
    PROVE  NewViewInv(s)' /\ AskedInv(s)' /\ FitsInv(s)'
<1> USE DEF ServerInv
<1>1. /\ ~ Done(s) /\ ~ Done(s)'
      /\ status[s][NewLeader] # "REBUILD_LOG" /\ status'[s][NewLeader] # "REBUILD_LOG"
  BY DEF Collected, Done
<1>2. \A q \in Replica : startViews'[s][q] = None
  BY <1>1 DEF NewViewInv
<1>3. \A q \in Replica : ~ (view'[s][q] = 1 /\ status'[s][q] = "NORMAL")
  BY <1>1 DEF NewViewInv
<1>4. NewViewInv(s)' /\ FitsInv(s)'
  BY <1>2, <1>3 DEF NewViewInv, FitsInv
<1>5. Heard(s)' = Heard(s)
  BY DEF Heard
<1> QED BY <1>1, <1>4, <1>5 DEF AskedInv

LEMMA ServerFails ==
    ASSUME TypeOK, Fail, NEW p \in Shard, ServerInv(p)
    PROVE  ServerInv(p)'
<1> DEFINE s == Victim[1]
           r == Victim[2]
<1>1. UNCHANGED serverVars /\ InViewZero(s, r)
      /\ status' = [status EXCEPT ![s][r] = "FAILING"] /\ r \in Replica
  BY Replicas DEF Fail, Victim
<1> HIDE DEF s, r
<1>2. CASE p # s
  <2>1. status'[p] = status[p]
    BY <1>1, <1>2 DEF TypeOK
  <2> QED BY <1>1, <2>1, ServerFrame DEF serverVars, transferVars, SameStatus
<1>3. CASE p = s
  <2> USE DEF ServerInv
  <2>1. /\ status'[s][r] = "FAILING"
        /\ \A q \in Replica : q # r => status'[s][q] = status[s][q]
        /\ view[s][r] = 0 /\ status[s][r] = "NORMAL"
        /\ \A q \in Replica : view'[s][q] = view[s][q]
    BY <1>1, <1>3 DEF TypeOK, InViewZero, serverVars
  <2>2. ~ Collected(s)
    BY <1>1, <1>3, <2>1 DEF NewViewInv
  <2>3. ~ Collected(s)'
    BY <2>1, <2>2, Replicas DEF Collected, Done
  <2>4. NewViewInv(s)' /\ AskedInv(s)' /\ FitsInv(s)'
    <3>1. \A q \in Replica : view'[s][q] = 1 /\ status'[s][q] = "NORMAL" =>
               view[s][q] = 1 /\ status[s][q] = "NORMAL"
      BY <2>1
    <3> QED BY <1>1, <1>3, <2>2, <2>3, <3>1, ServerBefore DEF serverVars, transferVars
  <2>5. StatusInv(s)'
    BY <1>1, <1>3, <2>1 DEF StatusInv, s, r
  <2>6. MessagesInv(s)'
    <3>1. ASSUME NEW q \in Others, viewChanges'[s][q] # None
          PROVE  view'[s][q] = 1 /\ viewChanges'[s][q] = ViewChangeMsg(s, q)'
      <4>1. view[s][q] = 1 /\ viewChanges[s][q] = ViewChangeMsg(s, q)
        BY <1>1, <1>3, <3>1 DEF MessagesInv, serverVars
      <4>2. q \in Replica /\ q # r
        BY <2>1, <4>1, Replicas
      <4> QED BY <1>1, <2>1, <4>1, <4>2 DEF ViewChangeMsg, serverVars
    <3> QED BY <2>3, <3>1 DEF MessagesInv, Collected
  <2> QED BY <1>3, <2>4, <2>5, <2>6
<1> QED BY <1>2, <1>3

LEMMA ServerEnters ==
    ASSUME TypeOK, NEW s \in Shard, NEW r \in Replica, EnterViewChange(s, r),
           NEW p \in Shard, ServerInv(p)
    PROVE  ServerInv(p)'
<1>1. /\ UNCHANGED <<log, cmdMap, commitVars, cmVars, transferVars, verifyVars, startViews>>
      /\ InViewZero(s, r)
      /\ view' = [view EXCEPT ![s][r] = 1]
  BY DEF EnterViewChange
<1>2. \/ /\ r = NewLeader
         /\ status' = [status EXCEPT ![s][r] = "COLLECT_VC"]
         /\ viewChanges' = viewChanges
      \/ /\ r # NewLeader
         /\ status' = [status EXCEPT ![s][r] = "WAIT_START_VIEW"]
         /\ viewChanges' = [viewChanges EXCEPT ![s][r] = ViewChangeMsg(s, r)]
  BY DEF EnterViewChange
<1>3. CASE p # s
  <2>1. status'[p] = status[p] /\ view'[p] = view[p] /\ viewChanges'[p] = viewChanges[p]
    BY <1>1, <1>2, <1>3 DEF TypeOK
  <2> QED BY <1>1, <2>1, ServerFrame DEF transferVars, SameStatus
<1>4. CASE p = s
  <2> USE DEF ServerInv
  <2>1. /\ view[s][r] = 0 /\ status[s][r] = "NORMAL"
        /\ view'[s][r] = 1 /\ \A q \in Replica : q # r => view'[s][q] = view[s][q]
        /\ status'[s][r] = (IF r = NewLeader THEN "COLLECT_VC" ELSE "WAIT_START_VIEW")
        /\ \A q \in Replica : q # r => status'[s][q] = status[s][q]
    BY <1>1, <1>2 DEF TypeOK, InViewZero
  <2>2. /\ r # NewLeader => viewChanges'[s][r] = ViewChangeMsg(s, r)
        /\ \A q \in Replica : q # r => viewChanges'[s][q] = viewChanges[s][q]
    BY <1>2 DEF TypeOK
  <2>3. ~ Collected(s)
    BY <1>4, <2>1 DEF NewViewInv
  <2>4. ~ Collected(s)'
    BY <2>1, <2>3, Replicas DEF Collected, Done
  <2>5. NewViewInv(s)' /\ AskedInv(s)' /\ FitsInv(s)'
    <3>1. \A q \in Replica : view'[s][q] = 1 /\ status'[s][q] = "NORMAL" =>
               view[s][q] = 1 /\ status[s][q] = "NORMAL"
      BY <2>1
    <3> QED BY <1>1, <1>4, <2>3, <2>4, <3>1, ServerBefore DEF transferVars
  <2>6. StatusInv(s)'
    BY <1>4, <2>1 DEF StatusInv
  <2>7. MessagesInv(s)'
    <3>1. ASSUME NEW q \in Others, viewChanges'[s][q] # None
          PROVE  view'[s][q] = 1 /\ viewChanges'[s][q] = ViewChangeMsg(s, q)'
      <4>1. q \in Replica /\ q # NewLeader
        BY Replicas
      <4>2. CASE q = r
        BY <1>1, <2>1, <2>2, <4>1, <4>2 DEF ViewChangeMsg
      <4>3. CASE q # r
        <5>1. view[s][q] = 1 /\ viewChanges[s][q] = ViewChangeMsg(s, q)
          BY <1>4, <2>2, <3>1, <4>1, <4>3 DEF MessagesInv
        <5> QED BY <1>1, <2>1, <2>2, <4>1, <4>3, <5>1 DEF ViewChangeMsg
      <4> QED BY <4>2, <4>3
    <3> QED BY <2>4, <3>1 DEF MessagesInv, Collected
  <2> QED BY <1>4, <2>5, <2>6, <2>7
<1> QED BY <1>3, <1>4

LEMMA FailedServerEnters ==
    ASSUME TypeOK, FailingViewChange, NEW p \in Shard, ServerInv(p)
    PROVE  ServerInv(p)'
<1> DEFINE s == Victim[1]
           r == Victim[2]
<1>1. /\ UNCHANGED <<log, cmdMap, unsynced, commitVars, cmVars, status, transferVars, verifyVars,
                     startViews>>
      /\ status[s][r] = "FAILING" /\ view[s][r] = 0
      /\ view' = [view EXCEPT ![s][r] = 1]
      /\ viewChanges' = [viewChanges EXCEPT ![s][r] = ViewChangeMsg(s, r)]
      /\ r \in Replica
  BY Replicas DEF FailingViewChange, Victim
<1> HIDE DEF s, r
<1>2. CASE p # s
  <2>1. view'[p] = view[p] /\ viewChanges'[p] = viewChanges[p]
    BY <1>1, <1>2 DEF TypeOK
  <2> QED BY <1>1, <2>1, ServerFrame DEF transferVars, SameStatus
<1>3. CASE p = s
  <2> USE DEF ServerInv
  <2>1. /\ view'[s][r] = 1 /\ \A q \in Replica : q # r => view'[s][q] = view[s][q]
        /\ viewChanges'[s][r] = ViewChangeMsg(s, r)
        /\ \A q \in Replica : q # r => viewChanges'[s][q] = viewChanges[s][q]
        /\ status' = status
    BY <1>1, <1>3 DEF TypeOK
  <2>2. ~ Collected(s)
    BY <1>1, <1>3 DEF NewViewInv
  <2>3. ~ Collected(s)'
    BY <1>1, <2>1, <2>2, Replicas DEF Collected, Done
  <2>4. NewViewInv(s)' /\ AskedInv(s)' /\ FitsInv(s)'
    <3>1. \A q \in Replica : view'[s][q] = 1 /\ status'[s][q] = "NORMAL" =>
               view[s][q] = 1 /\ status[s][q] = "NORMAL"
      BY <1>1, <2>1
    <3> QED BY <1>1, <1>3, <2>2, <2>3, <3>1, ServerBefore DEF transferVars
  <2>5. StatusInv(s)'
    BY <1>1, <1>3, <2>1 DEF StatusInv
  <2>6. MessagesInv(s)'
    <3>1. ASSUME NEW q \in Others, viewChanges'[s][q] # None
          PROVE  view'[s][q] = 1 /\ viewChanges'[s][q] = ViewChangeMsg(s, q)'
      <4>1. q \in Replica
        BY Replicas
      <4>2. ViewChangeMsg(s, q)' = ViewChangeMsg(s, q)
        BY <1>1, <2>1 DEF ViewChangeMsg
      <4>3. CASE q = r
        BY <2>1, <4>2, <4>3
      <4>4. CASE q # r
        <5>1. view[s][q] = 1 /\ viewChanges[s][q] = ViewChangeMsg(s, q)
          BY <1>3, <2>1, <3>1, <4>1, <4>4 DEF MessagesInv
        <5> QED BY <2>1, <4>1, <4>2, <4>4, <5>1
      <4> QED BY <4>3, <4>4
    <3> QED BY <2>3, <3>1 DEF MessagesInv, Collected
  <2> QED BY <1>3, <2>4, <2>5, <2>6
<1> QED BY <1>2, <1>3

LEMMA ServerCollects ==
    ASSUME TypeOK, NEW s \in Shard, CollectLogs(s), NEW p \in Shard, ServerInv(p)
    PROVE  ServerInv(p)'
<1>1. /\ UNCHANGED <<log, cmdMap, unsynced, commitVars, cmVars, view, viewChanges, transfers,
                     verifyVars, startViews>>
      /\ status[s][NewLeader] = "COLLECT_VC"
      /\ \A r \in Others : viewChanges[s][r] # None
      /\ asked' = [asked EXCEPT ![s] = Involved(s)]
      /\ status' = [status EXCEPT ![s][NewLeader] = "REBUILD_LOG"]
  BY DEF CollectLogs
<1>2. CASE p # s
  <2>1. asked'[p] = asked[p] /\ status'[p] = status[p]
    BY <1>1, <1>2 DEF TypeOK
  <2> QED BY <1>1, <2>1, ServerFrame DEF SameStatus
<1>3. CASE p = s
  <2> USE DEF ServerInv
  <2>1. /\ asked'[s] = Involved(s)
        /\ status'[s][NewLeader] = "REBUILD_LOG"
        /\ \A r \in Replica : r # NewLeader => status'[s][r] = status[s][r]
    BY <1>1, Replicas DEF TypeOK
  <2>2. ~ Collected(s) /\ ~ Done(s) /\ ~ Done(s)'
    BY <1>1, <2>1 DEF Collected, Done
  <2>3. \A r \in Replica : view'[s][r] = 1
    <3>1. view[s][NewLeader] = 1
      BY <1>1, <1>3, Replicas DEF StatusInv
    <3>2. \A r \in Others : view[s][r] = 1
      BY <1>1, <1>3 DEF MessagesInv
    <3> QED BY <1>1, <3>1, <3>2, Replicas
  <2>4. /\ \A r \in Replica : startViews'[s][r] = None
        /\ \A r \in Replica : ~ (view'[s][r] = 1 /\ status'[s][r] = "NORMAL")
    BY <1>1, <1>3, <2>1, <2>2 DEF NewViewInv
  <2>5. StatusInv(s)'
    BY <1>1, <1>3, <2>1, <2>3 DEF StatusInv
  <2>6. NewViewInv(s)' /\ FitsInv(s)'
    BY <2>2, <2>3, <2>4 DEF NewViewInv, FitsInv
  <2>7. MessagesInv(s)'
    <3>1. ASSUME NEW q \in Others
          PROVE  view'[s][q] = 1 /\ viewChanges'[s][q] = ViewChangeMsg(s, q)'
      <4>1. viewChanges[s][q] = ViewChangeMsg(s, q)
        BY <1>1, <1>3 DEF MessagesInv
      <4>2. q \in Replica /\ q # NewLeader
        BY Replicas
      <4> QED BY <1>1, <2>1, <2>3, <4>1, <4>2 DEF ViewChangeMsg
    <3> QED BY <1>1, <2>2, <3>1 DEF MessagesInv
  <2>8. AskedInv(s)'
    <3>1. Involved(s)' = Involved(s)
      BY <1>1, SameAsked
    <3>2. Heard(s)' = {}
      BY <1>1, <1>3, <2>2 DEF AskedInv, Heard
    <3>3. IsFiniteSet(Involved(s)) /\ Cardinality(Involved(s)) \in Nat
      BY Asked, Replicas, FS_Subset, FS_CardinalityType
    <3>4. Cardinality(Heard(s)') = 0
      BY <3>2, FS_EmptySet
    <3>5. Collected(s)'
      BY <2>1 DEF Collected
    <3> QED BY <2>1, <3>1, <3>3, <3>4, <3>5 DEF AskedInv
  <2> QED BY <1>3, <2>5, <2>6, <2>7, <2>8
<1> QED BY <1>2, <1>3

(* While the logs are put together, the sync points are those of the logs. *)
LEMMA SyncPoints ==
    ASSUME TypeOK, NEW s \in Shard, NewViewInv(s), MessagesInv(s),
           status[s][NewLeader] \in {"REBUILD_LOG", "LOG_CONFIRMING"}
    PROVE  /\ \A r \in Replica : SyncPointOf(s, r) = Len(log[s][r]) /\ Len(log[s][r]) \in Nat
           /\ \A r \in Replica : view[s][r] = 1
           /\ \A r \in Others : viewChanges[s][r] = ViewChangeMsg(s, r)
           /\ Target(s) \in Involved(s) \cup {NewLeader} /\ Target(s) \in Replica
<1>1. \A r \in Others : viewChanges[s][r] = ViewChangeMsg(s, r)
  BY DEF MessagesInv
<1>2. \A r \in Replica : view[s][r] = 1
  BY DEF NewViewInv, Collected
<1>3. \A r \in Replica : Len(log[s][r]) \in Nat
  BY Types
<1>4. \A r \in Replica : SyncPointOf(s, r) = Len(log[s][r])
  <2> SUFFICES ASSUME NEW r \in Replica PROVE SyncPointOf(s, r) = Len(log[s][r])
    OBVIOUS
  <2>1. CASE r = NewLeader
    BY <2>1 DEF SyncPointOf
  <2>2. CASE r # NewLeader
    <3>1. viewChanges[s][r] = ViewChangeMsg(s, r)
      BY <1>1, <2>2, Replicas
    <3> QED BY <2>2, <3>1 DEF SyncPointOf, ViewChangeMsg
  <2> QED BY <2>1, <2>2
<1>5. Target(s) \in Involved(s) \cup {NewLeader} /\ Target(s) \in Replica
  <2>1. Involved(s) \cup {NewLeader} \subseteq Replica
    BY Asked
  <2>2. Target(s) \in Involved(s) \cup {NewLeader}
    BY <1>3, <1>4, <2>1, TargetIs
  <2> QED BY <2>1, <2>2
<1> QED BY <1>1, <1>2, <1>3, <1>4, <1>5

(* What comes of a reply, in whosever name, is a part of a log or nothing. *)
LEMMA ServerReplies ==
    ASSUME TypeOK, NEW s \in Shard, NEW r \in Replica, StateTransfer(s, r),
           ServerInv(s), NEW p \in Shard, ServerInv(p)
    PROVE  /\ ServerInv(p)'
           /\ transfers' \in [Shard -> [Replica -> {None} \cup Seq(Txn)]]
<1> USE DEF ServerInv
<1>1. /\ UNCHANGED <<log, cmdMap, unsynced, commitVars, cmVars, status, view, viewChanges,
                     verifyVars, startViews>>
      /\ asked' = [asked EXCEPT ![s] = @ \ {r}] /\ r \in asked[s]
  BY DEF StateTransfer
<1>2. status[s][NewLeader] = "REBUILD_LOG" /\ r \in Involved(s)
  BY <1>1 DEF AskedInv
<1>3. SyncPointOf(s, r) = Len(log[s][r])
  BY <1>2, SyncPoints
<1> DEFINE e == SubSeq(log[s][r], Len(log[s][NewLeader]) + 1, SyncPointOf(s, r))
<1>4. e \in Seq(Txn)
  <2>1. log[s][r] \in Seq(Txn) /\ log[s][NewLeader] \in Seq(Txn)
    BY Types, Replicas
  <2>2. Len(log[s][r]) \in Int /\ Len(log[s][NewLeader]) + 1 \in Int
        /\ \A i \in Len(log[s][NewLeader]) + 1..Len(log[s][r]) : log[s][r][i] \in Txn
    BY <2>1
  <2>3. SubSeq(log[s][r], Len(log[s][NewLeader]) + 1, Len(log[s][r])) \in Seq(Txn)
    BY <2>2, SubSeqProperties
  <2> QED BY <1>3, <2>3
<1> HIDE DEF e
<1>5. PICK key \in Replica, new \in {None} \cup Seq(Txn) :
         transfers' = [transfers EXCEPT ![s][key] = new]
  <2>1. PICK reqView \in Indeterminate, repView \in Indeterminate :
          \E key \in IF reqView = view[s][r] THEN {r} ELSE Replica :
             transfers' = [transfers EXCEPT ![s][key] =
                IF (reqView = view[s][r] => repView = view[s][NewLeader]) /\ @ = None
                THEN IF reqView = view[s][r] /\ r = Target(s) THEN e ELSE <<>>
                ELSE @]
    BY DEF StateTransfer, e
  <2>2. PICK key \in Replica :
             transfers' = [transfers EXCEPT ![s][key] =
                IF (reqView = view[s][r] => repView = view[s][NewLeader]) /\ transfers[s][key] = None
                THEN IF reqView = view[s][r] /\ r = Target(s) THEN e ELSE <<>>
                ELSE transfers[s][key]]
    BY <2>1
  <2>3. transfers[s][key] \in {None} \cup Seq(Txn) /\ <<>> \in Seq(Txn)
    BY DEF TypeOK
  <2> QED BY <1>4, <2>2, <2>3
<1>6. transfers' \in [Shard -> [Replica -> {None} \cup Seq(Txn)]]
  BY <1>5 DEF TypeOK
<1>7. CASE p # s
  <2>1. asked'[p] = asked[p] /\ transfers'[p] = transfers[p]
    BY <1>1, <1>5, <1>7 DEF TypeOK
  <2> QED BY <1>1, <1>6, <2>1, ServerFrame DEF SameStatus
<1>8. CASE p = s
  <2>1. /\ asked'[s] = asked[s] \ {r}
        /\ \A q \in Replica : q # key => transfers'[s][q] = transfers[s][q]
    BY <1>1, <1>5 DEF TypeOK
  <2>2. StatusInv(s)' /\ NewViewInv(s)' /\ MessagesInv(s)'
    BY <1>1, SameStatusInv, SameNewView, SameMessages DEF SameStatus
  <2>3. FitsInv(s)'
    BY <1>1 DEF FitsInv
  <2>4. AskedInv(s)'
    <3>1. /\ Heard(s) \in SUBSET Replica /\ Heard(s)' \in SUBSET Replica
          /\ asked[s] \in SUBSET Replica /\ Involved(s) \in SUBSET Replica
      BY Asked DEF Heard, TypeOK
    <3>2. /\ IsFiniteSet(Heard(s)) /\ IsFiniteSet(Heard(s)') /\ IsFiniteSet(asked[s])
          /\ IsFiniteSet(Involved(s))
      BY <3>1, Replicas, FS_Subset
    <3>3. /\ Cardinality(Heard(s)) \in Nat /\ Cardinality(Heard(s)') \in Nat
          /\ Cardinality(asked[s]) \in Nat /\ Cardinality(Involved(s)) \in Nat
      BY <3>2, FS_CardinalityType
    <3>4. Cardinality(asked[s] \ {r}) = Cardinality(asked[s]) - 1
      BY <1>1, <3>2, FS_RemoveElement
    <3>5. Cardinality(Heard(s)') <= Cardinality(Heard(s)) + 1
      <4>1. Heard(s)' \subseteq Heard(s) \cup {key}
        BY <2>1 DEF Heard
      <4>2. /\ IsFiniteSet(Heard(s) \cup {key})
            /\ Cardinality(Heard(s) \cup {key}) <= Cardinality(Heard(s)) + 1
            /\ Cardinality(Heard(s) \cup {key}) \in Nat
        <5>1. /\ IsFiniteSet(Heard(s) \cup {key})
              /\ Cardinality(Heard(s) \cup {key}) \in {Cardinality(Heard(s)), Cardinality(Heard(s)) + 1}
          BY <3>2, FS_AddElement
        <5> QED BY <3>3, <5>1
      <4>3. Cardinality(Heard(s)') <= Cardinality(Heard(s) \cup {key})
        BY <4>1, <4>2, FS_Subset
      <4> QED BY <3>3, <4>2, <4>3
    <3>6. Involved(s)' = Involved(s)
      BY <1>1, SameAsked
    <3>7. /\ asked'[s] \subseteq Involved(s)
          /\ Cardinality(Heard(s)) + Cardinality(asked[s]) <= Cardinality(Involved(s))
      BY <1>2, <2>1 DEF AskedInv
    <3>8. Cardinality(Heard(s)') + Cardinality(asked'[s]) <= Cardinality(Involved(s)')
      BY <2>1, <3>3, <3>4, <3>5, <3>6, <3>7
    <3>9. status'[s][NewLeader] = "REBUILD_LOG" /\ Collected(s)'
      BY <1>1, <1>2 DEF Collected
    <3> QED BY <3>6, <3>7, <3>8, <3>9 DEF AskedInv
  <2> QED BY <1>6, <1>8, <2>2, <2>3, <2>4
<1> QED BY <1>7, <1>8

(* A log that is rebuilt consists of transactions; nobody is asked then.   *)
LEMMA ServerRebuilds ==
    ASSUME TypeOK, NEW s \in Shard, RebuildLogs(s), ServerInv(s), NEW p \in Shard, ServerInv(p)
    PROVE  /\ ServerInv(p)'
           /\ \E reply \in Seq(Txn), rebuilt \in Seq(Txn) :
                 /\ log' = [log EXCEPT ![s][NewLeader] = rebuilt]
                 /\ cmdMap' = [cmdMap EXCEPT ![s][NewLeader] = @ \cup ToSet(reply)]
                 /\ verifyReqs' = [o \in Shard |-> IF o = s THEN verifyReqs[o]
                        ELSE [verifyReqs[o] EXCEPT ![s] = HighestDeadline(rebuilt)]]
<1> USE DEF ServerInv
<1> DEFINE reply == IF Target(s) = NewLeader \/ transfers[s][Target(s)] = None
                    THEN <<>> ELSE transfers[s][Target(s)]
           rebuilt == log[s][NewLeader] \o reply
<1>1. /\ UNCHANGED <<unsynced, commitVars, cmVars, view, viewChanges, transferVars, verifyReps,
                     verifiedShards, startViews>>
      /\ status[s][NewLeader] = "REBUILD_LOG"
      /\ status' = [status EXCEPT ![s][NewLeader] = "LOG_CONFIRMING"]
      /\ Cardinality({r \in Replica : transfers[s][r] # None}) = Cardinality(Involved(s))
      /\ log' = [log EXCEPT ![s][NewLeader] = rebuilt]
      /\ cmdMap' = [cmdMap EXCEPT ![s][NewLeader] = @ \cup ToSet(reply)]
      /\ verifyReqs' = [o \in Shard |-> IF o = s THEN verifyReqs[o]
              ELSE [verifyReqs[o] EXCEPT ![s] = HighestDeadline(rebuilt)]]
  BY DEF RebuildLogs
<1>2. reply \in Seq(Txn) /\ rebuilt \in Seq(Txn)
  <2>1. Target(s) \in Replica
    BY <1>1, SyncPoints
  <2>2. reply \in Seq(Txn)
    BY <2>1, Types
  <2>3. log[s][NewLeader] \in Seq(Txn)
    BY Types, Replicas
  <2> HIDE DEF reply
  <2> QED BY <2>2, <2>3
<1> HIDE DEF reply, rebuilt
<1>3. asked[s] = {}
  <2>1. asked[s] \in SUBSET Replica /\ Heard(s) \in SUBSET Replica /\ Involved(s) \in SUBSET Replica
    BY Asked DEF TypeOK, Heard
  <2>2. IsFiniteSet(asked[s]) /\ IsFiniteSet(Heard(s)) /\ IsFiniteSet(Involved(s))
    BY <2>1, Replicas, FS_Subset
  <2>3. /\ Cardinality(asked[s]) \in Nat /\ Cardinality(Heard(s)) \in Nat
        /\ Cardinality(Involved(s)) \in Nat
    BY <2>2, FS_CardinalityType
  <2>4. Cardinality(Heard(s)) + Cardinality(asked[s]) <= Cardinality(Involved(s))
    BY <1>1 DEF AskedInv
  <2>5. Cardinality(Heard(s)) = Cardinality(Involved(s))
    BY <1>1 DEF Heard
  <2>6. Cardinality(asked[s]) = 0
    BY <2>3, <2>4, <2>5
  <2> QED BY <2>2, <2>6, FS_EmptySet
<1>4. ServerInv(p)'
  <2>1. CASE p # s
    <3>1. log'[p] = log[p] /\ status'[p] = status[p]
      BY <1>1, <2>1 DEF TypeOK
    <3> QED BY <1>1, <3>1, ServerFrame DEF transferVars, SameStatus
  <2>2. CASE p = s
    <3>1. /\ status'[s][NewLeader] = "LOG_CONFIRMING"
          /\ \A r \in Replica : r # NewLeader => status'[s][r] = status[s][r]
          /\ \A r \in Replica : r # NewLeader => log'[s][r] = log[s][r]
      BY <1>1, Replicas DEF TypeOK
    <3>2. ~ Done(s) /\ Collected(s) /\ ~ Done(s)' /\ Collected(s)'
      BY <1>1, <3>1 DEF Done, Collected
    <3>3. \A r \in Replica : view'[s][r] = 1
      BY <1>1, <3>2 DEF NewViewInv
    <3>4. /\ \A r \in Replica : startViews'[s][r] = None
          /\ \A r \in Replica : ~ (view'[s][r] = 1 /\ status'[s][r] = "NORMAL")
      BY <1>1, <3>1, <3>2 DEF NewViewInv
    <3>5. StatusInv(s)'
      BY <1>1, <3>1, <3>3 DEF StatusInv
    <3>6. NewViewInv(s)' /\ FitsInv(s)'
      BY <3>3, <3>4 DEF NewViewInv, FitsInv
    <3>7. MessagesInv(s)'
      <4>1. ASSUME NEW q \in Others
            PROVE  viewChanges'[s][q] # None /\ viewChanges'[s][q] = ViewChangeMsg(s, q)'
        <5>1. viewChanges[s][q] # None /\ viewChanges[s][q] = ViewChangeMsg(s, q)
          BY <1>1 DEF MessagesInv
        <5>2. q \in Replica /\ q # NewLeader
          BY Replicas
        <5> QED BY <1>1, <3>1, <5>1, <5>2 DEF ViewChangeMsg
      <4> QED BY <3>2, <3>3, <4>1, Replicas DEF MessagesInv
    <3>8. AskedInv(s)'
      BY <1>1, <1>3, <3>1, <3>2 DEF AskedInv, transferVars
    <3> QED BY <2>2, <3>5, <3>6, <3>7, <3>8
  <2> QED BY <2>1, <2>2
<1> QED BY <1>1, <1>2, <1>4

(* What a leader makes of the answers is sorted and has what its log had.  *)
LEMMA FinalizedIs ==
    ASSUME TypeOK, NEW s \in Shard, LeaderFinalize(s)
    PROVE  \E S \in SUBSET Txn, known \in SUBSET Txn :
              /\ ToSet(log[s][NewLeader]) \subseteq S
              /\ cmdMap' = [cmdMap EXCEPT ![s][NewLeader] = known]
              /\ log' = [log EXCEPT ![s][NewLeader] = ByDeadline(S)]
              /\ startViews' = [startViews EXCEPT ![s] = [r \in Replica |->
                    IF r = NewLeader \/ r \notin Alive(s) THEN None
                    ELSE StartViewMsg(s, r, ByDeadline(S))]]
<1> DEFINE Known(R) == cmdMap[s][NewLeader] \cup R
           All(C, R) == ToSet(log[s][NewLeader])
                           \cup ((UNION {verifyReps[s][o] : o \in C}) \cap Known(R))
<1>1. PICK C \in SUBSET {o \in Shard : verifyReps[s][o] # None}, R \in SUBSET Txn :
         /\ cmdMap' = [cmdMap EXCEPT ![s][NewLeader] = Known(R)]
         /\ log' = [log EXCEPT ![s][NewLeader] = ByDeadline(All(C, R))]
         /\ startViews' = [startViews EXCEPT ![s] = [r \in Replica |->
               IF r = NewLeader \/ r \notin Alive(s) THEN None
               ELSE StartViewMsg(s, r, ByDeadline(All(C, R)))]]
  BY Zenon DEF LeaderFinalize
<1>2. cmdMap[s][NewLeader] \in SUBSET Txn /\ ToSet(log[s][NewLeader]) \in SUBSET Txn
  BY Types, Replicas, ToSetIs
<1>3. Known(R) \in SUBSET Txn /\ All(C, R) \in SUBSET Txn
  BY <1>2
<1>4. ToSet(log[s][NewLeader]) \subseteq All(C, R)
  OBVIOUS
<1> HIDE DEF Known, All
<1> QED BY <1>1, <1>3, <1>4

LEMMA SortedTxns ==
    ASSUME NEW S \in SUBSET Txn
    PROVE  ByDeadline(S) \in Seq(Txn) /\ ToSet(ByDeadline(S)) = S
<1>1. S \in SUBSET (1..Len(Targets)) /\ Len(Targets) \in Nat
  BY ClusterAssumption DEF Txn
<1>2. ByDeadline(S) \in Seq(S) /\ ToSet(ByDeadline(S)) = S
  BY <1>1, SortedIs
<1> QED BY <1>2, SeqGrows

(* What a leader makes of the answers, and sends, consists of transactions *)
(* and does not begin beyond the log of the follower.                      *)
LEMMA ServerFinalizes ==
    ASSUME TypeOK, NEW s \in Shard, LeaderFinalize(s), ServerInv(s), NEW p \in Shard, ServerInv(p)
    PROVE  /\ ServerInv(p)'
           /\ log' \in [Shard -> [Replica -> Seq(Txn)]]
           /\ cmdMap' \in [Shard -> [Replica -> SUBSET Txn]]
           /\ startViews' \in [Shard -> [Replica -> {None} \cup StartView]]
<1> USE DEF ServerInv
<1>1. /\ UNCHANGED <<unsynced, commitVars, cmVars, view, transferVars, verifyVars>>
      /\ status[s][NewLeader] = "LOG_CONFIRMING"
      /\ status' = [status EXCEPT ![s][NewLeader] = "NORMAL"]
      /\ viewChanges' = [viewChanges EXCEPT ![s] = [r \in Replica |-> None]]
  BY DEF LeaderFinalize
<1>2. PICK S \in SUBSET Txn, known \in SUBSET Txn :
         /\ cmdMap' = [cmdMap EXCEPT ![s][NewLeader] = known]
         /\ log' = [log EXCEPT ![s][NewLeader] = ByDeadline(S)]
         /\ startViews' = [startViews EXCEPT ![s] = [r \in Replica |->
               IF r = NewLeader \/ r \notin Alive(s) THEN None ELSE StartViewMsg(s, r, ByDeadline(S))]]
  BY FinalizedIs
<1> DEFINE l == ByDeadline(S)
<1>3. l \in Seq(Txn)
  BY SortedTxns
<1> HIDE DEF l
<1>4. ASSUME NEW r \in Others
      PROVE  /\ StartViewMsg(s, r, l) \in StartView
             /\ StartViewMsg(s, r, l).logBegin - 1 <= Len(log[s][r])
  <2>1. r \in Replica /\ Len(log[s][r]) \in Nat
    BY Replicas, Types
  <2>2. viewChanges[s][r].syncPoint = Len(log[s][r])
    <3>1. viewChanges[s][r] = ViewChangeMsg(s, r)
      BY <1>1, SyncPoints
    <3> QED BY <3>1 DEF ViewChangeMsg
  <2>3. SyncPointOf(s, Target(s)) \in Nat
    BY <1>1, SyncPoints
  <2>4. PICK k \in Nat : k = IF Len(log[s][r]) < SyncPointOf(s, Target(s))
                             THEN Len(log[s][r]) ELSE SyncPointOf(s, Target(s))
    BY <2>1, <2>3
  <2>5. StartViewMsg(s, r, l) = [logBegin |-> k + 1, txns |-> SubSeq(l, k + 1, Len(l))]
    BY <2>2, <2>4 DEF StartViewMsg
  <2>6. SubSeq(l, k + 1, Len(l)) \in Seq(Txn)
    <3>1. k + 1 \in Int /\ Len(l) \in Int /\ \A i \in k + 1..Len(l) : l[i] \in Txn
      BY <1>3
    <3> QED BY <3>1, SubSeqProperties
  <2>7. k <= Len(log[s][r])
    BY <2>1, <2>3, <2>4
  <2> QED BY <2>1, <2>5, <2>6, <2>7 DEF StartView
<1>5. startViews' = [startViews EXCEPT ![s] = [r \in Replica |->
               IF r = NewLeader \/ r \notin Alive(s) THEN None ELSE StartViewMsg(s, r, l)]]
  BY <1>2 DEF l
<1>6. /\ log' \in [Shard -> [Replica -> Seq(Txn)]]
      /\ cmdMap' \in [Shard -> [Replica -> SUBSET Txn]]
  BY <1>2, <1>3 DEF TypeOK, l
<1>7. startViews' \in [Shard -> [Replica -> {None} \cup StartView]]
  <2>1. [r \in Replica |-> IF r = NewLeader \/ r \notin Alive(s) THEN None ELSE StartViewMsg(s, r, l)]
            \in [Replica -> {None} \cup StartView]
    BY <1>4, Asked
  <2> QED BY <1>5, <2>1 DEF TypeOK
<1>8. ServerInv(p)'
  <2>1. CASE p # s
    <3>1. /\ log'[p] = log[p] /\ status'[p] = status[p]
          /\ viewChanges'[p] = viewChanges[p] /\ startViews'[p] = startViews[p]
      BY <1>1, <1>2, <2>1 DEF TypeOK
    <3> QED BY <1>1, <3>1, ServerFrame DEF transferVars, SameStatus
  <2>2. CASE p = s
    <3>1. /\ status'[s][NewLeader] = "NORMAL"
          /\ \A r \in Replica : r # NewLeader => status'[s][r] = status[s][r]
          /\ \A r \in Replica : r # NewLeader => log'[s][r] = log[s][r]
          /\ \A r \in Replica : viewChanges'[s][r] = None
          /\ \A r \in Replica : startViews'[s][r] # None =>
                r # NewLeader /\ startViews'[s][r] = StartViewMsg(s, r, l)
      <4>1. /\ status'[s][NewLeader] = "NORMAL"
            /\ \A r \in Replica : r # NewLeader => status'[s][r] = status[s][r]
        BY <1>1, Replicas DEF TypeOK
      <4>2. \A r \in Replica : r # NewLeader => log'[s][r] = log[s][r]
        BY <1>2 DEF TypeOK
      <4>3. \A r \in Replica : viewChanges'[s][r] = None
        BY <1>1 DEF TypeOK
      <4>4. \A r \in Replica : startViews'[s][r] =
               IF r = NewLeader \/ r \notin Alive(s) THEN None ELSE StartViewMsg(s, r, l)
        BY <1>5 DEF TypeOK
      <4> QED BY <4>1, <4>2, <4>3, <4>4
    <3>2. Collected(s) /\ ~ Done(s)
      BY <1>1 DEF Collected, Done
    <3>3. \A r \in Replica : view'[s][r] = 1
      BY <1>1, <3>2 DEF NewViewInv
    <3>4. Done(s)' /\ Collected(s)'
      BY <3>1, <3>3, Replicas DEF Done, Collected
    <3>5. StatusInv(s)' /\ NewViewInv(s)'
      BY <1>1, <3>1, <3>3, <3>4 DEF StatusInv, NewViewInv
    <3>6. MessagesInv(s)'
      BY <3>1, Replicas DEF MessagesInv
    <3>7. AskedInv(s)'
      BY <1>1, <3>1, <3>4 DEF AskedInv, transferVars
    <3>8. FitsInv(s)'
      <4> SUFFICES ASSUME NEW r \in Replica, startViews'[s][r] # None
                   PROVE  startViews'[s][r].logBegin - 1 <= Len(log'[s][r])
        BY DEF FitsInv
      <4>1. r \in Others /\ r # NewLeader /\ startViews'[s][r] = StartViewMsg(s, r, l)
        BY <3>1, Replicas
      <4> QED BY <1>4, <3>1, <4>1
    <3> QED BY <2>2, <3>5, <3>6, <3>7, <3>8
  <2> QED BY <2>1, <2>2
<1> QED BY <1>6, <1>7, <1>8

(* A follower keeps a part of its log that is there. *)
LEMMA FollowerFinalizes ==
    ASSUME TypeOK, NEW s \in Shard, NEW r \in Replica, FollowerFinalize(s, r), ServerInv(s),
           NEW p \in Shard, ServerInv(p)
    PROVE  /\ ServerInv(p)'
           /\ log' \in [Shard -> [Replica -> Seq(Txn)]]
           /\ cmdMap' \in [Shard -> [Replica -> SUBSET Txn]]
<1> USE DEF ServerInv
<1> DEFINE m == startViews[s][r]
           kept == SubSeq(log[s][r], 1, m.logBegin - 1)
<1>1. /\ UNCHANGED <<unsynced, commitVars, cmVars, view, viewChanges, transferVars, verifyVars,
                     startViews>>
      /\ status[s][r] = "WAIT_START_VIEW" /\ m # None
      /\ status' = [status EXCEPT ![s][r] = "NORMAL"]
      /\ cmdMap' = [cmdMap EXCEPT ![s][r] = @ \cup ToSet(m.txns)]
      /\ log' = [log EXCEPT ![s][r] = kept \o m.txns]
  BY DEF FollowerFinalize
<1>2. m \in StartView /\ m.logBegin \in Nat /\ m.txns \in Seq(Txn)
  BY <1>1 DEF TypeOK, StartView
<1>3. kept \in Seq(Txn)
  <2>1. log[s][r] \in Seq(Txn) /\ m.logBegin - 1 <= Len(log[s][r])
    BY <1>1, Types DEF FitsInv
  <2> HIDE DEF m
  <2>2. 1 \in Int /\ m.logBegin - 1 \in Int /\ \A i \in 1..m.logBegin - 1 : log[s][r][i] \in Txn
    BY <1>2, <2>1
  <2> QED BY <2>2, SubSeqProperties
<1> HIDE DEF m, kept
<1>4. log' \in [Shard -> [Replica -> Seq(Txn)]]
  <2>1. kept \o m.txns \in Seq(Txn)
    BY <1>2, <1>3
  <2> QED BY <1>1, <2>1 DEF TypeOK
<1>5. cmdMap' \in [Shard -> [Replica -> SUBSET Txn]]
  <2>1. ToSet(m.txns) \in SUBSET Txn
    BY <1>2, ToSetIs
  <2> QED BY <1>1, <2>1 DEF TypeOK
<1>6. r # NewLeader /\ Done(s)
  BY <1>1 DEF StatusInv, NewViewInv, m
<1>7. ServerInv(p)'
  <2>1. CASE p # s
    <3>1. log'[p] = log[p] /\ status'[p] = status[p]
      BY <1>1, <2>1 DEF TypeOK
    <3> QED BY <1>1, <3>1, ServerFrame DEF transferVars, SameStatus
  <2>2. CASE p = s
    <3>1. /\ status'[s][r] = "NORMAL"
          /\ \A q \in Replica : q # r => status'[s][q] = status[s][q]
          /\ \A q \in Replica : q # r => log'[s][q] = log[s][q]
          /\ status'[s][NewLeader] = "NORMAL"
      BY <1>1, <1>6, Replicas DEF TypeOK, Done
    <3>2. \A q \in Replica : view'[s][q] = 1
      BY <1>1, <1>6 DEF NewViewInv, Collected
    <3>3. Done(s)' /\ Collected(s)'
      BY <3>1, <3>2, Replicas DEF Done, Collected
    <3>4. StatusInv(s)' /\ NewViewInv(s)'
      BY <1>1, <3>1, <3>2, <3>3 DEF StatusInv, NewViewInv
    <3>5. MessagesInv(s)'
      BY <1>1, <1>6, <3>1 DEF MessagesInv
    <3>6. AskedInv(s)'
      BY <1>1, <1>6, <3>1, <3>3 DEF AskedInv, transferVars, Done
    <3>7. FitsInv(s)'
      BY <1>1, <3>1 DEF FitsInv
    <3> QED BY <2>2, <3>4, <3>5, <3>6, <3>7
  <2> QED BY <2>1, <2>2
<1> QED BY <1>4, <1>5, <1>7

-----------------------------------------------------------------------------
(* Types.                                                                  *)

(* What the steps of view 0 and of the configuration manager do not change. *)
LEMMA TypesOfNormal ==
    ASSUME TypeOK,
           \/ \E s \in Shard, t \in Txn : LeaderExec(s, t)
           \/ \E s \in Shard, r \in Replica, t \in Txn : FollowerExec(s, r, t)
           \/ \E s \in Shard, r \in Replica : InterReplicaSync(s, r)
           \/ \E t \in Txn : Commit(t)
    PROVE  TypeOK'
<1>1. ASSUME NEW s \in Shard, NEW t \in Txn, LeaderExec(s, t) PROVE TypeOK'
  <2>1. UNCHANGED <<unsynced, commitVars, recoveryVars>>
    BY <1>1 DEF LeaderExec
  <2>2. cmdMap' \in [Shard -> [Replica -> SUBSET Txn]]
    <3>1. cmdMap[s][0] \cup {t} \in SUBSET Txn
      BY Types, Replicas
    <3> QED BY <1>1, <3>1 DEF LeaderExec, TypeOK
  <2>3. log' \in [Shard -> [Replica -> Seq(Txn)]]
    <3>1. Append(log[s][0], t) \in Seq(Txn)
      BY Types, Replicas
    <3> QED BY <1>1, <3>1 DEF LeaderExec, TypeOK
  <2> QED BY <2>1, <2>2, <2>3 DEF TypeOK, commitVars, recoveryVars, cmVars, transferVars, verifyVars
<1>2. ASSUME NEW s \in Shard, NEW r \in Replica, NEW t \in Txn, FollowerExec(s, r, t) PROVE TypeOK'
  <2>1. UNCHANGED <<log, commitVars, recoveryVars>>
    BY <1>2 DEF FollowerExec
  <2>2. /\ cmdMap' \in [Shard -> [Replica -> SUBSET Txn]]
        /\ unsynced' \in [Shard -> [Replica -> SUBSET Txn]]
    BY <1>2 DEF FollowerExec, TypeOK
  <2> QED BY <2>1, <2>2 DEF TypeOK, commitVars, recoveryVars, cmVars, transferVars, verifyVars
<1>3. ASSUME NEW s \in Shard, NEW r \in Replica, InterReplicaSync(s, r) PROVE TypeOK'
  <2> DEFINE t == log[s][0][Len(log[s][r]) + 1]
  <2>1. UNCHANGED <<cmdMap, unsynced, commitVars, recoveryVars>>
        /\ log' = [log EXCEPT ![s][r] = Append(@, t)] /\ Len(log[s][r]) < Len(log[s][0])
    BY <1>3 DEF InterReplicaSync
  <2>2. log[s][0] \in Seq(Txn) /\ log[s][r] \in Seq(Txn)
    BY Types, Replicas
  <2>3. Append(log[s][r], t) \in Seq(Txn)
    <3>1. t \in Txn
      BY <2>1, <2>2
    <3> QED BY <2>2, <3>1
  <2>4. log' \in [Shard -> [Replica -> Seq(Txn)]]
    BY <2>1, <2>3 DEF TypeOK
  <2> QED BY <2>1, <2>4 DEF TypeOK, commitVars, recoveryVars, cmVars, transferVars, verifyVars
<1>4. ASSUME NEW t \in Txn, Commit(t) PROVE TypeOK'
  <2>1. UNCHANGED <<log, cmdMap, unsynced, recoveryVars>> /\ committed' = committed \cup {t}
    BY <1>4 DEF Commit
  <2>2. confirmed' \in [Shard -> SUBSET Txn]
    BY <1>4 DEF Commit, TypeOK
  <2> QED BY <2>1, <2>2 DEF TypeOK, recoveryVars, cmVars, transferVars, verifyVars
<1> QED BY <1>1, <1>2, <1>3, <1>4

LEMMA TypesOfManager ==
    ASSUME TypeOK,
           Kill \/ AllCommitted \/ Fail \/ Prepare \/ NewGView
    PROVE  TypeOK'
<1>1. UNCHANGED serverVars
  BY DEF Kill, AllCommitted, Fail, Prepare, NewGView
<1>2. cmStatus' \in CMStatus /\ allCommitted' \in BOOLEAN
  BY DEF Kill, AllCommitted, Fail, Prepare, NewGView, CMStatus, TypeOK, cmVars
<1>3. status' \in [Shard -> [Replica -> Status]]
  <2>1. CASE status' = status
    BY <2>1 DEF TypeOK
  <2>2. CASE Fail
    <3>1. "FAILING" \in Status
      BY DEF Status
    <3> QED BY <2>2, <3>1 DEF Fail, TypeOK
  <2> QED BY <2>1, <2>2 DEF Kill, AllCommitted, Prepare, NewGView
<1> QED BY <1>1, <1>2, <1>3 DEF TypeOK, serverVars, commitVars, transferVars, verifyVars

LEMMA MessageType ==
    ASSUME TypeOK, NEW s \in Shard, NEW r \in Replica
    PROVE  ViewChangeMsg(s, r) \in ViewChange
<1>1. Len(log[s][r]) \in Nat
  BY Types
<1> QED BY <1>1 DEF ViewChangeMsg, ViewChange

LEMMA TypesOfEntering ==
    ASSUME TypeOK,
           \/ \E s \in Shard, r \in Replica : EnterViewChange(s, r)
           \/ FailingViewChange
           \/ \E s \in Shard : CollectLogs(s)
    PROVE  TypeOK'
<1>1. ASSUME NEW s \in Shard, NEW r \in Replica, EnterViewChange(s, r) PROVE TypeOK'
  <2>1. /\ UNCHANGED <<log, cmdMap, commitVars, cmVars, transferVars, verifyVars, startViews>>
        /\ view' = [view EXCEPT ![s][r] = 1]
        /\ unsynced' = [unsynced EXCEPT ![s][r] = {}]
    BY <1>1 DEF EnterViewChange
  <2>2. PICK st \in Status : status' = [status EXCEPT ![s][r] = st]
    BY <1>1 DEF EnterViewChange, Status
  <2>3. \/ viewChanges' = viewChanges
        \/ viewChanges' = [viewChanges EXCEPT ![s][r] = ViewChangeMsg(s, r)]
    BY <1>1 DEF EnterViewChange
  <2>4. viewChanges' \in [Shard -> [Replica -> {None} \cup ViewChange]]
    <3>1. ViewChangeMsg(s, r) \in ViewChange
      BY MessageType
    <3>2. CASE viewChanges' = viewChanges
      BY <3>2 DEF TypeOK
    <3>3. CASE viewChanges' = [viewChanges EXCEPT ![s][r] = ViewChangeMsg(s, r)]
      BY <3>1, <3>3 DEF TypeOK
    <3> QED BY <2>3, <3>2, <3>3
  <2>5. /\ view' \in [Shard -> [Replica -> {0, 1}]]
        /\ unsynced' \in [Shard -> [Replica -> SUBSET Txn]]
        /\ status' \in [Shard -> [Replica -> Status]]
    BY <2>1, <2>2 DEF TypeOK
  <2> QED BY <2>1, <2>4, <2>5 DEF TypeOK, commitVars, cmVars, transferVars, verifyVars
<1>2. ASSUME FailingViewChange PROVE TypeOK'
  <2> DEFINE s == Victim[1]
             r == Victim[2]
  <2>1. /\ UNCHANGED <<log, cmdMap, unsynced, commitVars, cmVars, status, transferVars,
                       verifyVars, startViews>>
        /\ view' = [view EXCEPT ![s][r] = 1]
        /\ viewChanges' = [viewChanges EXCEPT ![s][r] = ViewChangeMsg(s, r)]
        /\ r \in Replica
    BY <1>2, Replicas DEF FailingViewChange, Victim
  <2> HIDE DEF s, r
  <2>2. view' \in [Shard -> [Replica -> {0, 1}]]
    BY <2>1 DEF TypeOK
  <2>3. viewChanges' \in [Shard -> [Replica -> {None} \cup ViewChange]]
    <3>1. CASE s \in Shard
      <4>1. ViewChangeMsg(s, r) \in ViewChange
        BY <2>1, <3>1, MessageType
      <4> QED BY <2>1, <4>1 DEF TypeOK
    <3>2. CASE s \notin Shard
      BY <2>1, <3>2 DEF TypeOK
    <3> QED BY <3>1, <3>2
  <2> QED BY <2>1, <2>2, <2>3 DEF TypeOK, commitVars, cmVars, transferVars, verifyVars
<1>3. ASSUME NEW s \in Shard, CollectLogs(s) PROVE TypeOK'
  <2>1. Involved(s) \in SUBSET Replica /\ "REBUILD_LOG" \in Status
    BY Asked DEF Status
  <2>2. /\ asked' \in [Shard -> SUBSET Replica]
        /\ status' \in [Shard -> [Replica -> Status]]
    BY <1>3, <2>1 DEF CollectLogs, TypeOK
  <2> QED BY <1>3, <2>2 DEF CollectLogs, TypeOK, commitVars, cmVars, verifyVars
<1> QED BY <1>1, <1>2, <1>3

LEMMA TypesOfRecovery ==
    ASSUME TInv,
           \/ \E s \in Shard : RebuildLogs(s) \/ LeaderFinalize(s)
           \/ \E s \in Shard, r \in Replica : StateTransfer(s, r) \/ FollowerFinalize(s, r)
           \/ \E s, o \in Shard : AnswerVerifyReq(s, o)
    PROVE  TypeOK'
<1> USE DEF TInv
<1>1. ASSUME NEW s \in Shard, NEW r \in Replica, StateTransfer(s, r) PROVE TypeOK'
  <2>1. /\ UNCHANGED <<log, cmdMap, unsynced, commitVars, cmVars, status, view, viewChanges,
                       verifyVars, startViews>>
        /\ asked' = [asked EXCEPT ![s] = @ \ {r}]
    BY <1>1 DEF StateTransfer
  <2>2. transfers' \in [Shard -> [Replica -> {None} \cup Seq(Txn)]]
    BY <1>1, ServerReplies
  <2>3. asked' \in [Shard -> SUBSET Replica]
    BY <2>1 DEF TypeOK
  <2> QED BY <2>1, <2>2, <2>3 DEF TypeOK, commitVars, cmVars, verifyVars
<1>2. ASSUME NEW s \in Shard, RebuildLogs(s) PROVE TypeOK'
  <2>1. /\ UNCHANGED <<unsynced, commitVars, cmVars, view, viewChanges, transferVars, verifyReps,
                       verifiedShards, startViews>>
        /\ status' = [status EXCEPT ![s][NewLeader] = "LOG_CONFIRMING"]
    BY <1>2 DEF RebuildLogs
  <2>2. PICK reply \in Seq(Txn), rebuilt \in Seq(Txn) :
           /\ log' = [log EXCEPT ![s][NewLeader] = rebuilt]
           /\ cmdMap' = [cmdMap EXCEPT ![s][NewLeader] = @ \cup ToSet(reply)]
           /\ verifyReqs' = [o \in Shard |-> IF o = s THEN verifyReqs[o]
                  ELSE [verifyReqs[o] EXCEPT ![s] = HighestDeadline(rebuilt)]]
    BY <1>2, ServerRebuilds
  <2>3. HighestDeadline(rebuilt) \in Nat
    <3> QED BY HighestIs
  <2>4. verifyReqs' \in [Shard -> [Shard -> {None} \cup Nat]]
    <3> DEFINE d == HighestDeadline(rebuilt)
    <3>1. d \in Nat
      BY <2>3
    <3> HIDE DEF d
    <3>2. verifyReqs' = [o \in Shard |-> IF o = s THEN verifyReqs[o] ELSE [verifyReqs[o] EXCEPT ![s] = d]]
      BY <2>2 DEF d
    <3> QED BY <3>1, <3>2 DEF TypeOK
  <2>5. ToSet(reply) \in SUBSET Txn /\ "LOG_CONFIRMING" \in Status
    BY ToSetIs DEF Status
  <2>6. log' \in [Shard -> [Replica -> Seq(Txn)]]
    BY <2>2 DEF TypeOK
  <2>7. cmdMap' \in [Shard -> [Replica -> SUBSET Txn]]
    <3>1. cmdMap[s][NewLeader] \cup ToSet(reply) \in SUBSET Txn
      BY <2>5, Types, Replicas
    <3> QED BY <2>2, <3>1 DEF TypeOK
  <2>8. status' \in [Shard -> [Replica -> Status]]
    BY <2>1, <2>5 DEF TypeOK
  <2> QED BY <2>1, <2>4, <2>6, <2>7, <2>8 DEF TypeOK, commitVars, cmVars, transferVars
<1>3. ASSUME NEW s \in Shard, NEW o \in Shard, AnswerVerifyReq(s, o) PROVE TypeOK'
  <2> DEFINE e == {t \in ToSet(log[s][NewLeader]) : t >= verifyReqs[s][o] /\ o \in Targets[t]}
  <2>1. /\ UNCHANGED <<log, cmdMap, unsynced, commitVars, cmVars, status, view, viewChanges,
                       transferVars, verifyReqs, startViews>>
        /\ verifyReps' = [verifyReps EXCEPT ![o][s] = e]
        /\ verifiedShards' = [verifiedShards EXCEPT ![s] = @ \cup {o}]
    BY <1>3 DEF AnswerVerifyReq
  <2>2. e \in SUBSET Txn
    <3>1. log[s][NewLeader] \in Seq(Txn)
      BY Types, Replicas
    <3> QED BY <3>1, ToSetIs
  <2> HIDE DEF e
  <2>3. /\ verifyReps' \in [Shard -> [Shard -> {None} \cup SUBSET Txn]]
        /\ verifiedShards' \in [Shard -> SUBSET Shard]
    BY <2>1, <2>2 DEF TypeOK
  <2> QED BY <2>1, <2>3 DEF TypeOK, commitVars, cmVars, transferVars
<1>4. ASSUME NEW s \in Shard, LeaderFinalize(s) PROVE TypeOK'
  <2>1. /\ UNCHANGED <<unsynced, commitVars, cmVars, view, transferVars, verifyVars>>
        /\ status' = [status EXCEPT ![s][NewLeader] = "NORMAL"]
        /\ viewChanges' = [viewChanges EXCEPT ![s] = [r \in Replica |-> None]]
    BY <1>4 DEF LeaderFinalize
  <2>2. /\ log' \in [Shard -> [Replica -> Seq(Txn)]]
        /\ cmdMap' \in [Shard -> [Replica -> SUBSET Txn]]
        /\ startViews' \in [Shard -> [Replica -> {None} \cup StartView]]
    BY <1>4, ServerFinalizes
  <2>3. /\ viewChanges' \in [Shard -> [Replica -> {None} \cup ViewChange]]
        /\ status' \in [Shard -> [Replica -> Status]]
    BY <2>1 DEF TypeOK, Status
  <2> QED BY <2>1, <2>2, <2>3 DEF TypeOK, commitVars, cmVars, transferVars, verifyVars
<1>5. ASSUME NEW s \in Shard, NEW r \in Replica, FollowerFinalize(s, r) PROVE TypeOK'
  <2>1. /\ UNCHANGED <<unsynced, commitVars, cmVars, view, viewChanges, transferVars, verifyVars,
                       startViews>>
        /\ status' = [status EXCEPT ![s][r] = "NORMAL"]
    BY <1>5 DEF FollowerFinalize
  <2>2. /\ log' \in [Shard -> [Replica -> Seq(Txn)]]
        /\ cmdMap' \in [Shard -> [Replica -> SUBSET Txn]]
    BY <1>5, FollowerFinalizes
  <2>3. status' \in [Shard -> [Replica -> Status]]
    BY <2>1 DEF TypeOK, Status
  <2> QED BY <2>1, <2>2, <2>3 DEF TypeOK, commitVars, cmVars, transferVars, verifyVars
<1> QED BY <1>1, <1>2, <1>3, <1>4, <1>5

-----------------------------------------------------------------------------
(* The types, always.                                                      *)

LEMMA TInit ==
    ASSUME Init
    PROVE  TInv
<1>1. TypeOK
  <2>1. <<>> \in Seq(Txn)
    OBVIOUS
  <2> QED BY <2>1 DEF Init, ForServers, TypeOK, Status, CMStatus
<1>2. ASSUME NEW s \in Shard PROVE ServerInv(s)
  <2>1. \A r \in Replica :
           /\ status[s][r] = "NORMAL" /\ view[s][r] = 0
           /\ viewChanges[s][r] = None /\ transfers[s][r] = None /\ startViews[s][r] = None
    BY DEF Init, ForServers
  <2>2. asked[s] = {} /\ Heard(s) = {}
    BY <2>1 DEF Init, Heard
  <2>3. ~ Collected(s) /\ ~ Done(s)
    BY <2>1, Replicas DEF Collected, Done
  <2> QED BY <2>1, <2>2, <2>3, Replicas
             DEF ServerInv, StatusInv, NewViewInv, MessagesInv, AskedInv, FitsInv
<1> QED BY <1>1, <1>2 DEF TInv

(* What the steps of view 0 and of the configuration manager leave alone. *)
LEMMA ServerInViewZero ==
    ASSUME TypeOK, NEW p \in Shard, ServerInv(p),
           \/ \E s \in Shard, t \in Txn : LeaderExec(s, t)
           \/ \E s \in Shard, r \in Replica, t \in Txn : FollowerExec(s, r, t)
           \/ \E s \in Shard, r \in Replica : InterReplicaSync(s, r)
           \/ \E s, o \in Shard : AnswerVerifyReq(s, o)
           \/ UNCHANGED <<log, status, view, viewChanges, transferVars, startViews>>
    PROVE  ServerInv(p)'
<1>1. UNCHANGED <<status, view, viewChanges, transferVars, startViews>>
  BY DEF LeaderExec, FollowerExec, InterReplicaSync, AnswerVerifyReq, recoveryVars
<1>2. ASSUME NEW q \in Replica, view[p][q] = 1
      PROVE  log'[p][q] = log[p][q]
  <2>1. ASSUME NEW s \in Shard, NEW t \in Txn, LeaderExec(s, t) PROVE log'[p][q] = log[p][q]
    <3>1. ~ (s = p /\ q = 0)
      BY <1>2, <2>1 DEF LeaderExec, InViewZero
    <3>2. log' = [log EXCEPT ![s][0] = Append(@, t)]
      BY <2>1 DEF LeaderExec
    <3> QED BY <3>1, <3>2, Replicas DEF TypeOK
  <2>2. ASSUME NEW s \in Shard, NEW r \in Replica, InterReplicaSync(s, r) PROVE log'[p][q] = log[p][q]
    <3>1. ~ (s = p /\ q = r)
      BY <1>2, <2>2 DEF InterReplicaSync, InViewZero
    <3>2. \E x : log' = [log EXCEPT ![s][r] = x]
      BY <2>2 DEF InterReplicaSync
    <3> QED BY <3>1, <3>2 DEF TypeOK
  <2>3. CASE log' = log
    BY <2>3
  <2> QED BY <2>1, <2>2, <2>3 DEF FollowerExec, AnswerVerifyReq
<1> QED BY <1>1, <1>2, ServerFrame DEF transferVars, SameStatus

LEMMA TStep ==
    ASSUME TInv, [Next]_vars
    PROVE  TInv'
<1> USE DEF TInv
<1>1. TypeOK'
  <2>1. CASE Next
    BY <2>1, TypesOfNormal, TypesOfManager, TypesOfEntering, TypesOfRecovery DEF Next
  <2>2. CASE UNCHANGED vars
    BY <2>2 DEF TypeOK, vars, commitVars, cmVars, transferVars, verifyVars
  <2> QED BY <2>1, <2>2
<1>2. ASSUME NEW p \in Shard PROVE ServerInv(p)'
  <2>1. CASE \/ \E s \in Shard, t \in Txn : LeaderExec(s, t)
             \/ \E s \in Shard, r \in Replica, t \in Txn : FollowerExec(s, r, t)
             \/ \E s \in Shard, r \in Replica : InterReplicaSync(s, r)
             \/ \E s, o \in Shard : AnswerVerifyReq(s, o)
             \/ UNCHANGED <<log, status, view, viewChanges, transferVars, startViews>>
    BY <2>1, ServerInViewZero
  <2>2. CASE Fail
    BY <2>2, ServerFails
  <2>3. CASE \E s \in Shard, r \in Replica : EnterViewChange(s, r)
    BY <2>3, ServerEnters
  <2>4. CASE FailingViewChange
    BY <2>4, FailedServerEnters
  <2>5. CASE \E s \in Shard : CollectLogs(s)
    BY <2>5, ServerCollects
  <2>6. CASE \E s \in Shard : RebuildLogs(s)
    BY <2>6, ServerRebuilds
  <2>7. CASE \E s \in Shard : LeaderFinalize(s)
    BY <2>7, ServerFinalizes
  <2>8. CASE \E s \in Shard, r \in Replica : StateTransfer(s, r)
    BY <2>8, ServerReplies
  <2>9. CASE \E s \in Shard, r \in Replica : FollowerFinalize(s, r)
    BY <2>9, FollowerFinalizes
  <2>10. (\E t \in Txn : Commit(t)) \/ Kill \/ AllCommitted \/ Prepare \/ NewGView
            \/ UNCHANGED vars
         => UNCHANGED <<log, status, view, viewChanges, transferVars, startViews>>
    BY DEF Commit, Kill, AllCommitted, Prepare, NewGView, recoveryVars,
           serverVars, vars, transferVars
  <2> QED BY <2>1, <2>2, <2>3, <2>4, <2>5, <2>6, <2>7, <2>8, <2>9, <2>10 DEF Next
<1> QED BY <1>1, <1>2

LEMMA TypesAlways == Spec => []TInv
<1> QED BY TInit, TStep, PTL DEF Spec

(* TypeOK: what the servers keep and send has its type in every state they *)
(* can reach, the suffixes of logs that recovery cuts and sends included.  *)
THEOREM ViewChangeTypeCorrect == Spec => []TypeOK
<1>1. TInv => TypeOK
  BY DEF TInv
<1> QED BY <1>1, TypesAlways, PTL

(* The assertion of FollowerFinalizeRecoveredLogs: no message begins       *)
(* beyond the log that it is to continue, whatever has become of replies.  *)
THEOREM StartViewsFit == Spec => []StartViewContinuesLog
<1>1. TInv => StartViewContinuesLog
  BY DEF TInv, ServerInv, FitsInv, StartViewContinuesLog
<1> QED BY <1>1, TypesAlways, PTL

-----------------------------------------------------------------------------
(* The logs of a shard, until its recovery is finished and after.          *)

(* The log of every server is a beginning of the old leader's, that of the *)
(* new leader too when it has been rebuilt, whatever it was sent.          *)
OldLogs(s) == ~ Done(s) => \A r \in Replica : Begins(log[s][r], log[s][0])

(* The reply of the server with the highest sync point is what the new     *)
(* leader does not have, or empty.                                         *)
TransferInv(s) ==
    status[s][NewLeader] = "REBUILD_LOG" =>
        \A r \in Replica : r = Target(s) =>
            transfers[s][r] \in {None, <<>>,
                SubSeq(log[s][r], Len(log[s][NewLeader]) + 1, Len(log[s][r]))}

(* What a follower has of the confirmed transactions is in what it keeps   *)
(* when StartView comes.                                                   *)
KeptInv(s) ==
    \A r \in Replica :
        startViews[s][r] # None /\ status[s][r] = "WAIT_START_VIEW" =>
            \A t \in confirmed[s] : Has(t, s, r) =>
                \E i \in 1..startViews[s][r].logBegin - 1 : log[s][r][i] = t

DInv ==
    /\ TInv
    /\ \A s \in Shard : OldLogs(s) /\ TransferInv(s) /\ KeptInv(s)
    /\ SlowCommitsStay

(* Finishing the recovery ends it. *)
LEMMA DoneStays ==
    ASSUME TypeOK, Next, NEW s \in Shard, Done(s)
    PROVE  Done(s)'
<1> USE DEF TypeOK
<1>1. view[s][NewLeader] = 1 /\ status[s][NewLeader] = "NORMAL" /\ NewLeader \in Replica
  BY Replicas DEF Done
<1>2. CASE UNCHANGED <<status, view>>
  BY <1>1, <1>2 DEF Done
<1>3. CASE Fail
  BY <1>1, <1>3 DEF Fail, serverVars, InViewZero, Done
<1>4. ASSUME NEW p \in Shard, NEW r \in Replica, EnterViewChange(p, r) PROVE Done(s)'
  <2>1. ~ (p = s /\ r = NewLeader)
    BY <1>1, <1>4 DEF EnterViewChange, InViewZero
  <2>2. PICK st : view' = [view EXCEPT ![p][r] = 1] /\ status' = [status EXCEPT ![p][r] = st]
    BY <1>4 DEF EnterViewChange
  <2>3. view'[s][NewLeader] = view[s][NewLeader] /\ status'[s][NewLeader] = status[s][NewLeader]
    BY <2>1, <2>2
  <2> QED BY <1>1, <2>3 DEF Done
<1>5. CASE FailingViewChange
  BY <1>1, <1>5 DEF FailingViewChange, Done
<1>6. ASSUME NEW p \in Shard, CollectLogs(p) PROVE Done(s)'
  BY <1>1, <1>6 DEF CollectLogs, Done
<1>7. ASSUME NEW p \in Shard, RebuildLogs(p) PROVE Done(s)'
  BY <1>1, <1>7 DEF RebuildLogs, Done
<1>8. ASSUME NEW p \in Shard, LeaderFinalize(p) PROVE Done(s)'
  BY <1>1, <1>8 DEF LeaderFinalize, Done
<1>9. ASSUME NEW p \in Shard, NEW r \in Replica, FollowerFinalize(p, r) PROVE Done(s)'
  BY <1>1, <1>9 DEF FollowerFinalize, Done
<1> QED
  BY <1>2, <1>3, <1>4, <1>5, <1>6, <1>7, <1>8, <1>9
     DEF Next, LeaderExec, FollowerExec, InterReplicaSync, Commit, Kill, AllCommitted, Prepare,
         NewGView, StateTransfer, AnswerVerifyReq, recoveryVars, serverVars, cmVars

(* Who changes a log. *)
LEMMA LogChanges ==
    ASSUME TypeOK, Next, NEW s \in Shard, NEW r \in Replica, log'[s][r] # log[s][r]
    PROVE  \/ r = 0 /\ \E t \in Txn : LeaderExec(s, t)
           \/ InterReplicaSync(s, r)
           \/ r = NewLeader /\ RebuildLogs(s)
           \/ r = NewLeader /\ LeaderFinalize(s)
           \/ FollowerFinalize(s, r)
<1> DEFINE Goal == \/ r = 0 /\ \E t \in Txn : LeaderExec(s, t)
                   \/ InterReplicaSync(s, r)
                   \/ r = NewLeader /\ RebuildLogs(s)
                   \/ r = NewLeader /\ LeaderFinalize(s)
                   \/ FollowerFinalize(s, r)
<1>1. ASSUME NEW p \in Shard, NEW q \in Replica, NEW l, log' = [log EXCEPT ![p][q] = l]
      PROVE  p = s /\ q = r
  BY <1>1 DEF TypeOK
<1>2. ASSUME NEW p \in Shard, NEW t \in Txn, LeaderExec(p, t) PROVE Goal
  <2>1. p = s /\ 0 = r
    BY <1>1, <1>2, Replicas DEF LeaderExec
  <2> QED BY <1>2, <2>1
<1>3. ASSUME NEW p \in Shard, NEW q \in Replica, InterReplicaSync(p, q) PROVE Goal
  <2>1. p = s /\ q = r
    BY <1>1, <1>3 DEF InterReplicaSync
  <2> QED BY <1>3, <2>1
<1>4. ASSUME NEW p \in Shard, RebuildLogs(p) PROVE Goal
  <2>1. p = s /\ NewLeader = r
    BY <1>1, <1>4, Replicas DEF RebuildLogs
  <2> QED BY <1>4, <2>1
<1>5. ASSUME NEW p \in Shard, LeaderFinalize(p) PROVE Goal
  <2>1. \E l : log' = [log EXCEPT ![p][NewLeader] = l]
    BY <1>5 DEF LeaderFinalize
  <2>2. p = s /\ NewLeader = r
    BY <1>1, <2>1, Replicas
  <2> QED BY <1>5, <2>2
<1>6. ASSUME NEW p \in Shard, NEW q \in Replica, FollowerFinalize(p, q) PROVE Goal
  <2>1. p = s /\ q = r
    BY <1>1, <1>6 DEF FollowerFinalize
  <2> QED BY <1>6, <2>1
<1> HIDE DEF Goal
<1>7. Goal
  BY <1>2, <1>3, <1>4, <1>5, <1>6
     DEF Next, FollowerExec, Commit, Kill, AllCommitted, Fail, Prepare, NewGView,
         EnterViewChange, FailingViewChange, CollectLogs, StateTransfer, AnswerVerifyReq,
         serverVars
<1> QED BY <1>7 DEF Goal

(* A log of view 0, from which one of the new view is only cut by its      *)
(* StartView message.                                                      *)
LEMMA LogInViewOne ==
    ASSUME TInv, Next, NEW s \in Shard, NEW r \in Replica, view[s][r] = 1
    PROVE  \/ log'[s][r] = log[s][r]
           \/ r = NewLeader /\ RebuildLogs(s)
           \/ r = NewLeader /\ LeaderFinalize(s)
           \/ FollowerFinalize(s, r)
BY LogChanges DEF TInv, LeaderExec, InterReplicaSync, InViewZero

(* What is confirmed is confirmed in view 0. *)
LEMMA ConfirmedOld ==
    ASSUME TypeOK, Next, NEW s \in Shard, confirmed'[s] # confirmed[s]
    PROVE  /\ \A r \in Replica : view[s][r] = 0
           /\ \A t \in confirmed'[s] : t \in confirmed[s] \/ SyncedByMajority(t, s)
           /\ log' = log
<1>1. PICK t \in Txn : Commit(t)
  BY DEF Next, LeaderExec, FollowerExec, InterReplicaSync, Kill, AllCommitted, Fail, Prepare,
         NewGView, EnterViewChange, FailingViewChange, CollectLogs, StateTransfer, RebuildLogs,
         AnswerVerifyReq, LeaderFinalize, FollowerFinalize, commitVars, recoveryVars, serverVars
<1>2. confirmed'[s] = IF s \in Targets[t] /\ SyncedByMajority(t, s)
                      THEN confirmed[s] \cup {t} ELSE confirmed[s]
  BY <1>1 DEF Commit
<1>3. s \in Targets[t] /\ SyncedByMajority(t, s)
  BY <1>2
<1> QED BY <1>1, <1>2, <1>3 DEF Commit

(* How logs grow. *)
LEMMA AppendHas ==
    ASSUME NEW T, NEW l \in Seq(T), NEW t \in T
    PROVE  ToSet(l) \subseteq ToSet(Append(l, t))
<1>1. Append(l, t) \in Seq(T) /\ Begins(l, Append(l, t))
  BY DEF Begins
<1> QED BY <1>1, BeginsHas

LEMMA ConcatHas ==
    ASSUME NEW T, NEW l \in Seq(T), NEW m \in Seq(T)
    PROVE  ToSet(l) \subseteq ToSet(l \o m)
<1>1. l \o m \in Seq(T) /\ Begins(l, l \o m)
  <2>1. /\ l \o m \in Seq(T) /\ Len(l \o m) = Len(l) + Len(m)
        /\ \A i \in 1..Len(l) + Len(m) : (l \o m)[i] = IF i <= Len(l) THEN l[i] ELSE m[i - Len(l)]
    BY ConcatProperties
  <2> QED BY <2>1 DEF Begins
<1> QED BY <1>1, BeginsHas

(* What stands in the part that is kept remains. *)
LEMMA CutHas ==
    ASSUME NEW T, NEW l \in Seq(T), NEW m \in Seq(T), NEW k \in Nat, k <= Len(l), NEW i \in 1..k
    PROVE  l[i] \in ToSet(SubSeq(l, 1, k) \o m)
<1> DEFINE b == SubSeq(l, 1, k)
<1>1. b \in Seq(T) /\ Len(b) = k /\ b[i] = l[i]
  <2>1. \A j \in 1..k : l[j] \in T
    OBVIOUS
  <2>2. /\ b \in Seq(T)
        /\ Len(b) = (IF 1 <= k THEN k - 1 + 1 ELSE 0)
        /\ \A j \in 1..k - 1 + 1 : b[j] = l[1 + j - 1]
    BY <2>1, SubSeqProperties
  <2>3. i \in 1..k - 1 + 1 /\ 1 + i - 1 = i
    OBVIOUS
  <2> QED BY <2>2, <2>3
<1> HIDE DEF b
<1>2. ToSet(b) \subseteq ToSet(b \o m)
  BY <1>1, ConcatHas
<1>3. l[i] \in ToSet(b)
  BY <1>1, ToSetIs
<1> QED BY <1>2, <1>3 DEF b

-----------------------------------------------------------------------------
(* The steps.                                                              *)

(* The log of a new leader becomes that of the target or remains.          *)
LEMMA RebuiltIs ==
    ASSUME DInv, NEW s \in Shard, RebuildLogs(s)
    PROVE  /\ ~ Done(s)
           /\ \/ log' = [log EXCEPT ![s][NewLeader] = log[s][NewLeader]]
              \/ /\ log' = [log EXCEPT ![s][NewLeader] = log[s][Target(s)]]
                 /\ Target(s) \in Replica
                 /\ Begins(log[s][NewLeader], log[s][Target(s)])
<1> DEFINE reply == IF Target(s) = NewLeader \/ transfers[s][Target(s)] = None
                    THEN <<>> ELSE transfers[s][Target(s)]
<1> USE DEF DInv, TInv, ServerInv
<1>1. /\ status[s][NewLeader] = "REBUILD_LOG"
      /\ log' = [log EXCEPT ![s][NewLeader] = log[s][NewLeader] \o reply]
  BY DEF RebuildLogs
<1>2. ~ Done(s)
  BY <1>1 DEF Done
<1>3. /\ \A r \in Replica : SyncPointOf(s, r) = Len(log[s][r]) /\ Len(log[s][r]) \in Nat
      /\ Target(s) \in Involved(s) \cup {NewLeader} /\ Target(s) \in Replica
  BY <1>1, SyncPoints
<1>4. NewLeader \in Replica /\ 0 \in Replica
      /\ log[s][NewLeader] \in Seq(Txn) /\ log[s][Target(s)] \in Seq(Txn) /\ log[s][0] \in Seq(Txn)
  BY <1>3, Types, Replicas
<1>5. CASE reply = <<>>
  <2>1. log[s][NewLeader] \o <<>> = log[s][NewLeader]
    BY <1>4
  <2> HIDE DEF reply
  <2> QED BY <1>1, <1>2, <1>5, <2>1
<1>6. CASE reply # <<>>
  <2>1. reply = SubSeq(log[s][Target(s)], Len(log[s][NewLeader]) + 1, Len(log[s][Target(s)]))
    BY <1>1, <1>3, <1>6 DEF TransferInv
  <2>2. Len(log[s][NewLeader]) <= Len(log[s][Target(s)])
    <3>1. NewLeader \in Involved(s) \cup {NewLeader} /\ Involved(s) \cup {NewLeader} \subseteq Replica
      BY Asked
    <3>2. SyncPointOf(s, NewLeader) <= SyncPointOf(s, Target(s))
      BY <1>3, <3>1, TargetIs
    <3> QED BY <1>3, <1>4, <3>2
  <2>3. Begins(log[s][NewLeader], log[s][0]) /\ Begins(log[s][Target(s)], log[s][0])
    BY <1>2, <1>3, <1>4 DEF OldLogs
  <2>4. Begins(log[s][NewLeader], log[s][Target(s)])
    BY <1>4, <2>2, <2>3, BeginsCompare
  <2>5. log[s][NewLeader] \o reply = log[s][Target(s)]
    BY <1>4, <2>1, <2>4, AddIs
  <2> QED BY <1>1, <1>2, <1>3, <2>4, <2>5
<1> QED BY <1>5, <1>6

LEMMA OldLogsStep ==
    ASSUME DInv, Next, NEW s \in Shard
    PROVE  OldLogs(s)'
<1> USE DEF DInv, TInv, ServerInv
<1> SUFFICES ASSUME ~ Done(s)', NEW r \in Replica
             PROVE  Begins(log'[s][r], log'[s][0])
  BY DEF OldLogs
<1>1. ~ Done(s)
  BY DoneStays
<1>2. /\ NewLeader \in Replica /\ 0 \in Replica
      /\ \A q \in Replica : Begins(log[s][q], log[s][0]) /\ log[s][q] \in Seq(Txn)
      /\ \A q \in Replica : Len(log[s][q]) \in Nat
  BY <1>1, Types, Replicas DEF OldLogs
<1>3. ~ LeaderFinalize(s) /\ \A q \in Replica : ~ FollowerFinalize(s, q)
  <2>1. ASSUME LeaderFinalize(s) PROVE FALSE
    <3>1. view'[s][NewLeader] = 1 /\ status'[s][NewLeader] = "NORMAL"
      BY <1>2, <2>1 DEF LeaderFinalize, StatusInv, TypeOK
    <3> QED BY <3>1 DEF Done
  <2>2. ASSUME NEW q \in Replica, FollowerFinalize(s, q) PROVE FALSE
    BY <1>1, <2>2 DEF FollowerFinalize, NewViewInv
  <2> QED BY <2>1, <2>2
<1>4. CASE log'[s][r] = log[s][r] /\ log'[s][0] = log[s][0]
  BY <1>2, <1>4
<1>5. ASSUME NEW t \in Txn, LeaderExec(s, t) PROVE Begins(log'[s][r], log'[s][0])
  <2>1. log'[s][0] = Append(log[s][0], t) /\ (r # 0 => log'[s][r] = log[s][r])
    BY <1>2, <1>5 DEF LeaderExec, TypeOK
  <2>2. CASE r = 0
    <3>1. Append(log[s][0], t) \in Seq(Txn)
      BY <1>2
    <3> QED BY <2>1, <2>2, <3>1 DEF Begins
  <2>3. CASE r # 0
    BY <1>2, <2>1, <2>3, BeginsAppend
  <2> QED BY <2>2, <2>3
<1>6. ASSUME NEW q \in Replica, InterReplicaSync(s, q) PROVE Begins(log'[s][r], log'[s][0])
  <2>1. /\ q # 0 /\ Len(log[s][q]) < Len(log[s][0])
        /\ log' = [log EXCEPT ![s][q] = Append(log[s][q], log[s][0][Len(log[s][q]) + 1])]
    BY <1>6 DEF InterReplicaSync
  <2>2. /\ log'[s][0] = log[s][0]
        /\ log'[s][q] = Append(log[s][q], log[s][0][Len(log[s][q]) + 1])
        /\ r # q => log'[s][r] = log[s][r]
    BY <1>2, <2>1 DEF TypeOK
  <2>3. Begins(log'[s][q], log[s][0])
    BY <1>2, <2>1, <2>2, BeginsNext
  <2> QED BY <1>2, <2>2, <2>3
<1>7. CASE RebuildLogs(s)
  <2>1. PICK o \in Replica : log' = [log EXCEPT ![s][NewLeader] = log[s][o]]
    BY <1>2, <1>7, RebuiltIs
  <2>2. log'[s][NewLeader] = log[s][o] /\ (r # NewLeader => log'[s][r] = log[s][r])
    BY <1>2, <2>1 DEF TypeOK
  <2>3. CASE NewLeader = 0
    <3>1. r = 0
      BY <2>3, ClusterAssumption DEF NewLeader, Replica
    <3> QED BY <1>2, <2>2, <2>3, <3>1 DEF Begins
  <2>4. CASE NewLeader # 0
    <3>1. log'[s][0] = log[s][0]
      BY <1>2, <2>1, <2>4 DEF TypeOK
    <3>2. CASE r = NewLeader
      BY <1>2, <2>2, <3>1, <3>2
    <3>3. CASE r # NewLeader
      BY <1>2, <2>2, <3>1, <3>3
    <3> QED BY <3>2, <3>3
  <2> QED BY <2>3, <2>4
<1> QED BY <1>2, <1>3, <1>4, <1>5, <1>6, <1>7, LogChanges

LEMMA TransferStep ==
    ASSUME DInv, TInv', Next, NEW s \in Shard
    PROVE  TransferInv(s)'
<1> USE DEF DInv, TInv, ServerInv
<1> SUFFICES ASSUME status'[s][NewLeader] = "REBUILD_LOG", NEW r \in Replica, r = Target(s)'
             PROVE  transfers'[s][r] \in {None, <<>>,
                        SubSeq(log'[s][r], Len(log'[s][NewLeader]) + 1, Len(log'[s][r]))}
  BY DEF TransferInv
<1>1. NewLeader \in Replica
  BY Replicas
<1>2. CASE CollectLogs(s)
  <2>1. transfers' = transfers /\ ~ Collected(s)
    BY <1>2 DEF CollectLogs, Collected, Done
  <2>2. Heard(s) = {}
    BY <2>1 DEF AskedInv
  <2> QED BY <2>1, <2>2 DEF Heard
<1>3. ASSUME ~ CollectLogs(s)
      PROVE  status[s][NewLeader] = "REBUILD_LOG" /\ viewChanges'[s] = viewChanges[s]
  <2> DEFINE Goal == status[s][NewLeader] = "REBUILD_LOG" /\ viewChanges'[s] = viewChanges[s]
  <2> USE DEF TypeOK
  <2>1. CASE UNCHANGED <<status, viewChanges>>
    BY <2>1
  <2>2. CASE Fail
    BY <1>1, <2>2 DEF Fail, serverVars
  <2>3. ASSUME NEW p \in Shard, NEW q \in Replica, EnterViewChange(p, q) PROVE Goal
    <3>1. ~ (p = s /\ q = NewLeader)
      BY <1>1, <2>3 DEF EnterViewChange
    <3>2. PICK st : status' = [status EXCEPT ![p][q] = st]
      BY <2>3 DEF EnterViewChange
    <3>3. status[s][NewLeader] = "REBUILD_LOG"
      BY <3>1, <3>2, <1>1
    <3>4. p # s
      BY <2>3, <3>3 DEF EnterViewChange, InViewZero, NewViewInv, Collected
    <3>5. viewChanges'[s] = viewChanges[s]
      BY <2>3, <3>4 DEF EnterViewChange
    <3> QED BY <3>3, <3>5
  <2>4. CASE FailingViewChange
    <3>1. status[s][NewLeader] = "REBUILD_LOG"
      BY <2>4 DEF FailingViewChange
    <3>2. Victim[1] # s
      BY <2>4, <3>1 DEF FailingViewChange, Victim, Replica, NewViewInv, Collected
    <3>3. viewChanges'[s] = viewChanges[s]
      BY <2>4, <3>2 DEF FailingViewChange
    <3> QED BY <3>1, <3>3
  <2>5. ASSUME NEW p \in Shard, CollectLogs(p) PROVE Goal
    <3>1. p # s
      BY <1>3, <2>5
    <3> QED BY <2>5, <3>1 DEF CollectLogs
  <2>6. ASSUME NEW p \in Shard, RebuildLogs(p) PROVE Goal
    BY <1>1, <2>6 DEF RebuildLogs
  <2>7. ASSUME NEW p \in Shard, LeaderFinalize(p) PROVE Goal
    <3>1. /\ status' = [status EXCEPT ![p][NewLeader] = "NORMAL"]
          /\ viewChanges' = [viewChanges EXCEPT ![p] = [q \in Replica |-> None]]
      BY <2>7 DEF LeaderFinalize
    <3> QED BY <1>1, <3>1
  <2>8. ASSUME NEW p \in Shard, NEW q \in Replica, FollowerFinalize(p, q) PROVE Goal
    BY <1>1, <2>8 DEF FollowerFinalize
  <2> HIDE DEF Goal
  <2>9. Goal
    BY <2>1, <2>2, <2>3, <2>4, <2>5, <2>6, <2>7, <2>8
       DEF Next, LeaderExec, FollowerExec, InterReplicaSync, Commit, Kill, AllCommitted, Prepare,
           NewGView, StateTransfer, AnswerVerifyReq, recoveryVars, serverVars, Goal
  <2> QED BY <2>9 DEF Goal
<1>4. CASE ~ CollectLogs(s)
  <2>1. status[s][NewLeader] = "REBUILD_LOG" /\ viewChanges'[s] = viewChanges[s]
    BY <1>3, <1>4
  <2>2. \A q \in Replica : view[s][q] = 1
    BY <2>1 DEF NewViewInv, Collected
  <2>3. ~ RebuildLogs(s) /\ ~ LeaderFinalize(s) /\ \A q \in Replica : ~ FollowerFinalize(s, q)
    <3>1. ASSUME RebuildLogs(s) PROVE FALSE
      <4>1. status' = [status EXCEPT ![s][NewLeader] = "LOG_CONFIRMING"]
        BY <3>1 DEF RebuildLogs
      <4>2. status'[s][NewLeader] = "LOG_CONFIRMING"
        BY <1>1, <4>1 DEF TypeOK
      <4> QED BY <4>2
    <3>2. \A q \in Replica : ~ FollowerFinalize(s, q)
      BY <2>1 DEF FollowerFinalize, NewViewInv, Done
    <3> QED BY <2>1, <3>1, <3>2 DEF LeaderFinalize
  <2>4. \A q \in Replica : log'[s][q] = log[s][q]
    BY <2>2, <2>3, LogInViewOne
  <2>5. r = Target(s)
    BY <1>1, <2>1, <2>4, SameTarget
  <2>6. transfers[s][r] \in {None, <<>>,
            SubSeq(log[s][r], Len(log[s][NewLeader]) + 1, Len(log[s][r]))}
    BY <2>1, <2>5 DEF TransferInv
  <2>7. CASE UNCHANGED transfers
    BY <1>1, <2>4, <2>6, <2>7
  <2>8. ASSUME NEW p \in Shard, NEW q \in Replica, StateTransfer(p, q)
        PROVE  transfers'[s][r] \in {None, <<>>,
                  SubSeq(log[s][r], Len(log[s][NewLeader]) + 1, Len(log[s][r]))}
    <3> DEFINE Sent(key, e) ==
             /\ transfers' = [transfers EXCEPT ![p][key] = e]
             /\ p = s /\ key = r => e \in {<<>>, transfers[s][r],
                   SubSeq(log[s][r], Len(log[s][NewLeader]) + 1, SyncPointOf(s, r))}
    <3>1. \E key \in Replica : \E e : Sent(key, e)
      BY <2>8, <2>5 DEF StateTransfer
    <3>2. PICK key \in Replica : \E e : Sent(key, e)
      BY <3>1
    <3>3. PICK e : Sent(key, e)
      BY <3>2
    <3>4. SyncPointOf(s, r) = Len(log[s][r])
      BY <2>1, SyncPoints
    <3>5. CASE p = s /\ key = r
      <4>1. transfers'[s][r] = e
        BY <3>3, <3>5 DEF TypeOK
      <4> QED BY <2>6, <3>3, <3>4, <3>5, <4>1
    <3>6. CASE ~ (p = s /\ key = r)
      <4>1. transfers'[s][r] = transfers[s][r]
        BY <3>3, <3>6 DEF TypeOK
      <4> QED BY <2>6, <4>1
    <3> QED BY <3>5, <3>6
  <2> QED
    BY <1>1, <2>4, <2>7, <2>8
       DEF Next, LeaderExec, FollowerExec, InterReplicaSync, Commit, Kill, AllCommitted, Fail,
           Prepare, NewGView, EnterViewChange, FailingViewChange, CollectLogs, RebuildLogs,
           AnswerVerifyReq, LeaderFinalize, FollowerFinalize, recoveryVars, serverVars, transferVars
<1> QED BY <1>2, <1>4

(* Whoever is not heard has failed. *)
LEMMA OnlyTheVictim ==
    ASSUME TypeOK, NEW s \in Shard, ServerInv(s),
           status[s][NewLeader] \in {"REBUILD_LOG", "LOG_CONFIRMING"}
    PROVE  Others \ Alive(s) \subseteq {0}
<1> SUFFICES ASSUME NEW q \in Others, q \notin Alive(s) PROVE q = 0
  OBVIOUS
<1>1. q \in Replica /\ viewChanges[s][q] = ViewChangeMsg(s, q)
  BY SyncPoints, Replicas DEF ServerInv
<1>2. viewChanges[s][q].failing
  BY Zenon DEF Alive
<1>3. ViewChangeMsg(s, q).failing <=> status[s][q] = "FAILING"
  BY Zenon DEF ViewChangeMsg
<1>4. status[s][q] = "FAILING"
  BY Zenon, <1>1, <1>2, <1>3
<1> QED BY <1>1, <1>4 DEF ServerInv, StatusInv, Victim

(* Finishing the recovery sends each follower what begins beyond all that  *)
(* it has of the transactions that are confirmed: a server that has synced *)
(* one has been heard.                                                     *)
LEMMA SentIsBeyond ==
    ASSUME DInv, NEW s \in Shard, status[s][NewLeader] = "LOG_CONFIRMING",
           NEW r \in Others, NEW l, NEW t \in confirmed[s], Has(t, s, r)
    PROVE  \E i \in 1..StartViewMsg(s, r, l).logBegin - 1 : log[s][r][i] = t
<1> DEFINE Holders == {q \in Replica : Has(t, s, q)}
           highest == SyncPointOf(s, Target(s))
<1> USE DEF DInv, TInv, ServerInv
<1>1. /\ \A q \in Replica : SyncPointOf(s, q) = Len(log[s][q]) /\ Len(log[s][q]) \in Nat
      /\ \A q \in Others : viewChanges[s][q] = ViewChangeMsg(s, q)
      /\ Target(s) \in Replica
  BY SyncPoints
<1>2. Holders \in SUBSET Replica /\ Cardinality(Holders) >= ReplicaNum \div 2 + 1
  BY DEF SlowCommitsStay, SyncedByMajority
<1>3. Others \ Alive(s) \subseteq {0}
  BY OnlyTheVictim
<1> HIDE DEF Holders
<1>4. PICK q \in Holders : q \in Involved(s) \cup {NewLeader}
  BY <1>2, <1>3, Replicas, AskedMeetMajority
<1>5. q \in Replica /\ Has(t, s, q)
  BY <1>4 DEF Holders
<1>6. /\ r \in Replica /\ 0 \in Replica
      /\ log[s][r] \in Seq(Txn) /\ log[s][q] \in Seq(Txn) /\ log[s][0] \in Seq(Txn)
      /\ Begins(log[s][r], log[s][0]) /\ Begins(log[s][q], log[s][0])
  BY <1>5, Replicas, Types DEF OldLogs, Done
<1>7. PICK i \in 1..Len(log[s][q]) : log[s][q][i] = t
  BY <1>5, <1>6, ToSetIs DEF Has
<1>8. PICK j \in 1..Len(log[s][r]) : log[s][r][j] = t
  BY <1>6, ToSetIs DEF Has
<1>9. Len(log[s][q]) <= highest /\ highest \in Nat
  <2>1. Involved(s) \cup {NewLeader} \subseteq Replica
    BY Asked
  <2>2. SyncPointOf(s, q) <= highest
    BY <1>1, <1>4, <2>1, TargetIs
  <2> QED BY <1>1, <1>5, <2>2
<1> HIDE DEF highest
<1>10. StartViewMsg(s, r, l).logBegin =
          (IF Len(log[s][r]) < highest THEN Len(log[s][r]) ELSE highest) + 1
  <2>1. viewChanges[s][r].syncPoint = Len(log[s][r])
    <3>1. viewChanges[s][r] = ViewChangeMsg(s, r)
      BY <1>1
    <3> QED BY <3>1 DEF ViewChangeMsg
  <2> QED BY <2>1 DEF StartViewMsg, highest
<1>11. Len(log[s][r]) \in Nat /\ Len(log[s][q]) \in Nat
  BY <1>6
<1>12. CASE Len(log[s][r]) < highest
  <2>1. j \in 1..StartViewMsg(s, r, l).logBegin - 1
    BY <1>10, <1>11, <1>12
  <2> QED BY <1>8, <2>1
<1>13. CASE ~ (Len(log[s][r]) < highest)
  <2>1. StartViewMsg(s, r, l).logBegin - 1 = highest
    BY <1>9, <1>10, <1>13
  <2>2. i \in 1..highest /\ i \in 1..Len(log[s][r])
    BY <1>9, <1>11, <1>13
  <2>3. log[s][r][i] = log[s][0][i] /\ log[s][q][i] = log[s][0][i]
    BY <1>6, <1>7, <2>2 DEF Begins
  <2> QED BY <1>7, <2>1, <2>2, <2>3
<1> QED BY <1>12, <1>13

LEMMA KeptStep ==
    ASSUME DInv, TInv', Next, NEW s \in Shard
    PROVE  KeptInv(s)'
<1> USE DEF DInv, TInv, ServerInv
<1> SUFFICES ASSUME NEW r \in Replica, startViews'[s][r] # None,
                    status'[s][r] = "WAIT_START_VIEW",
                    NEW t \in confirmed'[s], Has(t, s, r)'
             PROVE  \E i \in 1..startViews'[s][r].logBegin - 1 : log'[s][r][i] = t
  BY DEF KeptInv
<1>1. CASE LeaderFinalize(s)
  <2>1. /\ status[s][NewLeader] = "LOG_CONFIRMING" /\ confirmed' = confirmed
        /\ status' = [status EXCEPT ![s][NewLeader] = "NORMAL"]
    BY <1>1 DEF LeaderFinalize, commitVars
  <2>2. PICK S \in SUBSET Txn :
           /\ log' = [log EXCEPT ![s][NewLeader] = ByDeadline(S)]
           /\ startViews' = [startViews EXCEPT ![s] = [q \in Replica |->
                 IF q = NewLeader \/ q \notin Alive(s) THEN None
                 ELSE StartViewMsg(s, q, ByDeadline(S))]]
    BY <1>1, FinalizedIs
  <2>3. startViews'[s][r] = IF r = NewLeader \/ r \notin Alive(s) THEN None
                            ELSE StartViewMsg(s, r, ByDeadline(S))
    BY <2>2 DEF TypeOK
  <2>4. /\ r \in Others /\ r # NewLeader
        /\ startViews'[s][r] = StartViewMsg(s, r, ByDeadline(S))
    BY <2>3, Replicas
  <2>5. log'[s][r] = log[s][r]
    BY <2>2, <2>4 DEF TypeOK
  <2>6. Has(t, s, r)
    BY <2>5 DEF Has
  <2> QED BY <2>1, <2>4, <2>5, <2>6, SentIsBeyond
<1>2. CASE ~ LeaderFinalize(s)
  <2>1. startViews'[s] = startViews[s]
    <3>1. ASSUME NEW p \in Shard, LeaderFinalize(p) PROVE startViews'[s] = startViews[s]
      <4>1. p # s
        BY <1>2, <3>1
      <4>2. \E m : startViews' = [startViews EXCEPT ![p] = m]
        BY <3>1 DEF LeaderFinalize
      <4> QED BY <4>1, <4>2
    <3> QED
      BY <3>1
         DEF Next, LeaderExec, FollowerExec, InterReplicaSync, Commit, Kill, AllCommitted, Fail,
             Prepare, NewGView, EnterViewChange, FailingViewChange, CollectLogs, StateTransfer,
             RebuildLogs, AnswerVerifyReq, FollowerFinalize, recoveryVars, serverVars
  <2>2. /\ \A q \in Replica : view[s][q] = 1
        /\ status[s][NewLeader] = "NORMAL"
    BY <2>1 DEF NewViewInv, Collected, Done
  <2>3. status[s][r] = "WAIT_START_VIEW"
    <3> USE DEF TypeOK
    <3>1. NewLeader \in Replica
      BY Replicas
    <3>2. CASE UNCHANGED status
      BY <3>2
    <3>3. CASE Fail
      BY <3>3 DEF Fail
    <3>4. ASSUME NEW p \in Shard, NEW q \in Replica, EnterViewChange(p, q)
          PROVE  status[s][r] = "WAIT_START_VIEW"
      <4>1. ~ (p = s /\ q = r)
        BY <2>2, <3>4 DEF EnterViewChange, InViewZero
      <4>2. PICK st : status' = [status EXCEPT ![p][q] = st]
        BY <3>4 DEF EnterViewChange
      <4> QED BY <4>1, <4>2
    <3>5. ASSUME NEW p \in Shard, CollectLogs(p) PROVE status[s][r] = "WAIT_START_VIEW"
      BY <3>5 DEF CollectLogs
    <3>6. ASSUME NEW p \in Shard, RebuildLogs(p) PROVE status[s][r] = "WAIT_START_VIEW"
      <4>1. status' = [status EXCEPT ![p][NewLeader] = "LOG_CONFIRMING"]
        BY <3>6 DEF RebuildLogs
      <4> QED BY <4>1
    <3>7. ASSUME NEW p \in Shard, LeaderFinalize(p) PROVE status[s][r] = "WAIT_START_VIEW"
      <4>1. status' = [status EXCEPT ![p][NewLeader] = "NORMAL"]
        BY <3>7 DEF LeaderFinalize
      <4> QED BY <4>1
    <3>8. ASSUME NEW p \in Shard, NEW q \in Replica, FollowerFinalize(p, q)
          PROVE  status[s][r] = "WAIT_START_VIEW"
      <4>1. status' = [status EXCEPT ![p][q] = "NORMAL"]
        BY <3>8 DEF FollowerFinalize
      <4> QED BY <4>1
    <3> QED
      BY <3>2, <3>3, <3>4, <3>5, <3>6, <3>7, <3>8
         DEF Next, LeaderExec, FollowerExec, InterReplicaSync, Commit, Kill, AllCommitted, Prepare,
             NewGView, FailingViewChange, StateTransfer, AnswerVerifyReq, recoveryVars, serverVars
  <2>4. r # NewLeader
    BY <2>3 DEF StatusInv
  <2>5. ~ FollowerFinalize(s, r)
    <3>1. ASSUME FollowerFinalize(s, r) PROVE FALSE
      BY <3>1 DEF FollowerFinalize, TypeOK
    <3> QED BY <3>1
  <2>6. log'[s][r] = log[s][r]
    BY <1>2, <2>2, <2>4, <2>5, LogInViewOne
  <2>7. confirmed'[s] = confirmed[s]
    BY <2>2, ConfirmedOld, Replicas
  <2>8. Has(t, s, r)
    BY <2>6 DEF Has
  <2> QED BY <2>1, <2>3, <2>6, <2>7, <2>8 DEF KeptInv
<1> QED BY <1>1, <1>2

-----------------------------------------------------------------------------
(* What a majority has synced.                                             *)

LEMMA MoreReplicas ==
    ASSUME NEW S \in SUBSET Replica, NEW T \in SUBSET Replica, S \subseteq T,
           Cardinality(S) >= ReplicaNum \div 2 + 1
    PROVE  Cardinality(T) >= ReplicaNum \div 2 + 1
<1>1. /\ IsFiniteSet(S) /\ IsFiniteSet(T)
      /\ Cardinality(S) \in Nat /\ Cardinality(T) \in Nat
  BY Replicas, FS_Subset, FS_CardinalityType
<1>2. Cardinality(S) <= Cardinality(T)
  BY <1>1, FS_Subset
<1>3. ReplicaNum \div 2 \in Int
  BY ClusterAssumption
<1> QED BY <1>1, <1>2, <1>3

(* A server loses nothing that is confirmed. *)
LEMMA HolderRemains ==
    ASSUME DInv, Next, NEW s \in Shard, NEW r \in Replica,
           NEW t \in confirmed[s], Has(t, s, r)
    PROVE  Has(t, s, r)'
<1> USE DEF DInv, TInv, ServerInv
<1>1. log[s][r] \in Seq(Txn) /\ log[s][0] \in Seq(Txn) /\ t \in ToSet(log[s][r])
  BY Types, Replicas DEF Has
<1> SUFFICES t \in ToSet(log'[s][r])
  BY DEF Has
<1>2. CASE log'[s][r] = log[s][r]
  BY <1>1, <1>2
<1>3. ASSUME r = 0, NEW u \in Txn, LeaderExec(s, u) PROVE t \in ToSet(log'[s][r])
  <2>1. log'[s][r] = Append(log[s][r], u)
    BY <1>3, Replicas DEF LeaderExec, TypeOK
  <2> QED BY <1>1, <2>1, AppendHas
<1>4. CASE InterReplicaSync(s, r)
  <2>1. /\ Len(log[s][r]) < Len(log[s][0])
        /\ log' = [log EXCEPT ![s][r] = Append(log[s][r], log[s][0][Len(log[s][r]) + 1])]
    BY <1>4 DEF InterReplicaSync
  <2>2. log[s][0][Len(log[s][r]) + 1] \in Txn
    BY <1>1, <2>1
  <2>3. log'[s][r] = Append(log[s][r], log[s][0][Len(log[s][r]) + 1])
    BY <2>1 DEF TypeOK
  <2> QED BY <1>1, <2>2, <2>3, AppendHas
<1>5. ASSUME r = NewLeader, RebuildLogs(s) PROVE t \in ToSet(log'[s][r])
  <2>1. CASE log' = [log EXCEPT ![s][NewLeader] = log[s][NewLeader]]
    BY <1>1, <1>5, <2>1 DEF TypeOK
  <2>2. CASE /\ log' = [log EXCEPT ![s][NewLeader] = log[s][Target(s)]]
             /\ Target(s) \in Replica
             /\ Begins(log[s][NewLeader], log[s][Target(s)])
    <3>1. log'[s][r] = log[s][Target(s)] /\ log[s][Target(s)] \in Seq(Txn)
      BY <1>5, <2>2, Types DEF TypeOK
    <3>2. Begins(log[s][r], log[s][Target(s)])
      BY <1>5, <2>2
    <3> QED BY <1>1, <3>1, <3>2, BeginsHas
  <2> QED BY <1>5, <2>1, <2>2, RebuiltIs
<1>6. ASSUME r = NewLeader, LeaderFinalize(s) PROVE t \in ToSet(log'[s][r])
  <2>1. PICK S \in SUBSET Txn : /\ ToSet(log[s][NewLeader]) \subseteq S
                                /\ log' = [log EXCEPT ![s][NewLeader] = ByDeadline(S)]
    BY <1>6, FinalizedIs
  <2>2. log'[s][r] = ByDeadline(S)
    BY <1>6, <2>1 DEF TypeOK
  <2> QED BY <1>1, <1>6, <2>1, <2>2, SortedTxns
<1>7. CASE FollowerFinalize(s, r)
  <2> DEFINE k == startViews[s][r].logBegin - 1
  <2>1. /\ status[s][r] = "WAIT_START_VIEW" /\ startViews[s][r] # None
        /\ log' = [log EXCEPT ![s][r] = SubSeq(log[s][r], 1, k) \o startViews[s][r].txns]
    BY <1>7 DEF FollowerFinalize
  <2>2. startViews[s][r] \in StartView
    BY <2>1 DEF TypeOK
  <2>3. /\ startViews[s][r].txns \in Seq(Txn) /\ k \in Int
        /\ k <= Len(log[s][r])
        /\ \E i \in 1..k : log[s][r][i] = t
    BY <2>1, <2>2 DEF StartView, FitsInv, KeptInv
  <2>4. log'[s][r] = SubSeq(log[s][r], 1, k) \o startViews[s][r].txns
    BY <2>1 DEF TypeOK
  <2> HIDE DEF k
  <2>5. k \in Nat
    BY <2>3
  <2> QED BY <1>1, <2>3, <2>4, <2>5, CutHas
<1> QED BY <1>2, <1>3, <1>4, <1>5, <1>6, <1>7, LogChanges

LEMMA StaysStep ==
    ASSUME DInv, Next
    PROVE  SlowCommitsStay'
<1> SUFFICES ASSUME NEW s \in Shard, NEW t \in confirmed'[s]
             PROVE  SyncedByMajority(t, s)'
  BY DEF SlowCommitsStay
<1> DEFINE Holders == {r \in Replica : Has(t, s, r)}
           After == {r \in Replica : Has(t, s, r)'}
<1>1. Cardinality(Holders) >= ReplicaNum \div 2 + 1 /\ Holders \subseteq After
  <2>1. CASE confirmed'[s] = confirmed[s]
    BY <2>1, HolderRemains DEF DInv, SlowCommitsStay, SyncedByMajority
  <2>2. CASE confirmed'[s] # confirmed[s]
    <3>1. log' = log /\ SyncedByMajority(t, s)
      BY <2>2, ConfirmedOld DEF DInv, TInv, SlowCommitsStay
    <3> QED BY <3>1 DEF SyncedByMajority, Has
  <2> QED BY <2>1, <2>2
<1> HIDE DEF Holders, After
<1>2. Cardinality(After) >= ReplicaNum \div 2 + 1
  <2>1. Holders \in SUBSET Replica /\ After \in SUBSET Replica
    BY DEF Holders, After
  <2> QED BY <1>1, <2>1, MoreReplicas
<1> QED BY <1>2 DEF SyncedByMajority, After

(* When the log has been rebuilt to its length, it has all of that. *)
LEMMA RebuiltHasSynced ==
    ASSUME DInv
    PROVE  SyncedSurvives
<1> SUFFICES ASSUME NEW s \in Shard, NEW t \in Txn, status[s][NewLeader] = "LOG_CONFIRMING",
                    Target(s) = NewLeader, SyncedByMajority(t, s)
             PROVE  Has(t, s, NewLeader)
  BY DEF SyncedSurvives
<1> DEFINE Holders == {r \in Replica : Has(t, s, r)}
<1> USE DEF DInv, TInv, ServerInv
<1>1. /\ \A q \in Replica : SyncPointOf(s, q) = Len(log[s][q]) /\ Len(log[s][q]) \in Nat
      /\ Target(s) \in Replica
  BY SyncPoints
<1>2. Holders \in SUBSET Replica /\ Cardinality(Holders) >= ReplicaNum \div 2 + 1
  BY DEF SyncedByMajority
<1>3. Others \ Alive(s) \subseteq {0}
  BY OnlyTheVictim
<1> HIDE DEF Holders
<1>4. PICK q \in Holders : q \in Involved(s) \cup {NewLeader}
  BY <1>2, <1>3, Replicas, AskedMeetMajority
<1>5. q \in Replica /\ Has(t, s, q)
  BY <1>4 DEF Holders
<1>6. /\ log[s][NewLeader] \in Seq(Txn) /\ log[s][q] \in Seq(Txn) /\ log[s][0] \in Seq(Txn)
      /\ Begins(log[s][NewLeader], log[s][0]) /\ Begins(log[s][q], log[s][0])
  BY <1>5, Replicas, Types DEF OldLogs, Done
<1>7. Len(log[s][q]) <= Len(log[s][NewLeader])
  <2>1. Involved(s) \cup {NewLeader} \subseteq Replica
    BY Asked
  <2>2. SyncPointOf(s, q) <= SyncPointOf(s, Target(s))
    BY <1>1, <1>4, <2>1, TargetIs
  <2> QED BY <1>1, <1>5, <2>2
<1>8. Begins(log[s][q], log[s][NewLeader])
  BY <1>6, <1>7, BeginsCompare
<1> QED BY <1>5, <1>6, <1>8, BeginsHas DEF Has

-----------------------------------------------------------------------------
(* Always.                                                                 *)

LEMMA DInit ==
    ASSUME Init
    PROVE  DInv
<1>1. TInv
  BY TInit
<1>2. ASSUME NEW s \in Shard PROVE OldLogs(s) /\ TransferInv(s) /\ KeptInv(s)
  <2>1. \A r \in Replica : /\ log[s][r] = <<>> /\ status[s][r] = "NORMAL"
                           /\ startViews[s][r] = None
    BY DEF Init, ForServers
  <2>2. NewLeader \in Replica /\ 0 \in Replica
    BY Replicas
  <2>3. OldLogs(s)
    <3>1. \A r \in Replica : Len(log[s][r]) = 0
      BY <2>1
    <3> QED BY <2>2, <3>1 DEF OldLogs, Begins
  <2>4. TransferInv(s)
    BY <2>1, <2>2 DEF TransferInv
  <2>5. KeptInv(s)
    BY <2>1 DEF KeptInv
  <2> QED BY <2>3, <2>4, <2>5
<1>3. SlowCommitsStay
  BY DEF Init, SlowCommitsStay
<1> QED BY <1>1, <1>2, <1>3 DEF DInv

LEMMA DStep ==
    ASSUME DInv, TInv', [Next]_vars
    PROVE  DInv'
<1>1. CASE Next
  <2>1. \A s \in Shard : OldLogs(s)' /\ TransferInv(s)' /\ KeptInv(s)'
    BY <1>1, OldLogsStep, TransferStep, KeptStep
  <2>2. SlowCommitsStay'
    BY <1>1, StaysStep
  <2> QED BY <2>1, <2>2 DEF DInv
<1>2. CASE UNCHANGED vars
  <2>1. UNCHANGED <<log, status, view, viewChanges, transfers, startViews, confirmed>>
    BY <1>2 DEF vars, commitVars, transferVars
  <2>2. SlowCommitsStay'
    BY <2>1 DEF DInv, SlowCommitsStay, SyncedByMajority, Has
  <2>3. ASSUME NEW s \in Shard PROVE OldLogs(s)' /\ TransferInv(s)' /\ KeptInv(s)'
    <3>1. Target(s)' = Target(s)
      BY <2>1, SameTarget
    <3>2. OldLogs(s)'
      BY <2>1 DEF DInv, OldLogs, Done, Begins
    <3>3. TransferInv(s)'
      BY <2>1, <3>1 DEF DInv, TransferInv
    <3>4. KeptInv(s)'
      BY <2>1 DEF DInv, KeptInv, Has
    <3> QED BY <3>2, <3>3, <3>4
  <2> QED BY <2>2, <2>3 DEF DInv
<1> QED BY <1>1, <1>2

LEMMA DataAlways == Spec => []DInv
<1>1. Init => DInv
  BY DInit
<1>2. DInv /\ TInv' /\ [Next]_vars => DInv'
  BY DStep
<1> QED BY <1>1, <1>2, TypesAlways, PTL DEF Spec

(* SyncedSurvives: the servers of the quorum meet every majority of the    *)
(* servers, and until then every log is a beginning of the old leader's,   *)
(* so the one of them that is longest has what a majority has synced; the  *)
(* rebuilt log has it if it is as long.  This holds whatever the values of *)
(* the view ids are, and in whatever order the logs are.                   *)
THEOREM SyncedIsRecovered == Spec => []SyncedSurvives
<1>1. DInv => SyncedSurvives
  BY RebuiltHasSynced
<1> QED BY <1>1, DataAlways, PTL

(* SlowCommitsStay: what a majority of the servers of each shard had       *)
(* synced when a coordinator committed it is with a majority of them in    *)
(* every later state: a follower is never sent a StartView message that    *)
(* begins before it in the follower's log, whichever log is rebuilt.       *)
THEOREM SlowCommitsRemain == Spec => []SlowCommitsStay
<1>1. DInv => SlowCommitsStay
  BY DEF DInv
<1> QED BY <1>1, DataAlways, PTL
=============================================================================
