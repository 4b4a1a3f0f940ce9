----------------------- MODULE TigaReplication_proofs -----------------------
(***************************************************************************)
(* The types of TigaReplication, for any number of servers and             *)
(* transactions.                                                           *)
(***************************************************************************)
EXTENDS TigaReplication, SequenceTheorems, TLAPS

USE DEF logVars, sendVars, statusVars, followerVars

(* A follower is a server that is not the leader. *)
LEMMA IsFollower ==
  ASSUME NEW r \in Follower
  PROVE  r \in Replica /\ r # Leader
  BY DEF Follower, RL!Follower

(* The initial states are well typed. *)
LEMMA TypeInit == Init => TypeOK
  <1> SUFFICES ASSUME Init PROVE TypeOK
    OBVIOUS
  <1>1. <<>> \in Seq(Txn) /\ <<>> \in Seq(SyncMessage)
    BY EmptySeq
  <1> QED BY <1>1 DEF Init, RL!Init, TypeOK, RL!ExecStatus

(* Where there is a message to process, there is one of those put aside.   *)
LEMMA TypeNextPending ==
  ASSUME NEW pending \in SUBSET SyncMessage, NEW next \in Nat
  PROVE  NextPending(pending, next) \in Work \cup {None}
  <1> DEFINE ready == {m \in pending : /\ m.start <= next
                                       /\ \A n \in pending : m.start <= n.start}
  <1>1. CASE ready = {}
    BY <1>1 DEF NextPending
  <1>2. CASE ready # {}
    <2>1. (CHOOSE m \in ready : TRUE) \in SyncMessage
      BY <1>2
    <2>2. NextPending(pending, next) =
            [msg |-> CHOOSE m \in ready : TRUE, i |-> 1, queued |-> TRUE]
      BY <1>2 DEF NextPending
    <2> HIDE DEF ready
    <2> QED BY <2>1, <2>2 DEF Work
  <1> QED BY <1>1, <1>2

(* DetectiveExec keeps the types. *)
LEMMA TypeLeaderExec == TypeOK /\ LeaderExecTd => TypeOK'
  <1> SUFFICES ASSUME TypeOK, LeaderExecTd PROVE TypeOK'
    OBVIOUS
  <1>1. Leader \in Replica
    BY ReplicaAssumption
  <1>2. /\ execStatus \in [Txn -> RL!ExecStatus]
        /\ specLogId \in [Txn -> Nat]
        /\ log \in [Replica -> Seq(Txn)]
        /\ nextSpecLogId \in [Replica -> Nat]
    BY DEF TypeOK
  <1>3. PICK t \in Txn : RL!ExecSpec(t) \/ RL!ExecCommit(t) \/ RL!ExecRollback(t) \/ RL!ExecDirect(t)
    BY DEF LeaderExecTd, RL!LeaderExecTd
  <1>4. Append(log[Leader], t) \in Seq(Txn)
    BY <1>1, <1>2, AppendProperties
  <1>5. nextSpecLogId[Leader] \in Nat /\ nextSpecLogId[Leader] + 1 \in Nat
    BY <1>1, <1>2
  <1>6. execStatus' \in [Txn -> RL!ExecStatus]
    BY <1>2, <1>3 DEF RL!ExecSpec, RL!ExecCommit, RL!ExecRollback, RL!ExecDirect, RL!ExecStatus
  <1>7. specLogId' \in [Txn -> Nat] /\ nextSpecLogId' \in [Replica -> Nat]
    BY <1>2, <1>3, <1>5 DEF RL!ExecSpec, RL!ExecCommit, RL!ExecRollback, RL!ExecDirect
  <1>8. log' \in [Replica -> Seq(Txn)]
    BY <1>2, <1>3, <1>4 DEF RL!ExecSpec, RL!ExecCommit, RL!ExecRollback, RL!ExecDirect
  <1> QED BY <1>6, <1>7, <1>8 DEF TypeOK, LeaderExecTd

(* The piece of the log that the leader sends. *)
LEMMA TypePiece ==
  ASSUME TypeOK
  PROVE  [start |-> broadcastSynced + 1,
          entries |-> SubSeq(log[Leader], broadcastSynced + 1, Len(log[Leader])),
          commitPoint |-> commitPoint[Leader]] \in SyncMessage
  <1>1. Leader \in Replica
    BY ReplicaAssumption
  <1>2. log \in [Replica -> Seq(Txn)] /\ commitPoint \in [Replica -> Nat] /\ broadcastSynced \in Nat
    BY DEF TypeOK
  <1>3. log[Leader] \in Seq(Txn) /\ Len(log[Leader]) \in Nat
    BY <1>1, <1>2, LenProperties
  <1>4. \A i \in (broadcastSynced + 1)..Len(log[Leader]) : log[Leader][i] \in Txn
    <2> TAKE i \in (broadcastSynced + 1)..Len(log[Leader])
    <2>1. i \in 1..Len(log[Leader])
      BY <1>2, <1>3
    <2> QED BY <1>3, <2>1, ElementOfSeq
  <1>5. SubSeq(log[Leader], broadcastSynced + 1, Len(log[Leader])) \in Seq(Txn)
    BY <1>2, <1>3, <1>4, SubSeqProperties
  <1>6. commitPoint[Leader] \in Nat
    BY <1>1, <1>2
  <1> QED BY <1>2, <1>5, <1>6 DEF SyncMessage

(* LeaderCrossReplicaSyncTd keeps them. *)
LEMMA TypeLeaderSync == TypeOK /\ LeaderCrossReplicaSyncTd => TypeOK'
  <1> SUFFICES ASSUME TypeOK, LeaderCrossReplicaSyncTd PROVE TypeOK'
    OBVIOUS
  <1> DEFINE m == [start |-> broadcastSynced + 1,
                   entries |-> SubSeq(log[Leader], broadcastSynced + 1, Len(log[Leader])),
                   commitPoint |-> commitPoint[Leader]]
  <1>1. m \in SyncMessage
    BY TypePiece
  <1>2. syncNet' = [r \in Follower |-> Append(syncNet[r], m)]
    BY DEF LeaderCrossReplicaSyncTd
  <1> HIDE DEF m
  <1>3. syncNet \in [Follower -> Seq(SyncMessage)]
    BY DEF TypeOK
  <1>4. \A r \in Follower : Append(syncNet[r], m) \in Seq(SyncMessage)
    BY <1>1, <1>3, AppendProperties
  <1>5. syncNet' \in [Follower -> Seq(SyncMessage)]
    BY <1>2, <1>4
  <1>6. broadcastSynced' \in Nat /\ broadcastCommitted' \in Nat
    <2>1. Leader \in Replica /\ log \in [Replica -> Seq(Txn)] /\ commitPoint \in [Replica -> Nat]
      BY ReplicaAssumption DEF TypeOK
    <2>2. Len(log[Leader]) \in Nat /\ commitPoint[Leader] \in Nat
      BY <2>1, LenProperties
    <2> QED BY <2>2 DEF LeaderCrossReplicaSyncTd
  <1> QED BY <1>5, <1>6 DEF TypeOK, LeaderCrossReplicaSyncTd

(* onSyncStatus keeps them. *)
LEMMA TypeSyncStatus ==
  ASSUME TypeOK, NEW r \in Follower, SyncStatus(r)
  PROVE  TypeOK'
  <1>1. r \in Replica /\ Leader \in Replica
    BY IsFollower, ReplicaAssumption
  <1>2. /\ log \in [Replica -> Seq(Txn)]
        /\ commitPoint \in [Replica -> Nat]
        /\ syncPoints \in [Replica -> Nat]
        /\ reports \in [Follower -> Nat \cup {None}]
    BY DEF TypeOK
  <1>3. reports[r] \in Nat /\ Len(log[Leader]) \in Nat
    BY <1>1, <1>2, LenProperties DEF SyncStatus
  <1>4. reports' \in [Follower -> Nat \cup {None}]
    BY <1>2 DEF SyncStatus
  <1> DEFINE points == [syncPoints EXCEPT ![r] = reports[r], ![Leader] = Len(log[Leader])]
  <1>5. points \in [Replica -> Nat]
    BY <1>1, <1>2, <1>3
  <1>6. syncPoints' \in [Replica -> Nat] /\ commitPoint' \in [Replica -> Nat]
    <2>1. CASE syncPoints[r] < reports[r]
      <3>1. syncPoints' = points
        BY <2>1 DEF SyncStatus
      <3>2. PICK point \in AtRank(points, Cardinality(Replica) \div 2 + 1) :
              commitPoint' = [commitPoint EXCEPT ![Leader] = IF @ < point THEN point ELSE @]
        BY <2>1 DEF SyncStatus
      <3> HIDE DEF points
      <3>3. point \in Nat
        BY <1>5, <3>2 DEF AtRank
      <3> QED BY <1>1, <1>2, <1>5, <3>1, <3>2, <3>3
    <2>2. CASE ~ (syncPoints[r] < reports[r])
      BY <1>2, <2>2 DEF SyncStatus
    <2> QED BY <2>1, <2>2
  <1> QED BY <1>4, <1>6 DEF TypeOK, SyncStatus

(* onInterReplicaSync keeps them. *)
LEMMA TypeInterReplicaSync ==
  ASSUME TypeOK, NEW r \in Follower, InterReplicaSync(r)
  PROVE  TypeOK'
  <1>1. /\ syncNet \in [Follower -> Seq(SyncMessage)]
        /\ pendingSyncs \in [Follower -> SUBSET SyncMessage]
        /\ current \in [Follower -> Work \cup {None}]
        /\ log \in [Replica -> Seq(Txn)]
    BY DEF TypeOK
  <1>2. Head(syncNet[r]) \in SyncMessage /\ Tail(syncNet[r]) \in Seq(SyncMessage)
    BY <1>1, HeadTailProperties DEF InterReplicaSync
  <1>3. syncNet' \in [Follower -> Seq(SyncMessage)]
    BY <1>1, <1>2 DEF InterReplicaSync
  <1>4. pendingSyncs' \in [Follower -> SUBSET SyncMessage] /\ current' \in [Follower -> Work \cup {None}]
    <2> DEFINE m == Head(syncNet[r])
    <2>1. CASE /\ pendingSyncs' = [pendingSyncs EXCEPT ![r] = PutAside(@, m)]
               /\ current' = [current EXCEPT ![r] =
                                 NextPending(pendingSyncs'[r], NextSyncedLogId(r))]
      <3>1. PutAside(pendingSyncs[r], m) \in SUBSET SyncMessage
        BY <1>1, <1>2 DEF PutAside
      <3>2. pendingSyncs' \in [Follower -> SUBSET SyncMessage]
        BY <1>1, <2>1, <3>1
      <3>3. NextSyncedLogId(r) \in Nat
        BY <1>1, IsFollower, LenProperties DEF NextSyncedLogId, RL!NextSyncedLogId
      <3>4. PICK p \in SUBSET SyncMessage : p = pendingSyncs'[r]
        BY <3>2
      <3>5. NextPending(p, NextSyncedLogId(r)) \in Work \cup {None}
        BY <3>3, TypeNextPending
      <3> QED BY <1>1, <2>1, <3>2, <3>4, <3>5
    <2>2. CASE /\ current' = [current EXCEPT ![r] = [msg |-> m, i |-> 1, queued |-> FALSE]]
               /\ UNCHANGED pendingSyncs
      <3>1. [msg |-> m, i |-> 1, queued |-> FALSE] \in Work
        BY <1>2 DEF Work
      <3> QED BY <1>1, <2>2, <3>1
    <2> QED BY <2>1, <2>2 DEF InterReplicaSync
  <1> QED BY <1>3, <1>4 DEF TypeOK, InterReplicaSync

(* ProcessPendingInterReplicaSync keeps them. *)
LEMMA TypeRetryPending ==
  ASSUME TypeOK, NEW r \in Follower, RetryPending(r)
  PROVE  TypeOK'
  <1>1. /\ pendingSyncs[r] \in SUBSET SyncMessage
        /\ current \in [Follower -> Work \cup {None}]
        /\ log \in [Replica -> Seq(Txn)]
    BY DEF TypeOK
  <1>2. NextSyncedLogId(r) \in Nat
    BY <1>1, IsFollower, LenProperties DEF NextSyncedLogId, RL!NextSyncedLogId
  <1>3. NextPending(pendingSyncs[r], NextSyncedLogId(r)) \in Work \cup {None}
    BY <1>1, <1>2, TypeNextPending
  <1>4. current' \in [Follower -> Work \cup {None}]
    BY <1>1, <1>3 DEF RetryPending
  <1> QED BY <1>4 DEF TypeOK, RetryPending

(* What a follower is working on. *)
LEMMA TypeWork ==
  ASSUME TypeOK, NEW r \in Follower, current[r] # None
  PROVE  /\ current[r] \in Work
         /\ current[r].msg \in SyncMessage
         /\ current[r].msg.entries \in Seq(Txn)
         /\ current[r].msg.start \in Nat /\ Len(current[r].msg.entries) \in Nat
         /\ current[r].i \in Nat \ {0}
         /\ current[r].queued \in BOOLEAN
         /\ [current[r] EXCEPT !.i = @ + 1] \in Work
  <1>1. current[r] \in Work
    BY DEF TypeOK
  <1>2. current[r].msg \in SyncMessage /\ current[r].i \in Nat \ {0} /\ current[r].queued \in BOOLEAN
    BY <1>1 DEF Work
  <1>3. current[r].msg.entries \in Seq(Txn) /\ current[r].msg.start \in Nat
    BY <1>2 DEF SyncMessage
  <1>4. [current[r] EXCEPT !.i = @ + 1] \in Work
    BY <1>1 DEF Work
  <1> QED BY <1>1, <1>2, <1>3, <1>4, LenProperties

(* An entry of a message, in ProcessInterReplicaSync, keeps them. *)
LEMMA TypeSyncEntry ==
  ASSUME TypeOK, NEW r \in Follower, SyncEntry(r)
  PROVE  TypeOK'
  <1> DEFINE c == current[r]
             t == c.msg.entries[c.i]
  <1>1. /\ log \in [Replica -> Seq(Txn)]
        /\ pendingSyncs \in [Follower -> SUBSET SyncMessage]
        /\ current \in [Follower -> Work \cup {None}]
        /\ pendingSpecLogIds \in [Follower -> SUBSET (Nat \ {0})]
        /\ specLogId \in [Txn -> Nat]
    BY DEF TypeOK
  <1>2. /\ c \in Work /\ c.msg \in SyncMessage
        /\ [c EXCEPT !.i = @ + 1] \in Work
        /\ t \in Txn
    <2>1. c # None /\ c.i <= Len(c.msg.entries)
      BY DEF SyncEntry
    <2>2. /\ c \in Work /\ c.msg \in SyncMessage
          /\ c.msg.entries \in Seq(Txn) /\ Len(c.msg.entries) \in Nat
          /\ c.i \in Nat \ {0}
          /\ [c EXCEPT !.i = @ + 1] \in Work
      BY <2>1, TypeWork
    <2>3. c.i \in 1..Len(c.msg.entries)
      BY <2>1, <2>2
    <2>4. t \in Txn
      BY <2>2, <2>3, ElementOfSeq
    <2> QED BY <2>2, <2>4
  <1>3. pendingSpecLogIds' \in [Follower -> SUBSET (Nat \ {0})]
    <2>1. SpecIds(t) \in SUBSET (Nat \ {0})
      BY <1>1, <1>2 DEF SpecIds
    <2>2. pendingSpecLogIds[r] \cup SpecIds(t) \in SUBSET (Nat \ {0})
      BY <1>1, <2>1
    <2>3. pendingSpecLogIds' = [pendingSpecLogIds EXCEPT ![r] = @ \cup SpecIds(t)]
      BY DEF SyncEntry
    <2> HIDE DEF t
    <2> QED BY <1>1, <2>2, <2>3
  <1>4. r \in Replica /\ NextSyncedLogId(r) \in Nat /\ Append(log[r], t) \in Seq(Txn)
    BY <1>1, <1>2, IsFollower, LenProperties, AppendProperties
       DEF NextSyncedLogId, RL!NextSyncedLogId
  <1>5. log' \in [Replica -> Seq(Txn)]
    <2>1. log' = log \/ log' = [log EXCEPT ![r] = Append(@, t)]
      BY DEF SyncEntry
    <2> HIDE DEF t
    <2> QED BY <1>1, <1>4, <2>1
  <1>6. pendingSyncs' \in [Follower -> SUBSET SyncMessage]
    <2>1. \/ pendingSyncs' = pendingSyncs
          \/ pendingSyncs' = [pendingSyncs EXCEPT ![r] =
                 IF \E m \in @ : m.start = c.msg.start THEN @ ELSE @ \cup {c.msg}]
      BY DEF SyncEntry
    <2>2. pendingSyncs[r] \cup {c.msg} \in SUBSET SyncMessage
      BY <1>1, <1>2
    <2> HIDE DEF c
    <2> QED BY <1>1, <2>1, <2>2
  <1>7. current' \in [Follower -> Work \cup {None}]
    <2>1. \E w : /\ current' = [current EXCEPT ![r] = w]
                 /\ \/ w = [c EXCEPT !.i = @ + 1]
                    \/ w = None
                    \/ w = NextPending(pendingSyncs'[r], NextSyncedLogId(r))
      BY DEF SyncEntry
    <2>2. PICK p \in SUBSET SyncMessage : p = pendingSyncs'[r]
      BY <1>6
    <2>3. NextPending(p, NextSyncedLogId(r)) \in Work \cup {None}
      BY <1>4, TypeNextPending
    <2> HIDE DEF c
    <2> QED BY <1>1, <1>2, <2>1, <2>2, <2>3
  <1> QED BY <1>3, <1>5, <1>6, <1>7 DEF TypeOK, SyncEntry

(* A speculative id of a message keeps them. *)
LEMMA TypeSyncSpecLogId ==
  ASSUME TypeOK, NEW r \in Follower, SyncSpecLogId(r)
  PROVE  TypeOK'
  <1>1. /\ nextSpecLogId \in [Replica -> Nat] /\ r \in Replica
        /\ pendingSpecLogIds \in [Follower -> SUBSET (Nat \ {0})]
    BY IsFollower DEF TypeOK
  <1>2. nextSpecLogId' \in [Replica -> Nat]
    BY <1>1 DEF SyncSpecLogId
  <1>3. pendingSpecLogIds[r] \ {nextSpecLogId[r]} \in SUBSET (Nat \ {0})
    BY <1>1
  <1>4. pendingSpecLogIds' \in [Follower -> SUBSET (Nat \ {0})]
    BY <1>1, <1>3 DEF SyncSpecLogId
  <1> QED BY <1>2, <1>4 DEF TypeOK, SyncSpecLogId

(* The end of ProcessInterReplicaSync keeps them. *)
LEMMA TypeSyncDone ==
  ASSUME TypeOK, NEW r \in Follower, SyncDone(r)
  PROVE  TypeOK'
  <1>1. /\ commitPoint \in [Replica -> Nat] /\ r \in Replica
        /\ pendingSyncs \in [Follower -> SUBSET SyncMessage]
        /\ current \in [Follower -> Work \cup {None}]
        /\ log \in [Replica -> Seq(Txn)]
    BY IsFollower DEF TypeOK
  <1>2. current[r].msg.commitPoint \in Nat
    BY TypeWork DEF SyncDone, SyncMessage
  <1>3. commitPoint' \in [Replica -> Nat]
    BY <1>1, <1>2 DEF SyncDone
  <1>4. pendingSyncs' \in [Follower -> SUBSET SyncMessage]
    <2>1. pendingSyncs[r] \ {current[r].msg} \in SUBSET SyncMessage
      BY <1>1
    <2> QED BY <1>1, <2>1 DEF SyncDone
  <1>5. PICK p \in SUBSET SyncMessage : p = pendingSyncs'[r]
    BY <1>4
  <1>6. NextPending(p, NextSyncedLogId(r)) \in Work \cup {None}
    <2>1. NextSyncedLogId(r) \in Nat
      BY <1>1, LenProperties DEF NextSyncedLogId, RL!NextSyncedLogId
    <2> QED BY <2>1, TypeNextPending
  <1>7. current' \in [Follower -> Work \cup {None}]
    BY <1>1, <1>5, <1>6 DEF SyncDone
  <1> QED BY <1>3, <1>4, <1>7 DEF TypeOK, SyncDone

(* Every step keeps the types. *)
LEMMA TypeNext == TypeOK /\ [Next]_vars => TypeOK'
  <1> SUFFICES ASSUME TypeOK, [Next]_vars PROVE TypeOK'
    OBVIOUS
  <1>1. CASE LeaderExecTd
    BY <1>1, TypeLeaderExec
  <1>2. CASE LeaderCrossReplicaSyncTd
    BY <1>2, TypeLeaderSync
  <1>3. ASSUME NEW r \in Follower, SyncStatus(r) PROVE TypeOK'
    BY <1>3, TypeSyncStatus
  <1>4. ASSUME NEW r \in Follower, NEW t \in Txn, ReceiveRequest(r, t) PROVE TypeOK'
    <2>1. cmdMap \in [Follower -> SUBSET Txn]
      BY DEF TypeOK
    <2>2. cmdMap[r] \cup {t} \in SUBSET Txn
      BY <2>1
    <2>3. cmdMap' \in [Follower -> SUBSET Txn]
      BY <1>4, <2>1, <2>2 DEF ReceiveRequest
    <2> QED BY <1>4, <2>3 DEF ReceiveRequest, TypeOK
  <1>5. ASSUME NEW r \in Follower, FollowerSync(r) PROVE TypeOK'
    BY <1>5, TypeInterReplicaSync, TypeRetryPending, TypeSyncEntry, TypeSyncSpecLogId,
       TypeSyncDone DEF FollowerSync
  <1>6. ASSUME NEW r \in Follower, ReportSyncStatus(r) PROVE TypeOK'
    <2>1. reports \in [Follower -> Nat \cup {None}] /\ log \in [Replica -> Seq(Txn)]
      BY DEF TypeOK
    <2>2. Len(log[r]) \in Nat
      BY <2>1, IsFollower, LenProperties
    <2>3. reports' \in [Follower -> Nat \cup {None}]
      BY <1>6, <2>1, <2>2 DEF ReportSyncStatus
    <2> QED BY <1>6, <2>3 DEF ReportSyncStatus, TypeOK
  <1>7. CASE UNCHANGED vars
    BY <1>7 DEF vars, TypeOK
  <1> QED BY <1>1, <1>2, <1>3, <1>4, <1>5, <1>6, <1>7 DEF Next

(* Every variable always holds values of the types of the program's        *)
(* fields.                                                                 *)
THEOREM TypeCorrect == Spec => []TypeOK
  <1> QED BY TypeInit, TypeNext, PTL DEF Spec
=============================================================================
