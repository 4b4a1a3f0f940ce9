------------------------ MODULE TigaSyncedLog_proofs ------------------------
(***************************************************************************)
(* The followers of a shard follow the log of its leader, for any number   *)
(* of servers and transactions: TigaReplication implements ReplicatedLog.  *)
(*                                                                         *)
(* The invariant says what the messages between leader and followers hold, *)
(* in which order they are processed, and where in the log the speculative *)
(* ids are that a follower has noted.  With what a follower still holds,   *)
(* and has still to count, it shows that no piece of the log is lost.      *)
(***************************************************************************)
EXTENDS TigaReplication_proofs, WellFoundedInduction

USE DEF logVars, sendVars, statusVars, followerVars

-----------------------------------------------------------------------------
(* The inductive invariant.                                                *)

(* The first log id after a message. *)
End(m) == m.start + Len(m.entries)

(* A message holds what the leader's log has from its start on. *)
FromLog(m) ==
    /\ m.start >= 1
    /\ End(m) <= NextSyncedLogId(Leader)
    /\ \A i \in 1..Len(m.entries) : m.entries[i] = log[Leader][m.start + i - 1]

(* The messages on their way to r follow each other without a gap. *)
NetInv(r) ==
    \A k \in 1..Len(syncNet[r]) :
        /\ FromLog(syncNet[r][k])
        /\ End(syncNet[r][k]) =
              (IF k < Len(syncNet[r]) THEN syncNet[r][k + 1].start
                                      ELSE broadcastSynced + 1)

(* The log id after what r received. *)
NextReceived(r) ==
    IF syncNet[r] = <<>> THEN broadcastSynced + 1 ELSE syncNet[r][1].start

IsLowest(m, pending) == \A n \in pending : m.start <= n.start

(* The messages put aside were received, and follow each other. *)
PendingInv(r) ==
    \A m \in pendingSyncs[r] :
        /\ FromLog(m)
        /\ End(m) <= NextReceived(r)
        /\ \A n \in pendingSyncs[r] : m = n \/ End(m) <= n.start \/ End(n) <= m.start
        /\ \A n \in pendingSyncs[r] : m.start = n.start => m = n

(* The next entry that r needs is in message m. *)
HasNext(m, r) == m.start <= NextSyncedLogId(r) /\ NextSyncedLogId(r) < End(m)

(* A message is processed up to what is synced, the lowest of those put    *)
(* aside first; none is left aside that could be processed to its end.     *)
IdleInv(r) ==
    current[r] = None =>
        \A m \in pendingSyncs[r] : NextSyncedLogId(r) < m.start \/ HasNext(m, r)

WorkInv(r) ==
    current[r] # None =>
        /\ FromLog(current[r].msg)
        /\ current[r].i \in 1..(Len(current[r].msg.entries) + 1)
        /\ current[r].msg.start + current[r].i - 1 <= NextSyncedLogId(r)
        /\ current[r].queued =>
              /\ current[r].msg \in pendingSyncs[r]
              /\ IsLowest(current[r].msg, pendingSyncs[r])
        /\ ~ current[r].queued =>
              /\ pendingSyncs[r] = {}
              /\ End(current[r].msg) <= NextReceived(r)

(* A noted speculative id is that of an entry in r's log, or of the entry   *)
(* that r misses the request of.                                            *)
Blocked(r) ==
    \E m \in pendingSyncs[r] : HasNext(m, r) /\ IsLowest(m, pendingSyncs[r])

SpecIdInv(r) ==
    \A n \in pendingSpecLogIds[r] : \E p \in 1..Len(log[Leader]) :
        /\ specLogId[log[Leader][p]] = n
        /\ p < NextSyncedLogId(r) \/ (p = NextSyncedLogId(r) /\ Blocked(r))

FollowerInv(r) == NetInv(r) /\ PendingInv(r) /\ IdleInv(r) /\ WorkInv(r) /\ SpecIdInv(r)

(* The speculative ids are those of different transactions, and no logged  *)
(* transaction gets another one.                                           *)
SpecInv ==
    /\ \A t \in Txn : specLogId[t] < nextSpecLogId[Leader]
    /\ \A t \in Txn : execStatus[t] = "EXEC_INIT" => ~ InLog(Leader, t)
    /\ \A t \in Txn : execStatus[t] = "EXEC_INIT" => specLogId[t] = 0
    /\ \A t, u \in Txn : specLogId[t] = specLogId[u] => specLogId[t] = 0 \/ t = u
    /\ \A r \in Follower : nextSpecLogId[r] <= nextSpecLogId[Leader]

LogInv == SyncedIsPrefix /\ SpecInv /\ SpecCounterCovered

IInv ==
    /\ TypeOK
    /\ broadcastSynced <= Len(log[Leader])
    /\ LogInv
    /\ \A r \in Follower : FollowerInv(r)

-----------------------------------------------------------------------------
(* What the proofs need to know of the types. *)
LEMMA MessageTypes ==
  ASSUME NEW m \in SyncMessage
  PROVE  /\ m.start \in Nat /\ m.entries \in Seq(Txn) /\ Len(m.entries) \in Nat
         /\ End(m) \in Nat /\ m.start <= End(m)
  <1>1. m.start \in Nat /\ m.entries \in Seq(Txn)
    BY DEF SyncMessage
  <1>2. Len(m.entries) \in Nat
    BY <1>1, LenProperties
  <1> QED BY <1>1, <1>2 DEF End

(* The counters of a log, and where they are in it. *)
LEMMA LogTypes ==
  ASSUME TypeOK, NEW r \in Replica
  PROVE  /\ log[r] \in Seq(Txn) /\ Len(log[r]) \in Nat
         /\ NextSyncedLogId(r) = Len(log[r]) + 1
         /\ \A i \in 1..Len(log[r]) : log[r][i] \in Txn
  <1>1. log[r] \in Seq(Txn)
    BY DEF TypeOK
  <1>2. Len(log[r]) \in Nat /\ \A i \in 1..Len(log[r]) : log[r][i] \in Txn
    BY <1>1, LenProperties
  <1> QED BY <1>1, <1>2 DEF NextSyncedLogId, RL!NextSyncedLogId

(* The types of what a follower keeps. *)
LEMMA FollowerTypes ==
  ASSUME TypeOK, NEW r \in Follower
  PROVE  /\ syncNet[r] \in Seq(SyncMessage) /\ Len(syncNet[r]) \in Nat
         /\ \A k \in 1..Len(syncNet[r]) : syncNet[r][k] \in SyncMessage
         /\ pendingSyncs[r] \in SUBSET SyncMessage
         /\ pendingSpecLogIds[r] \in SUBSET (Nat \ {0})
         /\ broadcastSynced \in Nat
  <1>1. syncNet[r] \in Seq(SyncMessage)
    BY DEF TypeOK
  <1>2. Len(syncNet[r]) \in Nat /\ \A k \in 1..Len(syncNet[r]) : syncNet[r][k] \in SyncMessage
    BY <1>1, LenProperties
  <1> QED BY <1>1, <1>2 DEF TypeOK

(* The invariant at a follower depends on nothing but what follows. *)
LEMMA Frame ==
  ASSUME NEW r \in Follower, FollowerInv(r),
         log'[r] = log[r], log'[Leader] = log[Leader], specLogId' = specLogId,
         broadcastSynced' = broadcastSynced, syncNet'[r] = syncNet[r],
         pendingSyncs'[r] = pendingSyncs[r], current'[r] = current[r],
         pendingSpecLogIds'[r] = pendingSpecLogIds[r]
  PROVE  FollowerInv(r)'
  <1>1. NextSyncedLogId(r)' = NextSyncedLogId(r) /\ NextSyncedLogId(Leader)' = NextSyncedLogId(Leader)
    BY DEF NextSyncedLogId, RL!NextSyncedLogId
  <1>2. \A m : FromLog(m)' <=> FromLog(m)
    BY <1>1 DEF FromLog, End
  <1>3. \A m : HasNext(m, r)' <=> HasNext(m, r)
    BY <1>1 DEF HasNext, End
  <1>4. NextReceived(r)' = NextReceived(r)
    BY DEF NextReceived
  <1>5. NetInv(r)'
    BY <1>2 DEF FollowerInv, NetInv, End
  <1>6. PendingInv(r)'
    BY <1>2, <1>4 DEF FollowerInv, PendingInv, End
  <1>7. IdleInv(r)'
    BY <1>1, <1>3 DEF FollowerInv, IdleInv
  <1>8. WorkInv(r)'
    BY <1>1, <1>2, <1>4 DEF FollowerInv, WorkInv, End, IsLowest
  <1>9. SpecIdInv(r)'
    BY <1>1, <1>3 DEF FollowerInv, SpecIdInv, Blocked, IsLowest
  <1> QED BY <1>5, <1>6, <1>7, <1>8, <1>9 DEF FollowerInv

(* It holds on when the leader's log grows. *)
LEMMA LogGrows ==
  ASSUME TypeOK, TypeOK', NEW r \in Follower, FollowerInv(r), log'[r] = log[r],
         Len(log[Leader]) <= Len(log'[Leader]),
         \A p \in 1..Len(log[Leader]) :
            /\ log'[Leader][p] = log[Leader][p]
            /\ specLogId'[log[Leader][p]] = specLogId[log[Leader][p]],
         broadcastSynced' = broadcastSynced, syncNet'[r] = syncNet[r],
         pendingSyncs'[r] = pendingSyncs[r], current'[r] = current[r],
         pendingSpecLogIds'[r] = pendingSpecLogIds[r]
  PROVE  FollowerInv(r)'
  <1>1. /\ NextSyncedLogId(r)' = NextSyncedLogId(r)
        /\ NextSyncedLogId(Leader) \in Nat /\ NextSyncedLogId(Leader)' \in Nat
        /\ NextSyncedLogId(Leader) <= NextSyncedLogId(Leader)'
        /\ Len(log[Leader]) \in Nat /\ Len(log'[Leader]) \in Nat
        /\ NextSyncedLogId(Leader) = Len(log[Leader]) + 1
    <2>1. log[Leader] \in Seq(Txn) /\ log'[Leader] \in Seq(Txn)
      BY ReplicaAssumption DEF TypeOK
    <2>2. Len(log[Leader]) \in Nat /\ Len(log'[Leader]) \in Nat
      BY <2>1, LenProperties
    <2> QED BY <2>2 DEF NextSyncedLogId, RL!NextSyncedLogId
  <1>2. ASSUME NEW m \in SyncMessage, FromLog(m) PROVE FromLog(m)'
    <2>1. m.start \in Nat /\ Len(m.entries) \in Nat
      BY MessageTypes
    <2>2. m.start >= 1 /\ End(m) <= NextSyncedLogId(Leader)'
      BY <1>1, <1>2, <2>1 DEF FromLog, End
    <2>3. \A i \in 1..Len(m.entries) : m.entries[i] = log'[Leader][m.start + i - 1]
      <3> TAKE i \in 1..Len(m.entries)
      <3>1. m.start + i - 1 \in 1..Len(log[Leader])
        BY SMTT(30), <1>1, <1>2, <2>1 DEF FromLog, End
      <3> QED BY <1>2, <3>1 DEF FromLog
    <2> QED BY <2>2, <2>3 DEF FromLog, End
  <1>3. \A m : HasNext(m, r)' <=> HasNext(m, r)
    BY <1>1 DEF HasNext, End
  <1>4. NextReceived(r)' = NextReceived(r)
    BY DEF NextReceived
  <1>5. NetInv(r)'
    BY <1>2, FollowerTypes DEF FollowerInv, NetInv, End
  <1>6. PendingInv(r)'
    BY <1>2, <1>4, FollowerTypes DEF FollowerInv, PendingInv, End
  <1>7. IdleInv(r)'
    BY <1>1, <1>3 DEF FollowerInv, IdleInv
  <1>8. WorkInv(r)'
    <2>1. CASE current[r] = None
      BY <2>1 DEF WorkInv
    <2>2. CASE current[r] # None
      <3>1. FromLog(current[r].msg)'
        <4>1. current[r].msg \in SyncMessage
          BY <2>2, TypeWork
        <4>2. \A m \in SyncMessage : m = current[r].msg /\ FromLog(m) => FromLog(m)'
          BY <1>2
        <4>3. FromLog(current[r].msg)
          BY <2>2 DEF FollowerInv, WorkInv
        <4>4. PICK m \in SyncMessage : m = current[r].msg
          BY <4>1
        <4>5. FromLog(m)'
          BY <1>2, <4>3, <4>4
        <4> QED BY <4>4, <4>5 DEF FromLog, End
      <3> QED BY <1>1, <1>4, <2>2, <3>1 DEF FollowerInv, WorkInv, End, IsLowest
    <2> QED BY <2>1, <2>2
  <1>9. SpecIdInv(r)'
    <2> SUFFICES ASSUME NEW n \in pendingSpecLogIds[r]
                 PROVE  \E p \in 1..Len(log'[Leader]) :
                          /\ specLogId'[log'[Leader][p]] = n
                          /\ p < NextSyncedLogId(r)
                             \/ (p = NextSyncedLogId(r) /\ Blocked(r)')
      BY <1>1 DEF SpecIdInv
    <2>1. PICK p \in 1..Len(log[Leader]) :
            /\ specLogId[log[Leader][p]] = n
            /\ p < NextSyncedLogId(r) \/ (p = NextSyncedLogId(r) /\ Blocked(r))
      BY DEF FollowerInv, SpecIdInv
    <2>2. Blocked(r) => Blocked(r)'
      BY <1>3 DEF Blocked, IsLowest
    <2>3. p \in 1..Len(log'[Leader])
      BY <1>1
    <2>4. specLogId'[log'[Leader][p]] = n
      BY <2>1
    <2> QED BY <2>1, <2>2, <2>3, <2>4
  <1> QED BY <1>5, <1>6, <1>7, <1>8, <1>9 DEF FollowerInv

(* The commands of the leader. *)
LEMMA FollowerInvLeaderExec ==
  ASSUME IInv, TypeOK', LeaderExecTd, NEW r \in Follower
  PROVE  FollowerInv(r)'
  <1>1. PICK t \in Txn : RL!ExecSpec(t) \/ RL!ExecCommit(t) \/ RL!ExecRollback(t) \/ RL!ExecDirect(t)
    BY DEF LeaderExecTd, RL!LeaderExecTd
  <1>2. /\ TypeOK /\ FollowerInv(r) /\ r \in Replica /\ r # Leader /\ Leader \in Replica
        /\ log \in [Replica -> Seq(Txn)] /\ specLogId \in [Txn -> Nat]
    BY IsFollower, ReplicaAssumption DEF IInv, TypeOK
  <1>3. /\ log[Leader] \in Seq(Txn) /\ Len(log[Leader]) \in Nat
        /\ \A p \in 1..Len(log[Leader]) : log[Leader][p] \in Txn
    BY <1>2, LogTypes
  <1>4. log'[r] = log[r]
    BY <1>1, <1>2 DEF RL!ExecSpec, RL!ExecCommit, RL!ExecRollback, RL!ExecDirect
  <1>5. /\ Len(log[Leader]) <= Len(log'[Leader])
        /\ \A p \in 1..Len(log[Leader]) : log'[Leader][p] = log[Leader][p]
    <2>1. log' = log \/ log' = [log EXCEPT ![Leader] = Append(@, t)]
      BY <1>1 DEF RL!ExecSpec, RL!ExecCommit, RL!ExecRollback, RL!ExecDirect
    <2>2. /\ Len(Append(log[Leader], t)) = Len(log[Leader]) + 1
          /\ \A p \in 1..Len(log[Leader]) : Append(log[Leader], t)[p] = log[Leader][p]
      BY <1>3, AppendProperties
    <2>3. log'[Leader] = log[Leader] \/ log'[Leader] = Append(log[Leader], t)
      BY <1>2, <2>1
    <2> QED BY <1>3, <2>2, <2>3
  <1>6. \A p \in 1..Len(log[Leader]) : specLogId'[log[Leader][p]] = specLogId[log[Leader][p]]
    <2> TAKE p \in 1..Len(log[Leader])
    <2>1. CASE UNCHANGED specLogId
      BY <2>1
    <2>2. CASE RL!ExecSpec(t)
      <3>1. execStatus[t] = "EXEC_INIT"
        BY <2>2 DEF RL!ExecSpec
      <3>2. ~ InLog(Leader, t)
        BY <3>1 DEF IInv, LogInv, SpecInv
      <3>3. DOMAIN log[Leader] = 1..Len(log[Leader])
        BY <1>3, LenProperties
      <3>4. log[Leader][p] # t
        BY <3>2, <3>3 DEF InLog, RL!InLog
      <3>5. \E n : specLogId' = [specLogId EXCEPT ![t] = n]
        BY <2>2 DEF RL!ExecSpec
      <3> QED BY <1>2, <1>3, <3>4, <3>5
    <2> QED BY <1>1, <2>1, <2>2 DEF RL!ExecCommit, RL!ExecRollback, RL!ExecDirect
  <1>7. /\ broadcastSynced' = broadcastSynced /\ syncNet'[r] = syncNet[r]
        /\ pendingSyncs'[r] = pendingSyncs[r] /\ current'[r] = current[r]
        /\ pendingSpecLogIds'[r] = pendingSpecLogIds[r]
    BY DEF LeaderExecTd
  <1> QED BY <1>2, <1>4, <1>5, <1>6, <1>7, LogGrows

(* A piece of a log that is long enough, from log id b + 1 to its end. *)
LEMMA Piece ==
  ASSUME NEW m \in SyncMessage, NEW l \in Seq(Txn), NEW b \in Nat,
         m.start = b + 1, Len(m.entries) = Len(l) - b,
         \A i \in 1..(Len(l) - b) : m.entries[i] = l[b + 1 + i - 1]
  PROVE  /\ m.start >= 1 /\ End(m) = Len(l) + 1
         /\ \A i \in 1..Len(m.entries) : m.entries[i] = l[m.start + i - 1]
  <1>1. m.start >= 1
    OBVIOUS
  <1>2. End(m) = Len(l) + 1
    BY DEF End
  <1> QED BY <1>1, <1>2

(* A piece of the log is sent. *)
LEMMA FollowerInvLeaderSync ==
  ASSUME IInv, TypeOK', LeaderCrossReplicaSyncTd, NEW r \in Follower
  PROVE  FollowerInv(r)'
  <1> DEFINE m == [start |-> broadcastSynced + 1,
                   entries |-> SubSeq(log[Leader], broadcastSynced + 1, Len(log[Leader])),
                   commitPoint |-> commitPoint[Leader]]
             len == Len(syncNet[r])
  <1>1. /\ TypeOK /\ FollowerInv(r) /\ Leader \in Replica
        /\ broadcastSynced <= Len(log[Leader])
    BY ReplicaAssumption DEF IInv
  <1>2. /\ log[Leader] \in Seq(Txn) /\ Len(log[Leader]) \in Nat
        /\ NextSyncedLogId(Leader) = Len(log[Leader]) + 1
        /\ \A p \in 1..Len(log[Leader]) : log[Leader][p] \in Txn
    BY <1>1, LogTypes
  <1>3. /\ syncNet[r] \in Seq(SyncMessage) /\ len \in Nat
        /\ \A k \in 1..len : syncNet[r][k] \in SyncMessage
        /\ broadcastSynced \in Nat
        /\ pendingSyncs[r] \in SUBSET SyncMessage
    BY <1>1, FollowerTypes
  <1>4. m \in SyncMessage
    BY <1>1, TypePiece
  <1>5. m.start = broadcastSynced + 1 /\ FromLog(m) /\ End(m) = Len(log[Leader]) + 1
    <2> \A i \in (broadcastSynced + 1)..Len(log[Leader]) : log[Leader][i] \in Txn
      BY <1>2, <1>3
    <2>1. /\ m.start = broadcastSynced + 1
          /\ Len(m.entries) = Len(log[Leader]) - broadcastSynced
          /\ \A i \in 1..(Len(log[Leader]) - broadcastSynced) :
                m.entries[i] = log[Leader][broadcastSynced + 1 + i - 1]
      BY <1>1, <1>2, <1>3, SubSeqProperties
    <2> HIDE DEF m
    <2>2. /\ m.start >= 1 /\ End(m) = Len(log[Leader]) + 1
          /\ \A i \in 1..Len(m.entries) : m.entries[i] = log[Leader][m.start + i - 1]
      BY <1>1, <1>2, <1>3, <1>4, <2>1, Piece
    <2>3. End(m) <= NextSyncedLogId(Leader)
      BY <1>2, <2>2
    <2> QED BY <2>1, <2>2, <2>3 DEF FromLog
  <1>6. syncNet'[r] = Append(syncNet[r], m) /\ broadcastSynced' = Len(log[Leader])
    BY DEF LeaderCrossReplicaSyncTd
  <1> HIDE DEF m
  <1>7. /\ Len(syncNet'[r]) = len + 1
        /\ \A k \in 1..len : syncNet'[r][k] = syncNet[r][k]
        /\ syncNet'[r][len + 1] = m
    BY <1>3, <1>4, <1>6, AppendProperties
  <1>8. /\ log' = log /\ specLogId' = specLogId /\ pendingSyncs' = pendingSyncs
        /\ current' = current /\ pendingSpecLogIds' = pendingSpecLogIds
    BY DEF LeaderCrossReplicaSyncTd
  <1>9. /\ NextSyncedLogId(r)' = NextSyncedLogId(r) /\ NextSyncedLogId(Leader)' = NextSyncedLogId(Leader)
        /\ \A n : FromLog(n)' <=> FromLog(n)
        /\ \A n : HasNext(n, r)' <=> HasNext(n, r)
    BY <1>8 DEF NextSyncedLogId, RL!NextSyncedLogId, FromLog, HasNext, End
  <1>10. NextReceived(r)' = NextReceived(r)
    <2>1. CASE syncNet[r] = <<>>
      <3>1. len = 0 /\ syncNet'[r] # <<>>
        BY <1>7, <2>1
      <3> QED BY <1>5, <1>7, <2>1, <3>1 DEF NextReceived
    <2>2. CASE syncNet[r] # <<>>
      <3>1. len >= 1
        BY <1>3, <2>2, EmptySeq
      <3>2. syncNet'[r][1] = syncNet[r][1] /\ syncNet'[r] # <<>>
        BY <1>3, <1>7, <3>1
      <3> QED BY <2>2, <3>2 DEF NextReceived
    <2> QED BY <2>1, <2>2
  <1>11. NetInv(r)'
    <2> SUFFICES ASSUME NEW k \in 1..(len + 1)
                 PROVE  /\ FromLog(syncNet'[r][k])
                        /\ End(syncNet'[r][k]) =
                              (IF k < len + 1 THEN syncNet'[r][k + 1].start
                                              ELSE Len(log[Leader]) + 1)
      BY <1>6, <1>7, <1>9 DEF NetInv, End
    <2>1. CASE k = len + 1
      BY <1>3, <1>5, <1>7, <2>1
    <2>2. CASE k = len
      <3>1. FromLog(syncNet[r][k]) /\ End(syncNet[r][k]) = broadcastSynced + 1
        BY <1>1, <1>3, <2>2 DEF FollowerInv, NetInv
      <3> QED BY <1>3, <1>5, <1>7, <2>2, <3>1
    <2>3. CASE k < len
      <3>1. FromLog(syncNet[r][k]) /\ End(syncNet[r][k]) = syncNet[r][k + 1].start
        BY <1>1, <1>3, <2>3 DEF FollowerInv, NetInv
      <3> QED BY SMTT(30), <1>3, <1>7, <2>3, <3>1
    <2> QED BY <1>3, <2>1, <2>2, <2>3
  <1>12. PendingInv(r)'
    BY <1>1, <1>8, <1>9, <1>10 DEF FollowerInv, PendingInv, End
  <1>13. IdleInv(r)'
    BY <1>1, <1>8, <1>9 DEF FollowerInv, IdleInv
  <1>14. WorkInv(r)'
    BY <1>1, <1>8, <1>9, <1>10 DEF FollowerInv, WorkInv, End, IsLowest
  <1>15. SpecIdInv(r)'
    BY <1>1, <1>8, <1>9 DEF FollowerInv, SpecIdInv, Blocked, IsLowest
  <1> QED BY <1>11, <1>12, <1>13, <1>14, <1>15 DEF FollowerInv

(* A set of log ids that is not empty has a lowest. *)
LEMMA LowestExists ==
  ASSUME NEW S \in SUBSET Nat, S # {}
  PROVE  \E x \in S : \A y \in S : x <= y
  <1>1. PICK x \in S : \A y \in S : ~ (<<y, x>> \in OpToRel(<, Nat))
    BY NatLessThanWellFounded, WFMin
  <1>2. \A y \in S : ~ (y < x)
    BY <1>1 DEF OpToRel
  <1> QED BY <1>2

(* The first message put aside, where it can be processed. *)
LEMMA NextPendingIs ==
  ASSUME NEW pending \in SUBSET SyncMessage, NEW next \in Nat
  PROVE  \/ /\ NextPending(pending, next) = None
            /\ \A m \in pending : next < m.start
         \/ \E m \in pending : /\ IsLowest(m, pending) /\ m.start <= next
                              /\ NextPending(pending, next) =
                                    [msg |-> m, i |-> 1, queued |-> TRUE]
  <1> DEFINE ready == {m \in pending : /\ m.start <= next
                                       /\ \A n \in pending : m.start <= n.start}
             starts == {n.start : n \in pending}
  <1>1. CASE ready = {}
    <2>1. NextPending(pending, next) = None
      BY <1>1 DEF NextPending
    <2>2. ASSUME NEW m \in pending PROVE next < m.start
      <3>1. starts \in SUBSET Nat /\ starts # {}
        BY MessageTypes
      <3>2. PICK low \in starts : \A y \in starts : low <= y
        BY <3>1, LowestExists
      <3>3. PICK n \in pending : low = n.start
        BY <3>2
      <3>4. \A k \in pending : n.start <= k.start
        BY <3>2, <3>3
      <3>5. ~ (n.start <= next)
        BY <1>1, <3>4
      <3>6. n.start \in Nat /\ m.start \in Nat /\ n.start <= m.start
        BY <3>4, MessageTypes
      <3> QED BY <3>5, <3>6
    <2> QED BY <2>1, <2>2
  <1>2. CASE ready # {}
    <2>1. NextPending(pending, next) =
            [msg |-> CHOOSE m \in ready : TRUE, i |-> 1, queued |-> TRUE]
      BY <1>2 DEF NextPending
    <2>2. (CHOOSE m \in ready : TRUE) \in ready
      BY <1>2
    <2> QED BY <2>1, <2>2 DEF IsLowest
  <1> QED BY <1>1, <1>2

(* The head of the messages on their way. *)
LEMMA Receive ==
  ASSUME TypeOK, NEW r \in Follower, NetInv(r), syncNet[r] # <<>>,
         syncNet'[r] = Tail(syncNet[r]), broadcastSynced' = broadcastSynced,
         \A m : FromLog(m)' <=> FromLog(m)
  PROVE  /\ FromLog(Head(syncNet[r])) /\ Head(syncNet[r]) \in SyncMessage
         /\ NextReceived(r) = Head(syncNet[r]).start
         /\ NextReceived(r)' = End(Head(syncNet[r]))
         /\ NetInv(r)'
  <1> DEFINE len == Len(syncNet[r])
  <1>1. /\ syncNet[r] \in Seq(SyncMessage) /\ len \in Nat /\ len >= 1
        /\ \A k \in 1..len : syncNet[r][k] \in SyncMessage
    BY FollowerTypes, EmptySeq
  <1>2. Head(syncNet[r]) = syncNet[r][1] /\ Head(syncNet[r]) \in SyncMessage
    BY <1>1
  <1>3. /\ syncNet'[r] \in Seq(SyncMessage) /\ Len(syncNet'[r]) = len - 1
        /\ \A k \in 1..(len - 1) : syncNet'[r][k] = syncNet[r][k + 1]
    BY <1>1, HeadTailProperties
  <1>4. /\ FromLog(Head(syncNet[r])) /\ NextReceived(r) = Head(syncNet[r]).start
    BY <1>1, <1>2 DEF NetInv, NextReceived
  <1>5. NextReceived(r)' = End(Head(syncNet[r]))
    <2>0. syncNet'[r] = <<>> <=> Len(syncNet'[r]) = 0
      BY <1>3, EmptySeq
    <2> HIDE DEF len
    <2>3. len = 1 \/ (len > 1 /\ len - 1 # 0 /\ 1 \in 1..(len - 1))
      BY <1>1
    <2>1. CASE len = 1
      <3>1. syncNet'[r] = <<>>
        BY <1>3, <2>0, <2>1
      <3>2. End(syncNet[r][1]) = broadcastSynced + 1
        BY <1>1, <2>1 DEF NetInv, len
      <3> QED BY <1>2, <3>1, <3>2 DEF NextReceived
    <2>2. CASE len > 1 /\ len - 1 # 0 /\ 1 \in 1..(len - 1)
      <3>1. syncNet'[r] # <<>>
        BY <1>3, <2>0, <2>2
      <3>2. syncNet'[r][1] = syncNet[r][1 + 1]
        BY <1>3, <2>2
      <3>3. End(syncNet[r][1]) = syncNet[r][1 + 1].start
        BY <1>1, <2>2 DEF NetInv, len
      <3> QED BY <1>2, <3>1, <3>2, <3>3 DEF NextReceived
    <2> QED BY <2>1, <2>2, <2>3
  <1>6. NetInv(r)'
    <2> HIDE DEF len
    <2>0. len \in Nat
      BY <1>1
    <2> SUFFICES ASSUME NEW k \in 1..(len - 1)
                 PROVE  /\ FromLog(syncNet'[r][k])
                        /\ End(syncNet'[r][k]) =
                              (IF k < len - 1 THEN syncNet'[r][k + 1].start
                                              ELSE broadcastSynced + 1)
      BY <1>3 DEF NetInv, End
    <2>1. k \in Nat /\ k + 1 \in 1..len
      BY <2>0
    <2>2. syncNet'[r][k] = syncNet[r][k + 1]
      BY <1>3
    <2>3. /\ FromLog(syncNet[r][k + 1])
          /\ End(syncNet[r][k + 1]) =
                (IF k + 1 < len THEN syncNet[r][k + 1 + 1].start ELSE broadcastSynced + 1)
      BY <2>1 DEF NetInv, len
    <2>4. k < len - 1 => syncNet'[r][k + 1] = syncNet[r][k + 1 + 1]
      <3> SUFFICES ASSUME k < len - 1 PROVE syncNet'[r][k + 1] = syncNet[r][k + 1 + 1]
        OBVIOUS
      <3>1. k + 1 \in 1..(len - 1)
        BY <2>0, <2>1
      <3> QED BY <1>3, <3>1
    <2>5. k < len - 1 <=> k + 1 < len
      BY <2>0, <2>1
    <2> QED BY <2>2, <2>3, <2>4, <2>5
  <1> QED BY <1>2, <1>4, <1>5, <1>6

(* Where no log changes, the pieces of the log stay what they are. *)
LEMMA SameLog ==
  ASSUME NEW r, log' = log
  PROVE  /\ NextSyncedLogId(r)' = NextSyncedLogId(r)
         /\ \A m : FromLog(m)' <=> FromLog(m)
         /\ \A m : HasNext(m, r)' <=> HasNext(m, r)
  BY DEF NextSyncedLogId, RL!NextSyncedLogId, FromLog, HasNext, End

(* The follower looks at the messages put aside: it works on the first of  *)
(* them, or all of them begin past its log.                                *)
LEMMA LookAtPending ==
  ASSUME TypeOK', NEW r \in Follower, PendingInv(r)',
         NextSyncedLogId(r)' \in Nat,
         current'[r] = NextPending(pendingSyncs'[r], NextSyncedLogId(r)')
  PROVE  IdleInv(r)' /\ WorkInv(r)'
  <1>1. PICK pending \in SUBSET SyncMessage : pending = pendingSyncs'[r]
    BY DEF TypeOK
  <1>2. PICK next \in Nat : next = NextSyncedLogId(r)'
    OBVIOUS
  <1>3. current'[r] = NextPending(pending, next)
    BY <1>1, <1>2
  <1>4. CASE /\ NextPending(pending, next) = None
             /\ \A m \in pending : next < m.start
    BY <1>1, <1>2, <1>3, <1>4 DEF IdleInv, WorkInv
  <1>5. CASE \E m \in pending : /\ IsLowest(m, pending) /\ m.start <= next
                              /\ NextPending(pending, next) =
                                    [msg |-> m, i |-> 1, queued |-> TRUE]
    <2>1. PICK m \in pending : /\ IsLowest(m, pending) /\ m.start <= next
                             /\ NextPending(pending, next) =
                                   [msg |-> m, i |-> 1, queued |-> TRUE]
      BY <1>5
    <2>2. /\ m.start \in Nat /\ Len(m.entries) \in Nat
      BY MessageTypes
    <2>3. /\ current'[r].msg = m /\ current'[r].i = 1 /\ current'[r].queued = TRUE
      BY <1>3, <2>1
    <2>4. [msg |-> m, i |-> 1, queued |-> TRUE] \in Work
      BY DEF Work
    <2>5. current'[r] # None
      BY <1>3, <2>1, <2>4, NoneAssumption
    <2>6. FromLog(m)'
      BY <1>1 DEF PendingInv
    <2>7. m.start + 1 - 1 <= NextSyncedLogId(r)'
      BY <1>2, <2>1, <2>2
    <2>8. 1 \in 1..(Len(m.entries) + 1)
      BY <2>2
    <2>9. m \in pendingSyncs'[r] /\ IsLowest(m, pendingSyncs'[r])
      BY <1>1, <2>1
    <2>10. FromLog(current[r].msg)'
      BY <2>3, <2>6 DEF FromLog, End
    <2>11. WorkInv(r)'
      <3>1. ~ (~ current'[r].queued)
        BY <2>3
      <3> QED BY <2>3, <2>7, <2>8, <2>9, <2>10, <3>1 DEF WorkInv, IsLowest
    <2> QED BY <2>5, <2>11 DEF IdleInv
  <1> QED BY <1>1, <1>2, <1>4, <1>5, NextPendingIs

(* A message is received. *)
LEMMA FollowerInvInterReplicaSync ==
  ASSUME TypeOK, TypeOK', NEW r \in Follower, FollowerInv(r), InterReplicaSync(r)
  PROVE  FollowerInv(r)'
  <1> DEFINE m == Head(syncNet[r])
  <1>1. /\ log' = log /\ specLogId' = specLogId /\ broadcastSynced' = broadcastSynced
        /\ pendingSpecLogIds' = pendingSpecLogIds
        /\ syncNet[r] # <<>> /\ current[r] = None
        /\ syncNet'[r] = Tail(syncNet[r])
    <2>1. syncNet \in [Follower -> Seq(SyncMessage)]
      BY DEF TypeOK
    <2> QED BY <2>1 DEF InterReplicaSync
  <1>2. /\ NextSyncedLogId(r)' = NextSyncedLogId(r)
        /\ \A n : FromLog(n)' <=> FromLog(n)
        /\ \A n : HasNext(n, r)' <=> HasNext(n, r)
    BY <1>1, SameLog
  <1>3. NetInv(r) /\ PendingInv(r) /\ IdleInv(r) /\ SpecIdInv(r)
    BY DEF FollowerInv
  <1>4. /\ FromLog(m) /\ m \in SyncMessage
        /\ NextReceived(r) = m.start /\ NextReceived(r)' = End(m) /\ NetInv(r)'
    BY <1>1, <1>2, <1>3, Receive
  <1>5. NextSyncedLogId(r) \in Nat /\ pendingSyncs[r] \in SUBSET SyncMessage
    BY LogTypes, IsFollower, FollowerTypes
  <1>6. m.start \in Nat /\ End(m) \in Nat /\ m.start <= End(m)
    BY <1>4, MessageTypes
  <1>7. \A n \in pendingSyncs[r] : /\ n.start \in Nat /\ End(n) \in Nat
                                  /\ n.start <= End(n) /\ End(n) <= m.start
    BY <1>3, <1>4, <1>5, MessageTypes DEF PendingInv
  <1>8. CASE /\ pendingSyncs'[r] = PutAside(pendingSyncs[r], m)
             /\ current'[r] = NextPending(pendingSyncs'[r], NextSyncedLogId(r))
    <2> HIDE DEF m
    <2>1. pendingSyncs'[r] = {n \in pendingSyncs[r] : n.start # m.start} \cup {m}
      BY <1>8 DEF PutAside
    <2>2. PendingInv(r)'
      <3> SUFFICES ASSUME NEW n \in pendingSyncs'[r], NEW k \in pendingSyncs'[r]
                   PROVE  /\ FromLog(n) /\ End(n) <= End(m)
                          /\ n = k \/ End(n) <= k.start \/ End(k) <= n.start
                          /\ n.start = k.start => n = k
        BY <1>2, <1>4 DEF PendingInv, End
      <3>1. FromLog(n) /\ End(n) <= End(m)
        BY <1>3, <1>4, <1>6, <1>7, <2>1 DEF PendingInv
      <3>2. CASE n \in pendingSyncs[r] /\ k \in pendingSyncs[r]
        BY <1>3, <3>1, <3>2 DEF PendingInv
      <3>3. CASE n = m \/ k = m
        BY <1>7, <2>1, <3>1, <3>3
      <3> QED BY <2>1, <3>2, <3>3
    <2>3. IdleInv(r)' /\ WorkInv(r)'
      BY <1>2, <1>5, <1>8, <2>2, LookAtPending
    <2>4. Blocked(r) => Blocked(r)'
      <3> SUFFICES ASSUME NEW b \in pendingSyncs[r], HasNext(b, r), IsLowest(b, pendingSyncs[r])
                   PROVE  b \in pendingSyncs'[r] /\ IsLowest(b, pendingSyncs'[r])
        BY <1>2 DEF Blocked, IsLowest
      <3>1. b.start < End(b) /\ End(b) <= m.start
        BY <1>5, <1>7 DEF HasNext
      <3>2. b.start # m.start /\ b.start <= m.start
        BY <1>6, <1>7, <3>1
      <3> QED BY <2>1, <3>2 DEF IsLowest
    <2>5. SpecIdInv(r)'
      BY <1>1, <1>2, <1>3, <2>4 DEF SpecIdInv
    <2> QED BY <1>4, <2>2, <2>3, <2>5 DEF FollowerInv
  <1>9. CASE /\ NextSyncedLogId(r) >= m.start
             /\ current'[r] = [msg |-> m, i |-> 1, queued |-> FALSE]
             /\ pendingSyncs' = pendingSyncs
    <2> HIDE DEF m
    <2>1. pendingSyncs[r] = {}
      <3> SUFFICES ASSUME NEW n \in pendingSyncs[r] PROVE FALSE
        OBVIOUS
      <3>1. NextSyncedLogId(r) < n.start \/ HasNext(n, r)
        BY <1>1, <1>3 DEF IdleInv
      <3> QED BY <1>5, <1>6, <1>7, <1>9, <3>1 DEF HasNext
    <2>2. PendingInv(r)'
      BY <1>9, <2>1 DEF PendingInv
    <2>3. [msg |-> m, i |-> 1, queued |-> FALSE] \in Work
      BY <1>4 DEF Work
    <2>4. current'[r] # None
      BY <1>9, <2>3, NoneAssumption
    <2>5. /\ current'[r].msg = m /\ current'[r].i = 1 /\ current'[r].queued = FALSE
      BY <1>9
    <2>6. Len(m.entries) \in Nat
      BY <1>4, MessageTypes
    <2>7. FromLog(current[r].msg)'
      <3>1. PICK n \in SyncMessage : n = m
        BY <1>4
      <3>2. FromLog(n)'
        BY <1>2, <1>4, <3>1
      <3>3. current'[r].msg = n
        BY <2>5, <3>1
      <3> QED BY <3>2, <3>3 DEF FromLog, End
    <2>8. (End(current[r].msg) <= NextReceived(r))'
      BY <1>4, <1>6, <2>5 DEF End
    <2>9. 1 \in 1..(Len(m.entries) + 1) /\ m.start + 1 - 1 <= NextSyncedLogId(r)'
      BY <1>2, <1>5, <1>6, <1>9, <2>6
    <2>10. WorkInv(r)'
      <3>1. current'[r].i \in 1..(Len(current'[r].msg.entries) + 1)
        BY <2>5, <2>9
      <3>2. current'[r].msg.start + current'[r].i - 1 <= NextSyncedLogId(r)'
        BY <2>5, <2>9
      <3>3. ~ current'[r].queued /\ pendingSyncs'[r] = {}
        BY <1>9, <2>1, <2>5
      <3> QED BY <2>7, <2>8, <3>1, <3>2, <3>3 DEF WorkInv
    <2>11. IdleInv(r)'
      BY <2>4 DEF IdleInv
    <2>12. SpecIdInv(r)'
      BY <1>1, <1>2, <1>3, <1>9 DEF SpecIdInv, Blocked, IsLowest
    <2> QED BY <1>4, <2>2, <2>10, <2>11, <2>12 DEF FollowerInv
  <1>10. \/ /\ pendingSyncs'[r] = PutAside(pendingSyncs[r], m)
            /\ current'[r] = NextPending(pendingSyncs'[r], NextSyncedLogId(r))
         \/ /\ NextSyncedLogId(r) >= m.start
            /\ current'[r] = [msg |-> m, i |-> 1, queued |-> FALSE]
            /\ pendingSyncs' = pendingSyncs
    <2>1. /\ pendingSyncs \in [Follower -> SUBSET SyncMessage]
          /\ current \in [Follower -> Work \cup {None}]
      BY DEF TypeOK
    <2> QED BY <2>1 DEF InterReplicaSync
  <1> QED BY <1>8, <1>9, <1>10

(* The messages put aside are looked at again. *)
LEMMA FollowerInvRetryPending ==
  ASSUME TypeOK, TypeOK', NEW r \in Follower, FollowerInv(r), RetryPending(r)
  PROVE  FollowerInv(r)'
  <1>1. /\ log' = log /\ specLogId' = specLogId /\ broadcastSynced' = broadcastSynced
        /\ pendingSpecLogIds' = pendingSpecLogIds /\ pendingSyncs' = pendingSyncs
        /\ syncNet' = syncNet
    BY DEF RetryPending
  <1>2. current'[r] = NextPending(pendingSyncs'[r], NextSyncedLogId(r))
    <2>1. current \in [Follower -> Work \cup {None}]
      BY DEF TypeOK
    <2> QED BY <1>1, <2>1 DEF RetryPending
  <1>3. /\ NextSyncedLogId(r)' = NextSyncedLogId(r) /\ NextSyncedLogId(r) \in Nat
        /\ \A n : FromLog(n)' <=> FromLog(n)
        /\ \A n : HasNext(n, r)' <=> HasNext(n, r)
    BY <1>1, SameLog, LogTypes, IsFollower
  <1>4. NextReceived(r)' = NextReceived(r)
    BY <1>1 DEF NextReceived
  <1>5. NetInv(r)' /\ PendingInv(r)'
    BY <1>1, <1>3, <1>4 DEF FollowerInv, NetInv, PendingInv, End
  <1>6. IdleInv(r)' /\ WorkInv(r)'
    BY <1>2, <1>3, <1>5, LookAtPending
  <1>7. SpecIdInv(r)'
    BY <1>1, <1>3 DEF FollowerInv, SpecIdInv, Blocked, IsLowest
  <1> QED BY <1>5, <1>6, <1>7 DEF FollowerInv

(* When a message has been processed to its end, nothing that r has noted  *)
(* waits for a request.                                                    *)
LEMMA NotBlockedAtEnd ==
  ASSUME TypeOK, NEW r \in Follower, FollowerInv(r), current[r] # None,
         current[r].i > Len(current[r].msg.entries)
  PROVE  /\ ~ Blocked(r)
         /\ End(current[r].msg) <= NextSyncedLogId(r)
  <1> DEFINE m == current[r].msg
  <1>1. /\ m \in SyncMessage /\ m.start \in Nat /\ Len(m.entries) \in Nat
        /\ current[r].queued \in BOOLEAN
    BY TypeWork
  <1>2. /\ current[r].i \in 1..(Len(m.entries) + 1)
        /\ m.start + current[r].i - 1 <= NextSyncedLogId(r)
        /\ current[r].queued => m \in pendingSyncs[r] /\ IsLowest(m, pendingSyncs[r])
        /\ ~ current[r].queued => pendingSyncs[r] = {}
    BY DEF FollowerInv, WorkInv
  <1>3. NextSyncedLogId(r) \in Nat
    BY LogTypes, IsFollower
  <1>4. End(m) <= NextSyncedLogId(r)
    <2>1. current[r].i = Len(m.entries) + 1
      BY SMTT(30), <1>1, <1>2
    <2> QED BY <1>1, <1>2, <1>3, <2>1 DEF End
  <1>5. ~ Blocked(r)
    <2> SUFFICES ASSUME NEW b \in pendingSyncs[r], HasNext(b, r), IsLowest(b, pendingSyncs[r])
                 PROVE  FALSE
      BY DEF Blocked
    <2>1. m \in pendingSyncs[r] /\ IsLowest(m, pendingSyncs[r])
      BY <1>1, <1>2
    <2>2. b \in SyncMessage /\ b.start \in Nat
      BY FollowerTypes, MessageTypes
    <2>3. m.start = b.start
      BY <1>1, <2>1, <2>2 DEF IsLowest
    <2>4. m = b
      BY <2>1, <2>3 DEF FollowerInv, PendingInv
    <2>5. End(b) \in Nat
      BY <2>2, MessageTypes
    <2> QED BY <1>3, <1>4, <2>4, <2>5 DEF HasNext
  <1> QED BY <1>4, <1>5

(* A speculative id is counted. *)
LEMMA FollowerInvSyncSpecLogId ==
  ASSUME TypeOK, NEW r \in Follower, FollowerInv(r), SyncSpecLogId(r)
  PROVE  FollowerInv(r)'
  <1>1. /\ log' = log /\ specLogId' = specLogId /\ broadcastSynced' = broadcastSynced
        /\ pendingSyncs' = pendingSyncs /\ syncNet' = syncNet /\ current' = current
    BY DEF SyncSpecLogId
  <1>2. pendingSpecLogIds'[r] \subseteq pendingSpecLogIds[r]
    <2>1. pendingSpecLogIds \in [Follower -> SUBSET (Nat \ {0})]
      BY DEF TypeOK
    <2> QED BY <2>1 DEF SyncSpecLogId
  <1>3. /\ NextSyncedLogId(r)' = NextSyncedLogId(r)
        /\ \A n : FromLog(n)' <=> FromLog(n)
        /\ \A n : HasNext(n, r)' <=> HasNext(n, r)
    BY <1>1, SameLog
  <1>4. NextReceived(r)' = NextReceived(r)
    BY <1>1 DEF NextReceived
  <1>5. NetInv(r)' /\ PendingInv(r)' /\ IdleInv(r)'
    BY <1>1, <1>3, <1>4 DEF FollowerInv, NetInv, PendingInv, IdleInv, End
  <1>6. WorkInv(r)'
    BY <1>1, <1>3, <1>4 DEF FollowerInv, WorkInv, End, IsLowest
  <1>7. SpecIdInv(r)'
    BY <1>1, <1>2, <1>3 DEF FollowerInv, SpecIdInv, Blocked, IsLowest
  <1> QED BY <1>5, <1>6, <1>7 DEF FollowerInv

(* A message is done. *)
LEMMA FollowerInvSyncDone ==
  ASSUME TypeOK, TypeOK', NEW r \in Follower, FollowerInv(r), SyncDone(r)
  PROVE  FollowerInv(r)'
  <1>1. /\ log' = log /\ specLogId' = specLogId /\ broadcastSynced' = broadcastSynced
        /\ pendingSpecLogIds' = pendingSpecLogIds /\ syncNet' = syncNet
        /\ current[r] # None /\ current[r].i > Len(current[r].msg.entries)
    BY DEF SyncDone
  <1>2. /\ pendingSyncs'[r] \subseteq pendingSyncs[r]
        /\ current'[r] = NextPending(pendingSyncs'[r], NextSyncedLogId(r))
    <2>1. /\ pendingSyncs \in [Follower -> SUBSET SyncMessage]
          /\ current \in [Follower -> Work \cup {None}]
      BY DEF TypeOK
    <2> QED BY <2>1 DEF SyncDone
  <1>3. /\ NextSyncedLogId(r)' = NextSyncedLogId(r) /\ NextSyncedLogId(r) \in Nat
        /\ \A n : FromLog(n)' <=> FromLog(n)
    BY <1>1, SameLog, LogTypes, IsFollower
  <1>4. NextReceived(r)' = NextReceived(r)
    BY <1>1 DEF NextReceived
  <1>5. NetInv(r)' /\ PendingInv(r)'
    BY <1>1, <1>2, <1>3, <1>4 DEF FollowerInv, NetInv, PendingInv, End
  <1>6. IdleInv(r)' /\ WorkInv(r)'
    BY <1>2, <1>3, <1>5, LookAtPending
  <1>7. SpecIdInv(r)'
    BY <1>1, <1>3, NotBlockedAtEnd DEF FollowerInv, SpecIdInv
  <1> QED BY <1>5, <1>6, <1>7 DEF FollowerInv

(* What SyncEntry looks at: the entry's place in the log. *)
LEMMA EntryOf ==
  ASSUME TypeOK, NEW r \in Follower, FollowerInv(r), SyncEntry(r)
  PROVE  \E m \in SyncMessage, i \in Nat, p \in 1..Len(log[Leader]) :
            /\ current[r].msg = m /\ current[r].i = i /\ current[r] # None
            /\ i \in 1..Len(m.entries) /\ p = m.start + i - 1
            /\ p <= NextSyncedLogId(r) /\ p < End(m) /\ m.start <= p
            /\ m.entries[i] = log[Leader][p]
            /\ AlreadySynced(r, current[r]) <=> p < NextSyncedLogId(r)
            /\ FromLog(m)
  <1>1. current[r] # None /\ current[r].i <= Len(current[r].msg.entries)
    BY DEF SyncEntry
  <1>2. PICK m \in SyncMessage : m = current[r].msg
    BY <1>1, TypeWork
  <1>3. PICK i \in Nat \ {0} : i = current[r].i
    BY <1>1, TypeWork
  <1>4. m.start \in Nat /\ Len(m.entries) \in Nat
    BY MessageTypes
  <1>5. i \in 1..Len(m.entries)
    BY <1>1, <1>2, <1>3, <1>4
  <1>6. FromLog(m) /\ m.start + i - 1 <= NextSyncedLogId(r)
    BY <1>1, <1>2, <1>3 DEF FollowerInv, WorkInv
  <1>7. /\ Len(log[Leader]) \in Nat
        /\ NextSyncedLogId(Leader) = Len(log[Leader]) + 1
    BY LogTypes, ReplicaAssumption
  <1>8. m.start >= 1 /\ End(m) <= Len(log[Leader]) + 1
    BY <1>6, <1>7 DEF FromLog
  <1>9. m.start + i - 1 \in 1..Len(log[Leader]) /\ m.start + i - 1 < End(m) /\ m.start <= m.start + i - 1
    <2>1. End(m) = m.start + Len(m.entries)
      BY DEF End
    <2> QED BY <1>4, <1>5, <1>7, <1>8, <2>1
  <1>10. m.entries[i] = log[Leader][m.start + i - 1]
    BY <1>5, <1>6 DEF FromLog
  <1>11. AlreadySynced(r, current[r]) <=> m.start + i - 1 < NextSyncedLogId(r)
    BY <1>2, <1>3 DEF AlreadySynced
  <1> QED BY <1>1, <1>2, <1>3, <1>5, <1>6, <1>9, <1>10, <1>11

(* The follower turns to the next entry of the message it works on. *)
LEMMA Advanced ==
  ASSUME NEW c \in Work
  PROVE  /\ [c EXCEPT !.i = @ + 1].msg = c.msg
         /\ [c EXCEPT !.i = @ + 1].i = c.i + 1
         /\ [c EXCEPT !.i = @ + 1].queued = c.queued
         /\ [c EXCEPT !.i = @ + 1] # None
  <1>1. [c EXCEPT !.i = @ + 1] \in Work
    BY DEF Work
  <1>2. [c EXCEPT !.i = @ + 1] # None
    BY <1>1, NoneAssumption
  <1> QED BY <1>2 DEF Work

(* One entry of a message. *)
LEMMA FollowerInvSyncEntry ==
  ASSUME TypeOK, TypeOK', NEW r \in Follower, FollowerInv(r), SyncEntry(r)
  PROVE  FollowerInv(r)'
  <1>1. PICK m \in SyncMessage, i \in Nat, p \in 1..Len(log[Leader]) :
            /\ current[r].msg = m /\ current[r].i = i /\ current[r] # None
            /\ i \in 1..Len(m.entries) /\ p = m.start + i - 1
            /\ p <= NextSyncedLogId(r) /\ p < End(m) /\ m.start <= p
            /\ m.entries[i] = log[Leader][p]
            /\ AlreadySynced(r, current[r]) <=> p < NextSyncedLogId(r)
            /\ FromLog(m)
    BY EntryOf
  <1> DEFINE t == m.entries[i]
  <1>2. /\ m.start \in Nat /\ Len(m.entries) \in Nat /\ End(m) \in Nat
        /\ End(m) = m.start + Len(m.entries)
        /\ NextSyncedLogId(r) \in Nat /\ p \in Nat /\ r \in Replica /\ r # Leader
        /\ NextSyncedLogId(r) = Len(log[r]) + 1 /\ log[r] \in Seq(Txn)
    BY MessageTypes, LogTypes, IsFollower DEF End
  <1>3. /\ current[r] \in Work /\ t \in Txn
        /\ log \in [Replica -> Seq(Txn)]
        /\ pendingSyncs \in [Follower -> SUBSET SyncMessage]
        /\ current \in [Follower -> Work \cup {None}]
        /\ pendingSpecLogIds \in [Follower -> SUBSET (Nat \ {0})]
    BY <1>1, TypeWork, MessageTypes, ElementOfSeq DEF TypeOK
  <1>4. /\ specLogId' = specLogId /\ broadcastSynced' = broadcastSynced /\ syncNet' = syncNet
        /\ pendingSpecLogIds'[r] = pendingSpecLogIds[r] \cup SpecIds(t)
    BY <1>1, <1>3 DEF SyncEntry
  <1>5. \/ /\ p < NextSyncedLogId(r)
           /\ current'[r] = [current[r] EXCEPT !.i = @ + 1]
           /\ log' = log /\ pendingSyncs' = pendingSyncs
        \/ /\ ~ (p < NextSyncedLogId(r))
           /\ log' = [log EXCEPT ![r] = Append(@, t)]
           /\ current'[r] = [current[r] EXCEPT !.i = @ + 1]
           /\ pendingSyncs' = pendingSyncs
        \/ /\ ~ (p < NextSyncedLogId(r))
           /\ current[r].queued
           /\ current'[r] = None
           /\ log' = log /\ pendingSyncs' = pendingSyncs
        \/ /\ ~ (p < NextSyncedLogId(r))
           /\ ~ current[r].queued
           /\ pendingSyncs'[r] = (IF \E n \in pendingSyncs[r] : n.start = m.start
                                  THEN pendingSyncs[r] ELSE pendingSyncs[r] \cup {m})
           /\ current'[r] = NextPending(pendingSyncs'[r], NextSyncedLogId(r))
           /\ log' = log
    BY <1>1, <1>3 DEF SyncEntry
  <1>6. log'[Leader] = log[Leader]
    <2>1. log' = log \/ log' = [log EXCEPT ![r] = Append(@, t)]
      BY <1>5
    <2> HIDE DEF t
    <2> QED BY <1>2, <1>3, <2>1, ReplicaAssumption
  <1>7. /\ \A n : FromLog(n)' <=> FromLog(n)
        /\ NextReceived(r)' = NextReceived(r)
    BY <1>4, <1>6 DEF FromLog, End, NextSyncedLogId, RL!NextSyncedLogId, NextReceived
  <1>8. NetInv(r)'
    BY <1>4, <1>7 DEF FollowerInv, NetInv, End
  (* The id that is noted is that of entry p, as the others are. *)
  <1>9. \A n \in pendingSpecLogIds'[r] : \E q \in 1..Len(log'[Leader]) :
           /\ specLogId'[log'[Leader][q]] = n
           /\ \/ q < NextSyncedLogId(r) \/ (q = NextSyncedLogId(r) /\ Blocked(r))
              \/ q = p
    <2> SUFFICES ASSUME NEW n \in pendingSpecLogIds'[r]
                 PROVE  \E q \in 1..Len(log[Leader]) :
                           /\ specLogId[log[Leader][q]] = n
                           /\ \/ q < NextSyncedLogId(r) \/ (q = NextSyncedLogId(r) /\ Blocked(r))
                              \/ q = p
      BY <1>4, <1>6
    <2>1. CASE n \in pendingSpecLogIds[r]
      BY <2>1 DEF FollowerInv, SpecIdInv
    <2>2. CASE n \in SpecIds(t)
      BY <1>1, <2>2 DEF SpecIds
    <2> QED BY <1>4, <2>1, <2>2
  <1>10. CASE /\ pendingSyncs' = pendingSyncs
              /\ current'[r] = [current[r] EXCEPT !.i = @ + 1]
              /\ p < NextSyncedLogId(r)'
              /\ NextSyncedLogId(r)' \in Nat
              /\ NextSyncedLogId(r) <= NextSyncedLogId(r)'
              /\ \A q \in 1..Len(log[Leader]) :
                     q < NextSyncedLogId(r) \/ (q = NextSyncedLogId(r) /\ Blocked(r))
                     => q < NextSyncedLogId(r)' \/ (q = NextSyncedLogId(r)' /\ Blocked(r)')
    <2>1. PendingInv(r)'
      BY <1>7, <1>10 DEF FollowerInv, PendingInv, End
    <2>2. /\ current'[r].msg = m /\ current'[r].i = i + 1
          /\ current'[r].queued = current[r].queued /\ current'[r] # None
      BY <1>1, <1>3, <1>10, Advanced
    <2>3. IdleInv(r)'
      BY <2>2 DEF IdleInv
    <2>4. WorkInv(r)'
      <3>1. FromLog(current[r].msg)'
        <4>1. FromLog(m)'
          BY <1>1, <1>7
        <4> QED BY <2>2, <4>1 DEF FromLog, End
      <3>2. i + 1 \in 1..(Len(m.entries) + 1) /\ m.start + (i + 1) - 1 <= NextSyncedLogId(r)'
        <4>1. PICK next \in Nat : next = NextSyncedLogId(r)'
          BY <1>10
        <4>2. m.start + i - 1 < next
          BY <1>1, <1>10, <4>1
        <4>3. i \in 1..Len(m.entries)
          BY <1>1
        <4>4. m.start \in Nat /\ Len(m.entries) \in Nat
          BY <1>2
        <4>5. m.start + (i + 1) - 1 <= next /\ i + 1 \in 1..(Len(m.entries) + 1)
          BY <4>2, <4>3, <4>4
        <4> QED BY <4>1, <4>5
      <3>3. /\ current[r].queued => m \in pendingSyncs[r] /\ IsLowest(m, pendingSyncs[r])
            /\ ~ current[r].queued => pendingSyncs[r] = {} /\ End(m) <= NextReceived(r)
        BY <1>1 DEF FollowerInv, WorkInv
      <3>4. /\ current'[r].queued => m \in pendingSyncs'[r] /\ IsLowest(m, pendingSyncs'[r])
            /\ ~ current'[r].queued => pendingSyncs'[r] = {} /\ End(m) <= NextReceived(r)'
        BY <1>7, <1>10, <2>2, <3>3
      <3> QED BY <2>2, <3>1, <3>2, <3>4 DEF WorkInv, IsLowest, End
    <2>5. SpecIdInv(r)'
      BY <1>6, <1>9, <1>10 DEF SpecIdInv
    <2> QED BY <1>8, <2>1, <2>3, <2>4, <2>5 DEF FollowerInv
  <1>11. CASE /\ p < NextSyncedLogId(r)
              /\ current'[r] = [current[r] EXCEPT !.i = @ + 1]
              /\ log' = log /\ pendingSyncs' = pendingSyncs
    <2>1. NextSyncedLogId(r)' = NextSyncedLogId(r) /\ \A n : HasNext(n, r)' <=> HasNext(n, r)
      BY <1>11, SameLog
    <2>2. Blocked(r)' <=> Blocked(r)
      BY <1>11, <2>1 DEF Blocked, IsLowest
    <2> QED BY <1>2, <1>10, <1>11, <2>1, <2>2
  <1>12. CASE /\ ~ (p < NextSyncedLogId(r))
              /\ log' = [log EXCEPT ![r] = Append(@, t)]
              /\ current'[r] = [current[r] EXCEPT !.i = @ + 1]
              /\ pendingSyncs' = pendingSyncs
    <2>1. log'[r] = Append(log[r], t)
      BY <1>2, <1>3, <1>12
    <2>2. Len(log'[r]) = Len(log[r]) + 1 /\ Len(log[r]) \in Nat
      BY <1>2, <1>3, <2>1, AppendProperties, LenProperties
    <2>3. NextSyncedLogId(r)' = NextSyncedLogId(r) + 1
      BY <1>2, <2>2 DEF NextSyncedLogId, RL!NextSyncedLogId
    <2>4. /\ p < NextSyncedLogId(r)' /\ NextSyncedLogId(r)' \in Nat
          /\ NextSyncedLogId(r) <= NextSyncedLogId(r)'
      BY SMTT(30), <1>1, <1>2, <2>3
    <2>5. \A q \in 1..Len(log[Leader]) : q <= NextSyncedLogId(r) => q < NextSyncedLogId(r)'
      BY <1>2, <2>3
    <2>6. \A q \in 1..Len(log[Leader]) :
            q < NextSyncedLogId(r) \/ q = NextSyncedLogId(r) => q <= NextSyncedLogId(r)
      BY <1>2
    <2> QED BY <1>10, <1>12, <2>4, <2>5, <2>6
  <1>13. CASE /\ ~ (p < NextSyncedLogId(r))
              /\ current[r].queued
              /\ current'[r] = None
              /\ log' = log /\ pendingSyncs' = pendingSyncs
    <2>1. NextSyncedLogId(r)' = NextSyncedLogId(r) /\ \A n : HasNext(n, r)' <=> HasNext(n, r)
      BY <1>13, SameLog
    <2>2. PendingInv(r)'
      BY <1>7, <1>13 DEF FollowerInv, PendingInv, End
    <2>3. WorkInv(r)'
      BY <1>13 DEF WorkInv
    <2>4. p = NextSyncedLogId(r) /\ HasNext(m, r)
      BY <1>1, <1>2, <1>13 DEF HasNext
    <2>5. m \in pendingSyncs[r] /\ IsLowest(m, pendingSyncs[r])
      BY <1>1, <1>13 DEF FollowerInv, WorkInv
    <2>6. IdleInv(r)'
      <3> SUFFICES ASSUME NEW n \in pendingSyncs[r]
                   PROVE  NextSyncedLogId(r) < n.start \/ HasNext(n, r)
        BY <1>13, <2>1 DEF IdleInv
      <3>1. /\ n.start \in Nat /\ End(n) \in Nat /\ n.start <= End(n)
            /\ m.start <= n.start
        BY <2>5, FollowerTypes, MessageTypes DEF IsLowest
      <3>2. /\ m = n \/ End(m) <= n.start \/ End(n) <= m.start
            /\ m.start = n.start => m = n
        BY <2>5 DEF FollowerInv, PendingInv
      <3>3. CASE m = n
        BY <2>4, <3>3
      <3>4. CASE End(m) <= n.start
        BY <1>1, <1>2, <2>4, <3>1, <3>4
      <3>5. CASE End(n) <= m.start /\ m # n
        BY <1>2, <3>1, <3>2, <3>5
      <3> QED BY <3>2, <3>3, <3>4, <3>5
    <2>7. Blocked(r)'
      BY <1>13, <2>1, <2>4, <2>5 DEF Blocked, IsLowest
    <2>8. SpecIdInv(r)'
      BY <1>6, <1>9, <2>1, <2>4, <2>7 DEF SpecIdInv
    <2> QED BY <1>8, <2>2, <2>3, <2>6, <2>8 DEF FollowerInv
  <1>14. CASE /\ ~ (p < NextSyncedLogId(r))
              /\ ~ current[r].queued
              /\ pendingSyncs'[r] = (IF \E n \in pendingSyncs[r] : n.start = m.start
                                     THEN pendingSyncs[r] ELSE pendingSyncs[r] \cup {m})
              /\ current'[r] = NextPending(pendingSyncs'[r], NextSyncedLogId(r))
              /\ log' = log
    <2>1. NextSyncedLogId(r)' = NextSyncedLogId(r) /\ \A n : HasNext(n, r)' <=> HasNext(n, r)
      BY <1>14, SameLog
    <2>2. pendingSyncs[r] = {} /\ End(m) <= NextReceived(r)
      BY <1>1, <1>14 DEF FollowerInv, WorkInv
    <2>3. pendingSyncs'[r] = {m}
      BY <1>14, <2>2
    <2>4. PendingInv(r)'
      BY <1>1, <1>7, <2>2, <2>3 DEF PendingInv, End
    <2>5. IdleInv(r)' /\ WorkInv(r)'
      BY <1>2, <1>14, <2>1, <2>4, LookAtPending
    <2>6. p = NextSyncedLogId(r) /\ HasNext(m, r)
      BY <1>1, <1>2, <1>14 DEF HasNext
    <2>7. Blocked(r)'
      BY <1>2, <2>1, <2>3, <2>6 DEF Blocked, IsLowest
    <2>8. SpecIdInv(r)'
      BY <1>6, <1>9, <2>1, <2>6, <2>7 DEF SpecIdInv
    <2> QED BY <1>8, <2>4, <2>5, <2>8 DEF FollowerInv
  <1> QED BY <1>5, <1>11, <1>12, <1>13, <1>14

-----------------------------------------------------------------------------
(* The logs and the speculative ids, under the steps of ReplicatedLog.     *)

(* The log ids of a log that gets one more entry. *)
LEMMA LogDomain ==
  ASSUME NEW s \in Seq(Txn), NEW t \in Txn
  PROVE  /\ DOMAIN s = 1..Len(s) /\ Len(s) \in Nat
         /\ Append(s, t) \in Seq(Txn)
         /\ Len(Append(s, t)) = Len(s) + 1
         /\ DOMAIN Append(s, t) = 1..(Len(s) + 1)
         /\ \A i \in 1..Len(s) : Append(s, t)[i] = s[i]
         /\ Append(s, t)[Len(s) + 1] = t
  <1>1. Append(s, t) \in Seq(Txn) /\ Len(Append(s, t)) = Len(s) + 1
    BY AppendProperties
  <1>2. DOMAIN s = 1..Len(s) /\ Len(s) \in Nat /\ DOMAIN Append(s, t) = 1..Len(Append(s, t))
    BY <1>1, LenProperties
  <1> QED BY <1>1, <1>2, AppendProperties

(* Server r appends t: its log is that log and t. *)
LEMMA Appended ==
  ASSUME TypeOK, NEW r \in Replica, NEW t \in Txn,
         log' = [log EXCEPT ![r] = Append(@, t)]
  PROVE  /\ \A q \in Replica \ {r} : log'[q] = log[q]
         /\ log[r] \in Seq(Txn) /\ log'[r] = Append(log[r], t)
         /\ \A u : InLog(r, u)' <=> InLog(r, u) \/ u = t
  <1>1. log \in [Replica -> Seq(Txn)]
    BY DEF TypeOK
  <1>2. log[r] \in Seq(Txn) /\ log'[r] = Append(log[r], t)
    BY <1>1
  <1>3. \A u : InLog(r, u)' <=> InLog(r, u) \/ u = t
    <2>1. /\ DOMAIN log[r] = 1..Len(log[r]) /\ Len(log[r]) \in Nat
          /\ DOMAIN log'[r] = 1..(Len(log[r]) + 1)
          /\ \A i \in 1..Len(log[r]) : log'[r][i] = log[r][i]
          /\ log'[r][Len(log[r]) + 1] = t
      BY <1>2, LogDomain
    <2>2. /\ Len(log[r]) + 1 \in 1..(Len(log[r]) + 1)
          /\ \A i \in 1..(Len(log[r]) + 1) : i \in 1..Len(log[r]) \/ i = Len(log[r]) + 1
          /\ \A i \in 1..Len(log[r]) : i \in 1..(Len(log[r]) + 1)
      BY <2>1
    <2> QED BY <2>1, <2>2 DEF InLog, RL!InLog
  <1> QED BY <1>1, <1>2, <1>3

(* Where a log does not change, neither does what is in it. *)
LEMMA SameInLog ==
  ASSUME NEW r, log'[r] = log[r]
  PROVE  \A u : InLog(r, u)' <=> InLog(r, u)
  BY DEF InLog, RL!InLog

(* The types of the speculative ids and their counters. *)
LEMMA SpecTypes ==
  ASSUME TypeOK
  PROVE  /\ execStatus \in [Txn -> RL!ExecStatus] /\ specLogId \in [Txn -> Nat]
         /\ nextSpecLogId \in [Replica -> Nat] /\ nextSpecLogId[Leader] \in Nat
         /\ \A t \in Txn : specLogId[t] \in Nat
         /\ \A r \in Follower : nextSpecLogId[r] \in Nat
  <1>1. /\ execStatus \in [Txn -> RL!ExecStatus] /\ specLogId \in [Txn -> Nat]
        /\ nextSpecLogId \in [Replica -> Nat]
    BY DEF TypeOK
  <1> QED BY <1>1, IsFollower, ReplicaAssumption

(* The leader logs t. *)
LEMMA LogInvLogged ==
  ASSUME TypeOK, LogInv, NEW t \in Txn, execStatus[t] # "EXEC_INIT" \/ specLogId[t] = 0,
         \E status : status # "EXEC_INIT" /\ execStatus' = [execStatus EXCEPT ![t] = status],
         log' = [log EXCEPT ![Leader] = Append(@, t)],
         UNCHANGED <<specLogId, nextSpecLogId>>
  PROVE  LogInv'
  <1>1. /\ \A q \in Replica \ {Leader} : log'[q] = log[q]
        /\ log[Leader] \in Seq(Txn) /\ log'[Leader] = Append(log[Leader], t)
        /\ \A u : InLog(Leader, u)' <=> InLog(Leader, u) \/ u = t
    BY Appended, ReplicaAssumption
  <1>2. SyncedIsPrefix'
    <2> SUFFICES ASSUME NEW r \in Follower
                 PROVE  /\ Len(log'[r]) <= Len(log'[Leader])
                        /\ \A i \in DOMAIN log'[r] : log'[r][i] = log'[Leader][i]
      BY DEF SyncedIsPrefix, Follower, RL!Follower
    <2>1. /\ log'[r] = log[r] /\ Len(log[r]) <= Len(log[Leader])
          /\ \A i \in DOMAIN log[r] : log[r][i] = log[Leader][i]
      BY <1>1, IsFollower DEF LogInv, SyncedIsPrefix
    <2>2. /\ Len(log[r]) \in Nat /\ DOMAIN log[r] = 1..Len(log[r])
      BY LogTypes, IsFollower, LenProperties
    <2>3. /\ Len(log[Leader]) \in Nat /\ Len(log'[Leader]) = Len(log[Leader]) + 1
          /\ \A i \in 1..Len(log[Leader]) : log'[Leader][i] = log[Leader][i]
      BY <1>1, LogDomain
    <2>4. \A i \in DOMAIN log[r] : i \in 1..Len(log[Leader])
      BY <2>1, <2>2, <2>3
    <2> QED BY <2>1, <2>2, <2>3, <2>4
  <1>3. SpecInv'
    <2>1. \A u \in Txn : execStatus'[u] = "EXEC_INIT" => u # t /\ execStatus[u] = "EXEC_INIT"
      BY SpecTypes
    <2> QED BY <1>1, <2>1 DEF LogInv, SpecInv, Follower, RL!Follower
  <1>4. SpecCounterCovered'
    <2>1. \A r \in Follower, u \in Txn : InLog(r, u)' <=> InLog(r, u)
      BY <1>1, IsFollower, SameInLog
    <2> QED BY <2>1 DEF LogInv, SpecCounterCovered, Follower, RL!Follower
  <1> QED BY <1>2, <1>3, <1>4 DEF LogInv

(* The leader executes t speculatively. *)
LEMMA LogInvExecSpec ==
  ASSUME TypeOK, LogInv, NEW t \in Txn, RL!ExecSpec(t)
  PROVE  LogInv'
  <1>1. /\ execStatus[t] = "EXEC_INIT" /\ log' = log
        /\ execStatus' = [execStatus EXCEPT ![t] = "EXEC_SPEC"]
        /\ specLogId' = [specLogId EXCEPT ![t] = nextSpecLogId[Leader]]
        /\ nextSpecLogId' = [nextSpecLogId EXCEPT ![Leader] = @ + 1]
    BY DEF RL!ExecSpec
  <1>2. /\ \A u \in Txn : u # t => specLogId'[u] = specLogId[u] /\ execStatus'[u] = execStatus[u]
        /\ specLogId'[t] = nextSpecLogId[Leader] /\ execStatus'[t] = "EXEC_SPEC"
        /\ nextSpecLogId'[Leader] = nextSpecLogId[Leader] + 1
        /\ \A r \in Follower : nextSpecLogId'[r] = nextSpecLogId[r]
    BY <1>1, SpecTypes, IsFollower, ReplicaAssumption
  <1>3. \A r, u : InLog(r, u)' <=> InLog(r, u)
    BY <1>1, SameInLog
  <1>4. SyncedIsPrefix'
    BY <1>1 DEF LogInv, SyncedIsPrefix, Follower, RL!Follower
  <1>5. SpecInv'
    <2>1. \A u \in Txn : specLogId'[u] < nextSpecLogId'[Leader]
      <3> TAKE u \in Txn
      <3>1. specLogId[u] < nextSpecLogId[Leader]
        BY DEF LogInv, SpecInv
      <3> QED BY <1>2, <3>1, SpecTypes
    <2>2. \A u \in Txn : execStatus'[u] = "EXEC_INIT" => ~ InLog(Leader, u)' /\ specLogId'[u] = 0
      BY <1>2, <1>3 DEF LogInv, SpecInv
    <2>3. \A u, v \in Txn : specLogId'[u] = specLogId'[v] => specLogId'[u] = 0 \/ u = v
      <3> TAKE u, v \in Txn
      <3>1. specLogId[u] < nextSpecLogId[Leader] /\ specLogId[v] < nextSpecLogId[Leader]
        BY DEF LogInv, SpecInv
      <3>2. specLogId[u] = specLogId[v] => specLogId[u] = 0 \/ u = v
        BY DEF LogInv, SpecInv
      <3> QED BY <1>2, <3>1, <3>2, SpecTypes
    <2>4. \A r \in Follower : nextSpecLogId'[r] <= nextSpecLogId'[Leader]
      <3> TAKE r \in Follower
      <3>1. nextSpecLogId[r] <= nextSpecLogId[Leader]
        BY DEF LogInv, SpecInv
      <3> QED BY <1>2, <3>1, SpecTypes
    <2> QED BY <2>1, <2>2, <2>3, <2>4 DEF SpecInv, Follower, RL!Follower
  <1>6. SpecCounterCovered'
    <2> SUFFICES ASSUME NEW r \in Follower, NEW u \in Txn,
                        specLogId'[u] # 0, specLogId'[u] < nextSpecLogId[r]
                 PROVE  InLog(r, u)
      BY <1>2, <1>3 DEF SpecCounterCovered, Follower, RL!Follower
    <2>1. nextSpecLogId[r] <= nextSpecLogId[Leader]
      BY DEF LogInv, SpecInv
    <2>2. u # t
      BY <1>2, <2>1, SpecTypes
    <2> QED BY <1>2, <2>2 DEF LogInv, SpecCounterCovered
  <1> QED BY <1>4, <1>5, <1>6 DEF LogInv

(* The commands of the leader keep the invariant of the logs. *)
LEMMA LogInvLeaderExec ==
  ASSUME TypeOK, LogInv, LeaderExecTd
  PROVE  LogInv'
  <1>1. PICK t \in Txn : RL!ExecSpec(t) \/ RL!ExecCommit(t) \/ RL!ExecRollback(t) \/ RL!ExecDirect(t)
    BY DEF LeaderExecTd, RL!LeaderExecTd
  <1>2. CASE RL!ExecSpec(t)
    BY <1>2, LogInvExecSpec
  <1>3. CASE RL!ExecCommit(t)
    BY <1>3, LogInvLogged DEF RL!ExecCommit
  <1>4. CASE RL!ExecDirect(t)
    <2>1. execStatus[t] # "EXEC_INIT" \/ specLogId[t] = 0
      BY DEF LogInv, SpecInv
    <2> QED BY <1>4, <2>1, LogInvLogged DEF RL!ExecDirect
  <1>5. CASE RL!ExecRollback(t)
    <2>1. /\ log' = log /\ specLogId' = specLogId /\ nextSpecLogId' = nextSpecLogId
          /\ execStatus' = [execStatus EXCEPT ![t] = "EXEC_ROLLBACK"]
      BY <1>5 DEF RL!ExecRollback
    <2>2. \A u \in Txn : execStatus'[u] = "EXEC_INIT" => execStatus[u] = "EXEC_INIT"
      BY <2>1, SpecTypes
    <2>3. \A r, u : InLog(r, u)' <=> InLog(r, u)
      BY <2>1, SameInLog
    <2> QED BY <2>1, <2>2, <2>3
            DEF LogInv, SyncedIsPrefix, SpecInv, SpecCounterCovered, Follower, RL!Follower
  <1> QED BY <1>1, <1>2, <1>3, <1>4, <1>5

(* A follower takes over the next entry. *)
LEMMA LogInvFollow ==
  ASSUME TypeOK, LogInv, NEW r \in Follower, RL!Follow(r)
  PROVE  LogInv'
  <1> DEFINE t == log[Leader][Len(log[r]) + 1]
  <1>1. r \in Replica /\ r # Leader /\ Leader \in Replica
    BY IsFollower, ReplicaAssumption
  <1>2. /\ log[r] \in Seq(Txn) /\ Len(log[r]) \in Nat /\ DOMAIN log[r] = 1..Len(log[r])
        /\ log[Leader] \in Seq(Txn) /\ Len(log[Leader]) \in Nat
        /\ \A i \in 1..Len(log[Leader]) : log[Leader][i] \in Txn
    BY <1>1, LogTypes, LenProperties
  <1>3. /\ Len(log[r]) < Len(log[Leader])
        /\ log' = [log EXCEPT ![r] = Append(@, t)]
        /\ execStatus' = execStatus /\ specLogId' = specLogId /\ nextSpecLogId' = nextSpecLogId
    BY DEF RL!Follow, RL!NextSyncedLogId
  <1>4. Len(log[r]) + 1 \in 1..Len(log[Leader]) /\ t \in Txn
    BY <1>2, <1>3
  <1> HIDE DEF t
  <1>5. /\ \A q \in Replica \ {r} : log'[q] = log[q]
        /\ log'[r] = Append(log[r], t)
        /\ \A u : InLog(r, u)' <=> InLog(r, u) \/ u = t
    BY <1>1, <1>3, <1>4, Appended
  <1>6. /\ Len(log'[r]) = Len(log[r]) + 1
        /\ DOMAIN log'[r] = 1..(Len(log[r]) + 1)
        /\ \A i \in 1..Len(log[r]) : log'[r][i] = log[r][i]
        /\ log'[r][Len(log[r]) + 1] = t
    BY <1>2, <1>4, <1>5, LogDomain
  <1>7. /\ log'[Leader] = log[Leader]
        /\ \A q \in Follower : q # r => log'[q] = log[q]
    BY <1>1, <1>5, IsFollower
  <1>8. SyncedIsPrefix'
    <2> SUFFICES ASSUME NEW q \in Follower
                 PROVE  /\ Len(log'[q]) <= Len(log[Leader])
                        /\ \A i \in DOMAIN log'[q] : log'[q][i] = log[Leader][i]
      BY <1>7 DEF SyncedIsPrefix, Follower, RL!Follower
    <2>1. /\ Len(log[q]) <= Len(log[Leader])
          /\ \A i \in DOMAIN log[q] : log[q][i] = log[Leader][i]
      BY DEF LogInv, SyncedIsPrefix
    <2>2. CASE q # r
      BY <1>7, <2>1, <2>2
    <2>3. CASE q = r
      <3>1. Len(log'[r]) <= Len(log[Leader])
        BY <1>2, <1>3, <1>6
      <3>2. \A i \in 1..(Len(log[r]) + 1) : i \in 1..Len(log[r]) \/ i = Len(log[r]) + 1
        BY <1>2
      <3>3. \A i \in DOMAIN log'[r] : log'[r][i] = log[Leader][i]
        BY <1>2, <1>6, <2>1, <2>3, <3>2 DEF t
      <3> QED BY <2>3, <3>1, <3>3
    <2> QED BY <2>2, <2>3
  <1>9. \A q \in Replica, u \in Txn : InLog(q, u) => InLog(q, u)'
    BY <1>5, SameInLog
  <1>10. \A u \in Txn : InLog(Leader, u)' <=> InLog(Leader, u)
    BY <1>7, SameInLog
  <1>11. SpecInv'
    BY <1>3, <1>10 DEF LogInv, SpecInv, Follower, RL!Follower
  <1>12. SpecCounterCovered'
    BY <1>3, <1>9, IsFollower DEF LogInv, SpecCounterCovered, Follower, RL!Follower
  <1> QED BY <1>8, <1>11, <1>12 DEF LogInv

(* A follower counts a speculation. *)
LEMMA LogInvCountSpec ==
  ASSUME TypeOK, LogInv, NEW r \in Follower, RL!CountSpec(r)
  PROVE  LogInv'
  <1>1. PICK t \in Txn : specLogId[t] = nextSpecLogId[r] /\ InLog(r, t)
    BY DEF RL!CountSpec, InLog
  <1>2. /\ log' = log /\ specLogId' = specLogId /\ execStatus' = execStatus
        /\ nextSpecLogId' = [nextSpecLogId EXCEPT ![r] = @ + 1]
    BY DEF RL!CountSpec
  <1>3. /\ nextSpecLogId'[r] = nextSpecLogId[r] + 1
        /\ nextSpecLogId'[Leader] = nextSpecLogId[Leader]
        /\ \A q \in Follower : q # r => nextSpecLogId'[q] = nextSpecLogId[q]
    BY <1>2, SpecTypes, IsFollower, ReplicaAssumption
  <1>4. \A q, u : InLog(q, u)' <=> InLog(q, u)
    BY <1>2, SameInLog
  <1>5. SyncedIsPrefix'
    BY <1>2 DEF LogInv, SyncedIsPrefix, Follower, RL!Follower
  <1>6. SpecInv'
    <2>1. specLogId[t] < nextSpecLogId[Leader]
      BY DEF LogInv, SpecInv
    <2>2. nextSpecLogId'[r] <= nextSpecLogId'[Leader]
      BY <1>1, <1>3, <2>1, SpecTypes
    <2>3. \A q \in Follower : nextSpecLogId'[q] <= nextSpecLogId'[Leader]
      BY <1>3, <2>2 DEF LogInv, SpecInv
    <2> QED BY <1>2, <1>3, <1>4, <2>3 DEF LogInv, SpecInv, Follower, RL!Follower
  <1>7. SpecCounterCovered'
    <2> SUFFICES ASSUME NEW q \in Follower, NEW u \in Txn,
                        specLogId[u] # 0, specLogId[u] < nextSpecLogId'[q]
                 PROVE  InLog(q, u)
      BY <1>2, <1>4 DEF SpecCounterCovered, Follower, RL!Follower
    <2>1. CASE specLogId[u] < nextSpecLogId[q]
      BY <2>1 DEF LogInv, SpecCounterCovered
    <2>2. CASE ~ (specLogId[u] < nextSpecLogId[q])
      <3>1. q = r
        BY <1>3, <2>2
      <3>2. specLogId[u] = specLogId[t]
        BY <1>1, <1>3, <2>2, <3>1, SpecTypes
      <3>3. u = t
        BY <3>2 DEF LogInv, SpecInv
      <3> QED BY <1>1, <3>1, <3>3
    <2> QED BY <2>1, <2>2
  <1> QED BY <1>5, <1>6, <1>7 DEF LogInv

-----------------------------------------------------------------------------
(* What the followers do, seen from ReplicatedLog.                         *)

(* An entry that is taken over is the next one of the leader's log.        *)
LEMMA SyncEntryFollows ==
  ASSUME IInv, NEW r \in Follower, SyncEntry(r)
  PROVE  RL!Follow(r) \/ UNCHANGED logVars
  <1>1. TypeOK /\ FollowerInv(r)
    BY DEF IInv
  <1>2. PICK m \in SyncMessage, i \in Nat, p \in 1..Len(log[Leader]) :
            /\ current[r].msg = m /\ current[r].i = i
            /\ p <= NextSyncedLogId(r)
            /\ m.entries[i] = log[Leader][p]
            /\ AlreadySynced(r, current[r]) <=> p < NextSyncedLogId(r)
    BY <1>1, EntryOf
  <1>3. \/ log' = log
        \/ /\ ~ AlreadySynced(r, current[r])
           /\ log' = [log EXCEPT ![r] = Append(@, m.entries[i])]
    BY <1>2 DEF SyncEntry
  <1>4. UNCHANGED <<execStatus, specLogId, nextSpecLogId>>
    BY DEF SyncEntry
  <1>5. CASE log' = log
    BY <1>4, <1>5
  <1>6. CASE /\ ~ AlreadySynced(r, current[r])
             /\ log' = [log EXCEPT ![r] = Append(@, m.entries[i])]
    <2>1. /\ NextSyncedLogId(r) = Len(log[r]) + 1 /\ Len(log[r]) \in Nat
          /\ Len(log[Leader]) \in Nat
      BY <1>1, LogTypes, IsFollower, ReplicaAssumption
    <2>2. p = Len(log[r]) + 1 /\ Len(log[r]) < Len(log[Leader])
      BY <1>2, <1>6, <2>1
    <2>3. log' = [log EXCEPT ![r] = Append(@, log[Leader][Len(log[r]) + 1])]
      BY <1>2, <1>6, <2>2
    <2> QED BY <1>4, <2>2, <2>3 DEF RL!Follow, RL!NextSyncedLogId
  <1> QED BY <1>3, <1>5, <1>6

(* A speculative id that is noted is one that may be counted. *)
LEMMA SyncSpecLogIdCounts ==
  ASSUME IInv, NEW r \in Follower, SyncSpecLogId(r)
  PROVE  RL!CountSpec(r)
  <1>1. TypeOK /\ FollowerInv(r)
    BY DEF IInv
  <1>2. /\ current[r] # None /\ current[r].i > Len(current[r].msg.entries)
        /\ nextSpecLogId[r] \in pendingSpecLogIds[r]
    BY DEF SyncSpecLogId, SpecIdIsNext
  <1>3. ~ Blocked(r)
    BY <1>1, <1>2, NotBlockedAtEnd
  <1>4. PICK p \in 1..Len(log[Leader]) :
          specLogId[log[Leader][p]] = nextSpecLogId[r] /\ p < NextSyncedLogId(r)
    BY <1>1, <1>2, <1>3 DEF FollowerInv, SpecIdInv
  <1>5. /\ NextSyncedLogId(r) = Len(log[r]) + 1 /\ Len(log[r]) \in Nat
        /\ DOMAIN log[r] = 1..Len(log[r])
        /\ \A i \in 1..Len(log[Leader]) : log[Leader][i] \in Txn
        /\ Len(log[Leader]) \in Nat
    BY <1>1, LogTypes, IsFollower, LenProperties, ReplicaAssumption
  <1>6. p \in DOMAIN log[r]
    BY <1>4, <1>5
  <1>7. log[r][p] = log[Leader][p] /\ log[Leader][p] \in Txn
    BY <1>4, <1>5, <1>6 DEF IInv, LogInv, SyncedIsPrefix
  <1>8. \E t \in Txn : specLogId[t] = nextSpecLogId[r] /\ RL!InLog(r, t)
    BY <1>4, <1>6, <1>7 DEF RL!InLog
  <1> QED BY <1>8 DEF SyncSpecLogId, RL!CountSpec

(* Every step of TigaReplication is one of ReplicatedLog, or none.         *)
LEMMA StepRefines ==
  ASSUME IInv, [Next]_vars
  PROVE  [RL!Next]_(RL!vars)
  <1> USE DEF RL!vars
  <1>1. CASE LeaderExecTd
    BY <1>1 DEF LeaderExecTd, RL!Next
  <1>2. CASE LeaderCrossReplicaSyncTd
    BY <1>2 DEF LeaderCrossReplicaSyncTd
  <1>3. ASSUME NEW r \in Follower, FollowerSync(r) PROVE [RL!Next]_(RL!vars)
    <2>1. CASE SyncEntry(r)
      BY <2>1, SyncEntryFollows DEF RL!Next, Follower
    <2>2. CASE SyncSpecLogId(r)
      BY <2>2, SyncSpecLogIdCounts DEF RL!Next, Follower
    <2>3. CASE InterReplicaSync(r) \/ RetryPending(r) \/ SyncDone(r)
      BY <2>3 DEF InterReplicaSync, RetryPending, SyncDone
    <2> QED BY <1>3, <2>1, <2>2, <2>3 DEF FollowerSync
  <1>4. ASSUME NEW r \in Follower, SyncStatus(r) PROVE [RL!Next]_(RL!vars)
    BY <1>4 DEF SyncStatus
  <1>5. ASSUME NEW r \in Follower, NEW t \in Txn, ReceiveRequest(r, t) PROVE [RL!Next]_(RL!vars)
    BY <1>5 DEF ReceiveRequest
  <1>6. ASSUME NEW r \in Follower, ReportSyncStatus(r) PROVE [RL!Next]_(RL!vars)
    BY <1>6 DEF ReportSyncStatus
  <1>7. CASE UNCHANGED vars
    BY <1>7 DEF vars
  <1> QED BY <1>1, <1>2, <1>3, <1>4, <1>5, <1>6, <1>7 DEF Next

-----------------------------------------------------------------------------
(* The invariant.                                                          *)

(* The initial states satisfy the invariant. *)
LEMMA InvInit == Init => IInv
  <1> SUFFICES ASSUME Init PROVE IInv
    OBVIOUS
  <1>1. TypeOK
    BY TypeInit
  <1>2. \A r \in Replica : log[r] = <<>> /\ DOMAIN log[r] = {} /\ Len(log[r]) = 0
    BY EmptySeq, LenProperties DEF Init, RL!Init
  <1>3. LogInv
    <2>1. SyncedIsPrefix
      BY <1>2, IsFollower, ReplicaAssumption DEF SyncedIsPrefix
    <2>2. SpecInv
      <3>1. \A t \in Txn : ~ InLog(Leader, t)
        BY <1>2, ReplicaAssumption DEF InLog, RL!InLog
      <3> QED BY <3>1, IsFollower, ReplicaAssumption DEF Init, RL!Init, SpecInv
    <2>3. SpecCounterCovered
      BY DEF Init, RL!Init, SpecCounterCovered
    <2> QED BY <2>1, <2>2, <2>3 DEF LogInv
  <1>4. broadcastSynced <= Len(log[Leader])
    BY <1>2, ReplicaAssumption DEF Init
  <1>5. ASSUME NEW r \in Follower PROVE FollowerInv(r)
    <2>1. /\ syncNet[r] = <<>> /\ pendingSyncs[r] = {} /\ current[r] = None
          /\ pendingSpecLogIds[r] = {} /\ Len(syncNet[r]) = 0
      BY EmptySeq DEF Init
    <2> QED BY <2>1 DEF FollowerInv, NetInv, PendingInv, IdleInv, WorkInv, SpecIdInv
  <1> QED BY <1>1, <1>3, <1>4, <1>5 DEF IInv

(* Every step keeps the invariant of the logs. *)
LEMMA LogInvNext ==
  ASSUME IInv, TypeOK', [Next]_vars
  PROVE  LogInv'
  <1>1. TypeOK /\ LogInv
    BY DEF IInv
  <1>2. CASE LeaderExecTd
    BY <1>1, <1>2, LogInvLeaderExec
  <1>3. ASSUME NEW r \in Follower, SyncEntry(r), RL!Follow(r) PROVE LogInv'
    BY <1>1, <1>3, LogInvFollow
  <1>4. ASSUME NEW r \in Follower, SyncSpecLogId(r) PROVE LogInv'
    BY <1>1, <1>4, SyncSpecLogIdCounts, LogInvCountSpec
  <1>5. ASSUME UNCHANGED logVars PROVE LogInv'
    BY <1>1, <1>5 DEF LogInv, SyncedIsPrefix, SpecInv, SpecCounterCovered, InLog, RL!InLog,
                      Follower, RL!Follower
  <1>6. \/ LeaderExecTd
        \/ \E r \in Follower : SyncEntry(r) \/ SyncSpecLogId(r)
        \/ UNCHANGED logVars
    BY DEF Next, vars, FollowerSync, LeaderCrossReplicaSyncTd, InterReplicaSync, RetryPending,
           SyncDone, SyncStatus, ReceiveRequest, ReportSyncStatus
  <1> HIDE DEF logVars
  <1> QED BY <1>2, <1>3, <1>4, <1>5, <1>6, SyncEntryFollows

(* A step of follower r leaves the others as they are. *)
LEMMA OtherFollowers ==
  ASSUME TypeOK, NEW r \in Follower, NEW q \in Follower, q # r, FollowerSync(r), FollowerInv(q)
  PROVE  FollowerInv(q)'
  <1>1. /\ log \in [Replica -> Seq(Txn)]
        /\ syncNet \in [Follower -> Seq(SyncMessage)]
        /\ pendingSyncs \in [Follower -> SUBSET SyncMessage]
        /\ current \in [Follower -> Work \cup {None}]
        /\ pendingSpecLogIds \in [Follower -> SUBSET (Nat \ {0})]
        /\ r \in Replica /\ q \in Replica /\ r # Leader /\ Leader \in Replica
    BY IsFollower, ReplicaAssumption DEF TypeOK
  <1>2. specLogId' = specLogId /\ broadcastSynced' = broadcastSynced
    BY DEF FollowerSync, InterReplicaSync, RetryPending, SyncEntry, SyncSpecLogId, SyncDone
  <1>3. log'[q] = log[q] /\ log'[Leader] = log[Leader]
    <2>1. log' = log \/ \E t : log' = [log EXCEPT ![r] = Append(@, t)]
      BY DEF FollowerSync, InterReplicaSync, RetryPending, SyncEntry, SyncSpecLogId, SyncDone
    <2> QED BY <1>1, <2>1
  <1>4. syncNet'[q] = syncNet[q]
    <2>1. syncNet' = syncNet \/ \E x : syncNet' = [syncNet EXCEPT ![r] = x]
      BY DEF FollowerSync, InterReplicaSync, RetryPending, SyncEntry, SyncSpecLogId, SyncDone
    <2> QED BY <1>1, <2>1
  <1>5. pendingSyncs'[q] = pendingSyncs[q]
    <2>1. pendingSyncs' = pendingSyncs \/ \E x : pendingSyncs' = [pendingSyncs EXCEPT ![r] = x]
      BY DEF FollowerSync, InterReplicaSync, RetryPending, SyncEntry, SyncSpecLogId, SyncDone
    <2> QED BY <1>1, <2>1
  <1>6. current'[q] = current[q]
    <2>1. current' = current \/ \E x : current' = [current EXCEPT ![r] = x]
      BY DEF FollowerSync, InterReplicaSync, RetryPending, SyncEntry, SyncSpecLogId, SyncDone
    <2> QED BY <1>1, <2>1
  <1>7. pendingSpecLogIds'[q] = pendingSpecLogIds[q]
    <2>1. \/ pendingSpecLogIds' = pendingSpecLogIds
          \/ \E x : pendingSpecLogIds' = [pendingSpecLogIds EXCEPT ![r] = x]
      BY DEF FollowerSync, InterReplicaSync, RetryPending, SyncEntry, SyncSpecLogId, SyncDone
    <2> QED BY <1>1, <2>1
  <1> QED BY <1>2, <1>3, <1>4, <1>5, <1>6, <1>7, Frame

(* Every step keeps the invariant at every follower. *)
LEMMA FollowerInvNext ==
  ASSUME IInv, TypeOK', [Next]_vars, NEW q \in Follower
  PROVE  FollowerInv(q)'
  <1>1. TypeOK /\ FollowerInv(q)
    BY DEF IInv
  <1>2. CASE LeaderExecTd
    BY <1>2, FollowerInvLeaderExec
  <1>3. CASE LeaderCrossReplicaSyncTd
    BY <1>3, FollowerInvLeaderSync
  <1>4. ASSUME NEW r \in Follower, FollowerSync(r) PROVE FollowerInv(q)'
    <2>1. CASE q # r
      BY <1>1, <1>4, <2>1, OtherFollowers
    <2>2. CASE q = r
      BY <1>1, <1>4, <2>2, FollowerInvInterReplicaSync, FollowerInvRetryPending,
         FollowerInvSyncEntry, FollowerInvSyncSpecLogId, FollowerInvSyncDone DEF FollowerSync
    <2> QED BY <2>1, <2>2
  <1>5. CASE /\ UNCHANGED logVars /\ UNCHANGED followerVars
             /\ syncNet' = syncNet /\ broadcastSynced' = broadcastSynced
    BY <1>1, <1>5, Frame
  <1>6. \/ LeaderExecTd \/ LeaderCrossReplicaSyncTd
        \/ \E r \in Follower : FollowerSync(r)
        \/ /\ UNCHANGED logVars /\ UNCHANGED followerVars
           /\ syncNet' = syncNet /\ broadcastSynced' = broadcastSynced
    BY DEF Next, vars, SyncStatus, ReceiveRequest, ReportSyncStatus
  <1> QED BY <1>2, <1>3, <1>4, <1>5, <1>6

(* The invariant is inductive. *)
LEMMA InvNext == IInv /\ [Next]_vars => IInv'
  <1> SUFFICES ASSUME IInv, [Next]_vars PROVE IInv'
    OBVIOUS
  <1>1. TypeOK /\ TypeOK'
    BY TypeNext DEF IInv
  <1>2. LogInv'
    BY <1>1, LogInvNext
  <1>3. \A q \in Follower : FollowerInv(q)'
    BY <1>1, FollowerInvNext
  <1>4. broadcastSynced' <= Len(log'[Leader])
    <2>1. broadcastSynced \in Nat /\ broadcastSynced' \in Nat
      BY <1>1 DEF TypeOK
    <2>2. /\ log \in [Replica -> Seq(Txn)] /\ log' \in [Replica -> Seq(Txn)]
          /\ Len(log[Leader]) \in Nat /\ Len(log'[Leader]) \in Nat
          /\ log[Leader] \in Seq(Txn)
      BY <1>1, ReplicaAssumption, LenProperties DEF TypeOK
    <2>3. Len(log[Leader]) <= Len(log'[Leader])
      <3>1. CASE LeaderExecTd
        <4>1. PICK t \in Txn : log' = log \/ log' = [log EXCEPT ![Leader] = Append(@, t)]
          BY <3>1 DEF LeaderExecTd, RL!LeaderExecTd, RL!ExecSpec, RL!ExecCommit,
                      RL!ExecRollback, RL!ExecDirect
        <4>2. log'[Leader] = log[Leader] \/ log'[Leader] = Append(log[Leader], t)
          BY <2>2, <4>1, ReplicaAssumption
        <4>3. Len(Append(log[Leader], t)) = Len(log[Leader]) + 1
          BY <2>2, LogDomain
        <4> QED BY <2>2, <4>2, <4>3
      <3>2. CASE \E r \in Follower : SyncEntry(r)
        <4>1. PICK r \in Follower : \E t : log' = log \/ log' = [log EXCEPT ![r] = Append(@, t)]
          BY <3>2 DEF SyncEntry
        <4>2. log'[Leader] = log[Leader]
          BY <2>2, <4>1, IsFollower, ReplicaAssumption
        <4> QED BY <2>2, <4>2
      <3>3. CASE log' = log
        BY <2>2, <3>3
      <3>4. LeaderExecTd \/ (\E r \in Follower : SyncEntry(r)) \/ log' = log
        BY DEF Next, vars, FollowerSync, LeaderCrossReplicaSyncTd, InterReplicaSync, RetryPending,
               SyncSpecLogId, SyncDone, SyncStatus, ReceiveRequest, ReportSyncStatus
      <3> QED BY <3>1, <3>2, <3>3, <3>4
    <2>4. broadcastSynced' = broadcastSynced \/ broadcastSynced' = Len(log'[Leader])
      BY DEF Next, vars, FollowerSync, LeaderExecTd, LeaderCrossReplicaSyncTd, InterReplicaSync,
             RetryPending, SyncEntry, SyncSpecLogId, SyncDone, SyncStatus, ReceiveRequest,
             ReportSyncStatus
    <2>5. broadcastSynced <= Len(log[Leader])
      BY DEF IInv
    <2> QED BY <2>1, <2>2, <2>3, <2>4, <2>5
  <1> QED BY <1>1, <1>2, <1>3, <1>4 DEF IInv, Follower, RL!Follower

(* The invariant holds: messages hold pieces of the leader's log, they are *)
(* processed in log order, and what is noted is in the log or blocked.     *)
THEOREM SyncInvariant == Spec => []IInv
  <1> QED BY InvInit, InvNext, PTL DEF Spec

(* The synced log of a follower is a prefix of its leader's                *)
(* (ProcessInterReplicaSync).                                              *)
THEOREM FollowersFollow == Spec => []SyncedIsPrefix
  <1>1. IInv => SyncedIsPrefix
    BY DEF IInv, LogInv
  <1> QED BY <1>1, SyncInvariant, PTL

(* A follower's counter of speculative ids is only past ids of             *)
(* transactions in its synced log.                                         *)
THEOREM SpeculationsCovered == Spec => []SpecCounterCovered
  <1>1. IInv => SpecCounterCovered
    BY DEF IInv, LogInv
  <1> QED BY <1>1, SyncInvariant, PTL

(* The pieces of the log, the requests that are late, the messages put     *)
(* aside and begun again amount to following the log entry by entry.       *)
THEOREM ImplementsLog == Spec => ReplicatedLogSpec
  <1>1. Init => RL!Init
    BY DEF Init
  <1>2. IInv /\ [Next]_vars => [RL!Next]_(RL!vars)
    BY StepRefines
  <1> QED BY <1>1, <1>2, SyncInvariant, PTL DEF Spec, RL!Spec, ReplicatedLogSpec

-----------------------------------------------------------------------------
(* Nothing is lost.                                                        *)

(* Each entry that r received and has not synced is in a message that it   *)
(* has put aside or works on.                                              *)
HeldInv(r) ==
    /\ NextSyncedLogId(r) <= NextReceived(r)
    /\ \A p \in Nat : NextSyncedLogId(r) <= p /\ p < NextReceived(r) =>
          \/ \E m \in pendingSyncs[r] : m.start <= p /\ p < End(m)
          \/ current[r] # None /\ current[r].msg.start <= p /\ p < End(current[r].msg)

(* Only the message that r works on may be synced in part. *)
OthersInv(r) ==
    current[r] # None =>
        \A m \in pendingSyncs[r] : m = current[r].msg \/ NextSyncedLogId(r) <= m.start

AtEnd(r) == current[r] # None /\ current[r].i > Len(current[r].msg.entries)

(* Entry p of the leader's log was speculated on and is counted by r. *)
Counted(r, p) ==
    specLogId[log[Leader][p]] # 0 /\ specLogId[log[Leader][p]] < nextSpecLogId[r]

(* No counted entry is in a message that r has still to process. *)
CountedInv(r) ==
    \A p \in 1..Len(log[Leader]) : Counted(r, p) =>
        /\ p < NextSyncedLogId(r)
        /\ current[r] # None /\ ~ AtEnd(r) => p < current[r].msg.start
        /\ \A m \in pendingSyncs[r] : p < m.start \/ (AtEnd(r) /\ m = current[r].msg)

(* What is noted is what is synced and not counted; it is looked at before *)
(* r has no message left.                                                  *)
NotedInv(r) ==
    /\ nextSpecLogId[r] >= 1
    /\ \A p \in 1..Len(log[r]) : nextSpecLogId[r] <= specLogId[log[r][p]]
                                 => specLogId[log[r][p]] \in pendingSpecLogIds[r]
    /\ \A n \in pendingSpecLogIds[r] : nextSpecLogId[r] <= n
    /\ current[r] = None /\ pendingSyncs[r] = {} => ~ SpecIdIsNext(r)

LossInv(r) == HeldInv(r) /\ OthersInv(r) /\ CountedInv(r) /\ NotedInv(r)

(* A transaction is logged once. *)
OnceInv ==
    /\ \A t \in Txn : InLog(Leader, t) => execStatus[t] \in {"EXEC_COMMITING", "EXEC_DIRECT"}
    /\ \A p, q \in 1..Len(log[Leader]) : log[Leader][p] = log[Leader][q] => p = q

NInv == IInv /\ OnceInv /\ \A r \in Follower : LossInv(r)

(* What the lemmas below know of follower r before a step, and after. *)
LEMMA KnownOf ==
  ASSUME IInv, NEW r \in Follower
  PROVE  /\ TypeOK /\ NetInv(r) /\ PendingInv(r) /\ IdleInv(r) /\ WorkInv(r) /\ SpecIdInv(r)
         /\ NextSyncedLogId(r) \in Nat /\ NextReceived(r) \in Nat
         /\ NextSyncedLogId(r) = Len(log[r]) + 1 /\ Len(log[r]) \in Nat
         /\ log[r] \in Seq(Txn) /\ log[Leader] \in Seq(Txn) /\ Len(log[Leader]) \in Nat
         /\ nextSpecLogId[r] \in Nat /\ r \in Replica /\ r # Leader /\ Leader \in Replica
         /\ \A i \in 1..Len(log[Leader]) : log[Leader][i] \in Txn
         /\ \A i \in 1..Len(log[r]) : log[r][i] \in Txn /\ log[r][i] = log[Leader][i]
         /\ Len(log[r]) <= Len(log[Leader])
         /\ \A t \in Txn : specLogId[t] \in Nat
         /\ \A m \in pendingSyncs[r] : /\ m.start \in Nat /\ End(m) \in Nat
                                      /\ m.start <= End(m) /\ m \in SyncMessage
  <1>1. /\ TypeOK /\ FollowerInv(r) /\ LogInv
    BY DEF IInv
  <1>2. /\ r \in Replica /\ r # Leader /\ Leader \in Replica
    BY IsFollower, ReplicaAssumption
  <1>3. NextReceived(r) \in Nat
    <2>1. CASE syncNet[r] = <<>>
      BY <1>1, <2>1, FollowerTypes DEF NextReceived
    <2>2. CASE syncNet[r] # <<>>
      <3>1. syncNet[r][1] \in SyncMessage
        BY <1>1, <2>2, FollowerTypes, EmptySeq
      <3> QED BY <2>2, <3>1, MessageTypes DEF NextReceived
    <2> QED BY <2>1, <2>2
  <1>4. /\ Len(log[r]) <= Len(log[Leader])
        /\ \A i \in 1..Len(log[r]) : log[r][i] = log[Leader][i]
    <2>1. DOMAIN log[r] = 1..Len(log[r])
      BY <1>1, <1>2, LogTypes, LenProperties
    <2> QED BY <1>1, <2>1 DEF LogInv, SyncedIsPrefix
  <1>5. \A m \in pendingSyncs[r] : /\ m.start \in Nat /\ End(m) \in Nat
                                  /\ m.start <= End(m) /\ m \in SyncMessage
    BY <1>1, FollowerTypes, MessageTypes
  <1> QED BY <1>1, <1>2, <1>3, <1>4, <1>5, LogTypes, SpecTypes DEF FollowerInv

(* It depends on nothing but what follows. *)
LEMMA LossFrame ==
  ASSUME NEW r \in Follower, LossInv(r),
         log'[r] = log[r], log'[Leader] = log[Leader], specLogId' = specLogId,
         nextSpecLogId'[r] = nextSpecLogId[r], NextReceived(r)' = NextReceived(r),
         pendingSyncs'[r] = pendingSyncs[r], current'[r] = current[r],
         pendingSpecLogIds'[r] = pendingSpecLogIds[r]
  PROVE  LossInv(r)'
  <1>1. NextSyncedLogId(r)' = NextSyncedLogId(r)
    BY DEF NextSyncedLogId, RL!NextSyncedLogId
  <1>2. HeldInv(r)'
    BY <1>1 DEF LossInv, HeldInv, End
  <1>3. OthersInv(r)'
    BY <1>1 DEF LossInv, OthersInv
  <1>4. CountedInv(r)'
    BY <1>1 DEF LossInv, CountedInv, Counted, AtEnd
  <1>5. NotedInv(r)'
    BY DEF LossInv, NotedInv, SpecIdIsNext
  <1> QED BY <1>2, <1>3, <1>4, <1>5 DEF LossInv

(* The leader logs a transaction that is not in its log. *)
LEMMA OnceLogged ==
  ASSUME TypeOK, OnceInv, NEW t \in Txn, execStatus[t] \notin {"EXEC_COMMITING", "EXEC_DIRECT"},
         \E status \in {"EXEC_COMMITING", "EXEC_DIRECT"} :
             execStatus' = [execStatus EXCEPT ![t] = status],
         log' = [log EXCEPT ![Leader] = Append(@, t)]
  PROVE  OnceInv'
  <1>1. /\ log[Leader] \in Seq(Txn) /\ log'[Leader] = Append(log[Leader], t)
        /\ \A u : InLog(Leader, u)' <=> InLog(Leader, u) \/ u = t
    BY Appended, ReplicaAssumption
  <1>2. /\ DOMAIN log[Leader] = 1..Len(log[Leader]) /\ Len(log[Leader]) \in Nat
        /\ Len(log'[Leader]) = Len(log[Leader]) + 1
        /\ \A i \in 1..Len(log[Leader]) : log'[Leader][i] = log[Leader][i]
        /\ log'[Leader][Len(log[Leader]) + 1] = t
    BY <1>1, LogDomain
  <1>3. ~ InLog(Leader, t)
    BY DEF OnceInv
  <1>4. \A i \in 1..Len(log[Leader]) : log[Leader][i] # t
    BY <1>2, <1>3 DEF InLog, RL!InLog
  <1>5. \A p, q \in 1..Len(log'[Leader]) : log'[Leader][p] = log'[Leader][q] => p = q
    <2> SUFFICES ASSUME NEW p \in 1..(Len(log[Leader]) + 1), NEW q \in 1..(Len(log[Leader]) + 1),
                        log'[Leader][p] = log'[Leader][q]
                 PROVE  p = q
      BY <1>2
    <2>1. /\ p \in 1..Len(log[Leader]) \/ p = Len(log[Leader]) + 1
          /\ q \in 1..Len(log[Leader]) \/ q = Len(log[Leader]) + 1
      BY <1>2
    <2> QED BY <1>2, <1>4, <2>1 DEF OnceInv
  <1>6. \A u \in Txn : InLog(Leader, u)' => execStatus'[u] \in {"EXEC_COMMITING", "EXEC_DIRECT"}
    BY <1>1, SpecTypes DEF OnceInv
  <1> QED BY <1>5, <1>6 DEF OnceInv

(* Every step keeps it so. *)
LEMMA OnceNext ==
  ASSUME IInv, OnceInv, [Next]_vars
  PROVE  OnceInv'
  <1>1. TypeOK /\ Leader \in Replica
    BY ReplicaAssumption DEF IInv
  <1>2. ASSUME NEW t \in Txn, RL!ExecCommit(t) \/ RL!ExecDirect(t) PROVE OnceInv'
    BY <1>1, <1>2, OnceLogged DEF RL!ExecCommit, RL!ExecDirect
  <1>3. ASSUME NEW t \in Txn, RL!ExecSpec(t) \/ RL!ExecRollback(t) PROVE OnceInv'
    <2>1. /\ log' = log
          /\ execStatus[t] \notin {"EXEC_COMMITING", "EXEC_DIRECT"}
          /\ \E status : execStatus' = [execStatus EXCEPT ![t] = status]
      BY <1>3 DEF RL!ExecSpec, RL!ExecRollback
    <2>2. \A u : InLog(Leader, u)' <=> InLog(Leader, u)
      BY <2>1, SameInLog
    <2>3. \A u \in Txn : u # t => execStatus'[u] = execStatus[u]
      BY <1>1, <2>1, SpecTypes
    <2>4. ~ InLog(Leader, t)
      BY <2>1 DEF OnceInv
    <2> QED BY <2>1, <2>2, <2>3, <2>4 DEF OnceInv
  <1>4. ASSUME log'[Leader] = log[Leader], execStatus' = execStatus PROVE OnceInv'
    BY <1>4, SameInLog DEF OnceInv
  <1>5. ASSUME NEW r \in Follower, SyncEntry(r) PROVE OnceInv'
    <2>1. execStatus' = execStatus /\ \E t : log' = log \/ log' = [log EXCEPT ![r] = Append(@, t)]
      BY <1>5 DEF SyncEntry
    <2>2. log'[Leader] = log[Leader]
      BY <1>1, <2>1, IsFollower DEF TypeOK
    <2> QED BY <1>4, <2>1, <2>2
  <1>6. \/ LeaderExecTd
        \/ \E r \in Follower : SyncEntry(r)
        \/ log' = log /\ execStatus' = execStatus
    BY DEF Next, vars, FollowerSync, LeaderCrossReplicaSyncTd, InterReplicaSync, RetryPending,
           SyncSpecLogId, SyncDone, SyncStatus, ReceiveRequest, ReportSyncStatus
  <1> QED BY <1>2, <1>3, <1>4, <1>5, <1>6 DEF LeaderExecTd, RL!LeaderExecTd

(* The commands of the leader. *)
LEMMA LossLeaderExec ==
  ASSUME NInv, LeaderExecTd, NEW r \in Follower
  PROVE  LossInv(r)'
  <1> DEFINE len == Len(log[Leader])
  <1>1. PICK t \in Txn : RL!ExecSpec(t) \/ RL!ExecCommit(t) \/ RL!ExecRollback(t) \/ RL!ExecDirect(t)
    BY DEF LeaderExecTd, RL!LeaderExecTd
  <1>2. IInv /\ OnceInv /\ LossInv(r)
    BY DEF NInv
  <1>3. /\ TypeOK /\ r \in Replica /\ r # Leader /\ Leader \in Replica
        /\ log[r] \in Seq(Txn) /\ Len(log[r]) \in Nat /\ log[Leader] \in Seq(Txn) /\ len \in Nat
        /\ \A i \in 1..len : log[Leader][i] \in Txn
        /\ \A i \in 1..Len(log[r]) : log[r][i] \in Txn /\ log[r][i] = log[Leader][i]
        /\ Len(log[r]) <= len
    BY <1>2, KnownOf
  <1>4. /\ log \in [Replica -> Seq(Txn)] /\ specLogId \in [Txn -> Nat]
        /\ nextSpecLogId \in [Replica -> Nat]
    BY <1>3 DEF TypeOK
  <1>5. /\ syncNet'[r] = syncNet[r] /\ broadcastSynced' = broadcastSynced
        /\ pendingSyncs'[r] = pendingSyncs[r] /\ current'[r] = current[r]
        /\ pendingSpecLogIds'[r] = pendingSpecLogIds[r]
        /\ NextReceived(r)' = NextReceived(r)
    BY DEF LeaderExecTd, NextReceived
  <1>6. log'[r] = log[r] /\ nextSpecLogId'[r] = nextSpecLogId[r]
    BY <1>1, <1>3, <1>4 DEF RL!ExecSpec, RL!ExecCommit, RL!ExecRollback, RL!ExecDirect
  <1>7. NextSyncedLogId(r)' = NextSyncedLogId(r)
    BY <1>6 DEF NextSyncedLogId, RL!NextSyncedLogId
  <1>8. ~ InLog(Leader, t)
    BY <1>1, <1>2 DEF OnceInv, RL!ExecSpec, RL!ExecCommit, RL!ExecRollback, RL!ExecDirect
  <1>9. \A i \in 1..len : log[Leader][i] # t
    <2>1. DOMAIN log[Leader] = 1..len
      BY <1>3, LenProperties
    <2> QED BY <1>8, <2>1 DEF InLog, RL!InLog
  <1>10. \A u \in Txn : u # t => specLogId'[u] = specLogId[u]
    BY <1>1, <1>4 DEF RL!ExecSpec, RL!ExecCommit, RL!ExecRollback, RL!ExecDirect
  <1>11. \A i \in 1..len : specLogId'[log[Leader][i]] = specLogId[log[Leader][i]]
    BY <1>3, <1>9, <1>10
  <1>12. \A i \in 1..Len(log[r]) : specLogId'[log[r][i]] = specLogId[log[r][i]]
    BY <1>3, <1>11
  <1>13. HeldInv(r)' /\ OthersInv(r)'
    BY <1>2, <1>5, <1>7 DEF LossInv, HeldInv, OthersInv, End
  <1>14. NotedInv(r)'
    BY <1>2, <1>5, <1>6, <1>12 DEF LossInv, NotedInv, SpecIdIsNext
  <1>15. CountedInv(r)'
    <2>1. \A p \in 1..Len(log'[Leader]) : Counted(r, p)' => p \in 1..len /\ Counted(r, p)
      <3>1. CASE log' = log
        BY <1>6, <1>11, <3>1 DEF Counted
      <3>2. CASE log' = [log EXCEPT ![Leader] = Append(@, t)] /\ specLogId' = specLogId
        <4>1. log'[Leader] = Append(log[Leader], t)
          BY <1>3, <3>2, Appended
        <4>2. /\ Len(log'[Leader]) = len + 1 /\ log'[Leader][len + 1] = t
              /\ \A i \in 1..len : log'[Leader][i] = log[Leader][i]
          BY <1>3, <4>1, LogDomain
        <4>3. ASSUME NEW p, p = len + 1, Counted(r, p)' PROVE FALSE
          <5>0. specLogId[t] # 0 /\ specLogId[t] < nextSpecLogId[r]
            BY <1>6, <3>2, <4>2, <4>3 DEF Counted
          <5>1. InLog(r, t)
            BY <1>2, <5>0 DEF IInv, LogInv, SpecCounterCovered
          <5>2. PICK i \in 1..Len(log[r]) : log[r][i] = t
            <6>1. DOMAIN log[r] = 1..Len(log[r])
              BY <1>3, LenProperties
            <6> QED BY <5>1, <6>1 DEF InLog, RL!InLog
          <5>3. log[Leader][i] = t /\ i \in 1..len
            BY <1>3, <5>2
          <5> QED BY <1>9, <5>3
        <4>4. \A p \in 1..(len + 1) : p \in 1..len \/ p = len + 1
          BY <1>3
        <4>5. \A p \in 1..len : Counted(r, p)' => Counted(r, p)
          BY <1>6, <3>2, <4>2 DEF Counted
        <4> QED BY <4>2, <4>3, <4>4, <4>5
      <3> QED BY <1>1, <3>1, <3>2 DEF RL!ExecSpec, RL!ExecCommit, RL!ExecRollback, RL!ExecDirect
    <2> QED BY <1>2, <1>5, <1>7, <2>1 DEF LossInv, CountedInv, AtEnd
  <1> QED BY <1>13, <1>14, <1>15 DEF LossInv

(* A piece of the log is sent: what r is to receive next stays the same. *)
LEMMA LossLeaderSync ==
  ASSUME NInv, LeaderCrossReplicaSyncTd, NEW r \in Follower
  PROVE  LossInv(r)'
  <1>1. IInv /\ LossInv(r) /\ TypeOK /\ syncNet \in [Follower -> Seq(SyncMessage)]
    BY DEF NInv, IInv, TypeOK
  <1>2. NextReceived(r)' = NextReceived(r)
    <2> DEFINE m == [start |-> broadcastSynced + 1,
                     entries |-> SubSeq(log[Leader], broadcastSynced + 1, Len(log[Leader])),
                     commitPoint |-> commitPoint[Leader]]
               len == Len(syncNet[r])
    <2>1. m \in SyncMessage /\ m.start = broadcastSynced + 1
      BY <1>1, TypePiece
    <2>2. syncNet'[r] = Append(syncNet[r], m)
      BY DEF LeaderCrossReplicaSyncTd
    <2> HIDE DEF m
    <2>3. syncNet[r] \in Seq(SyncMessage) /\ len \in Nat
      BY <1>1, FollowerTypes
    <2>4. /\ Len(syncNet'[r]) = len + 1 /\ syncNet'[r][len + 1] = m
          /\ \A k \in 1..len : syncNet'[r][k] = syncNet[r][k]
      BY <2>1, <2>2, <2>3, AppendProperties
    <2>5. syncNet'[r] # <<>>
      BY <2>3, <2>4
    <2>6. CASE syncNet[r] = <<>>
      BY <2>1, <2>3, <2>4, <2>5, <2>6 DEF NextReceived
    <2>7. CASE syncNet[r] # <<>>
      <3>1. 1 \in 1..len
        BY <2>3, <2>7, EmptySeq
      <3> QED BY <2>4, <2>5, <2>7, <3>1 DEF NextReceived
    <2> QED BY <2>6, <2>7
  <1> QED BY <1>1, <1>2, LossFrame DEF LeaderCrossReplicaSyncTd

(* A speculative id is counted. *)
LEMMA LossSyncSpecLogId ==
  ASSUME NInv, NEW r \in Follower, SyncSpecLogId(r)
  PROVE  LossInv(r)'
  <1>1. /\ IInv /\ OnceInv /\ LossInv(r) /\ FollowerInv(r)
    BY DEF NInv, IInv
  <1>2. /\ TypeOK /\ NextSyncedLogId(r) \in Nat /\ nextSpecLogId[r] \in Nat /\ r \in Replica
        /\ \A i \in 1..Len(log[Leader]) : log[Leader][i] \in Txn
        /\ \A i \in 1..Len(log[r]) : log[r][i] \in Txn
        /\ \A t \in Txn : specLogId[t] \in Nat
        /\ pendingSpecLogIds[r] \in SUBSET (Nat \ {0})
    BY <1>1, KnownOf, FollowerTypes
  <1>3. /\ log' = log /\ specLogId' = specLogId /\ broadcastSynced' = broadcastSynced
        /\ pendingSyncs' = pendingSyncs /\ syncNet' = syncNet /\ current' = current
        /\ current[r] # None /\ AtEnd(r) /\ SpecIdIsNext(r)
        /\ pendingSpecLogIds'[r] = pendingSpecLogIds[r] \ {nextSpecLogId[r]}
        /\ nextSpecLogId'[r] = nextSpecLogId[r] + 1
    <2>1. /\ pendingSpecLogIds \in [Follower -> SUBSET (Nat \ {0})]
          /\ nextSpecLogId \in [Replica -> Nat]
      BY <1>2 DEF TypeOK
    <2> QED BY <1>2, <2>1 DEF SyncSpecLogId, AtEnd
  <1>4. /\ NextSyncedLogId(r)' = NextSyncedLogId(r) /\ NextReceived(r)' = NextReceived(r)
    BY <1>3 DEF NextSyncedLogId, RL!NextSyncedLogId, NextReceived
  <1>5. HeldInv(r)' /\ OthersInv(r)'
    BY <1>1, <1>3, <1>4 DEF LossInv, HeldInv, OthersInv, End
  <1>6. NotedInv(r)'
    <2>1. \A p \in 1..Len(log[r]) : nextSpecLogId[r] + 1 <= specLogId[log[r][p]]
                                    => specLogId[log[r][p]] \in pendingSpecLogIds'[r]
      BY <1>1, <1>2, <1>3 DEF LossInv, NotedInv
    <2>2. \A n \in pendingSpecLogIds'[r] : nextSpecLogId[r] + 1 <= n
      <3> TAKE n \in pendingSpecLogIds'[r]
      <3>1. n \in Nat /\ n # nextSpecLogId[r] /\ nextSpecLogId[r] <= n
        BY <1>1, <1>2, <1>3 DEF LossInv, NotedInv
      <3> QED BY <1>2, <3>1
    <2>3. nextSpecLogId[r] + 1 >= 1
      BY <1>2
    <2> QED BY <1>3, <2>1, <2>2, <2>3 DEF NotedInv
  <1>7. CountedInv(r)'
    <2> SUFFICES ASSUME NEW p \in 1..Len(log[Leader]), Counted(r, p)'
                 PROVE  /\ p < NextSyncedLogId(r)
                        /\ \A m \in pendingSyncs[r] : p < m.start \/ m = current[r].msg
      BY <1>3, <1>4 DEF CountedInv, AtEnd
    <2>1. CASE Counted(r, p)
      BY <1>1, <2>1 DEF LossInv, CountedInv
    <2>2. CASE ~ Counted(r, p)
      <3>1. specLogId[log[Leader][p]] = nextSpecLogId[r]
        BY <1>2, <1>3, <2>2 DEF Counted
      <3>2. ~ Blocked(r)
        BY <1>1, <1>2, <1>3, NotBlockedAtEnd DEF AtEnd
      <3>3. PICK q \in 1..Len(log[Leader]) :
              /\ specLogId[log[Leader][q]] = nextSpecLogId[r]
              /\ q < NextSyncedLogId(r)
        BY <1>1, <1>3, <3>2 DEF FollowerInv, SpecIdInv, SpecIdIsNext
      <3>4. log[Leader][p] = log[Leader][q]
        <4>1. nextSpecLogId[r] # 0
          BY <1>1, <1>2 DEF LossInv, NotedInv
        <4> QED BY <1>1, <1>2, <3>1, <3>3, <4>1 DEF IInv, LogInv, SpecInv
      <3>5. p = q
        BY <1>1, <3>4 DEF OnceInv
      <3>6. \A m \in pendingSyncs[r] : m = current[r].msg \/ NextSyncedLogId(r) <= m.start
        BY <1>1, <1>3 DEF LossInv, OthersInv
      <3>7. \A m \in pendingSyncs[r] : m.start \in Nat
        BY <1>1, KnownOf
      <3> QED BY <1>2, <3>3, <3>5, <3>6, <3>7
    <2> QED BY <2>1, <2>2
  <1> QED BY <1>5, <1>6, <1>7 DEF LossInv

(* The follower has looked at the messages put aside, and works on the     *)
(* first that it can process.                                              *)
LEMMA LossLook ==
  ASSUME TypeOK', NEW r \in Follower, PendingInv(r)', NextSyncedLogId(r)' \in Nat,
         current'[r] = NextPending(pendingSyncs'[r], NextSyncedLogId(r)'),
         \A m \in pendingSyncs'[r] : NextSyncedLogId(r)' <= m.start \/ HasNext(m, r)',
         \A p \in 1..Len(log'[Leader]) : Counted(r, p)' =>
             p < NextSyncedLogId(r)' /\ \A m \in pendingSyncs'[r] : p < m.start
  PROVE  OthersInv(r)' /\ CountedInv(r)'
  <1>1. PICK pending \in SUBSET SyncMessage, next \in Nat :
            pending = pendingSyncs'[r] /\ next = NextSyncedLogId(r)'
    BY DEF TypeOK
  <1>2. CASE NextPending(pending, next) = None
    BY <1>1, <1>2 DEF OthersInv, CountedInv
  <1>3. CASE \E m \in pending : /\ IsLowest(m, pending) /\ m.start <= next
                              /\ NextPending(pending, next) =
                                    [msg |-> m, i |-> 1, queued |-> TRUE]
    <2>1. PICK m \in pending : /\ IsLowest(m, pending) /\ m.start <= next
                             /\ NextPending(pending, next) =
                                   [msg |-> m, i |-> 1, queued |-> TRUE]
      BY <1>3
    <2>2. current'[r].msg = m
      BY <1>1, <2>1
    <2>3. ASSUME NEW n \in pending, n # m, n.start < next PROVE FALSE
      <3>1. /\ m.start \in Nat /\ End(m) \in Nat /\ m.start <= End(m)
            /\ n.start \in Nat /\ End(n) \in Nat /\ n.start <= End(n)
            /\ m.start <= n.start
        BY <2>1, MessageTypes DEF IsLowest
      <3>2. /\ End(m) <= n.start \/ End(n) <= m.start
            /\ m.start # n.start
        BY <1>1, <2>3 DEF PendingInv, End
      <3>3. /\ next <= n.start \/ next < End(n)
            /\ next <= m.start \/ next < End(m)
        BY <1>1 DEF HasNext, End
      <3> QED BY <2>1, <2>3, <3>1, <3>2, <3>3
    <2>4. \A n \in pending : n = m \/ next <= n.start
      <3> TAKE n \in pending
      <3>1. n.start \in Nat
        BY MessageTypes
      <3> QED BY <2>3, <3>1
    <2>5. OthersInv(r)'
      BY <1>1, <2>2, <2>4 DEF OthersInv
    <2>6. CountedInv(r)'
      BY <1>1, <2>1, <2>2 DEF CountedInv
    <2> QED BY <2>5, <2>6
  <1> QED BY <1>1, <1>2, <1>3, NextPendingIs

(* A message is received. *)
LEMMA LossInterReplicaSync ==
  ASSUME NInv, IInv', NEW r \in Follower, InterReplicaSync(r)
  PROVE  LossInv(r)'
  <1> DEFINE m == Head(syncNet[r])
  <1>1. /\ IInv /\ LossInv(r) /\ TypeOK /\ TypeOK'
    BY DEF NInv, IInv
  <1>2. /\ log' = log /\ specLogId' = specLogId /\ broadcastSynced' = broadcastSynced
        /\ nextSpecLogId' = nextSpecLogId /\ pendingSpecLogIds' = pendingSpecLogIds
        /\ syncNet[r] # <<>> /\ current[r] = None
        /\ syncNet'[r] = Tail(syncNet[r])
    BY <1>1 DEF InterReplicaSync, TypeOK
  <1>3. /\ NextSyncedLogId(r)' = NextSyncedLogId(r)
        /\ \A n : FromLog(n)' <=> FromLog(n)
        /\ \A n : HasNext(n, r)' <=> HasNext(n, r)
    BY <1>2, SameLog
  <1>4. /\ NetInv(r) /\ PendingInv(r) /\ IdleInv(r) /\ NextSyncedLogId(r) \in Nat
        /\ \A n \in pendingSyncs[r] : /\ n.start \in Nat /\ End(n) \in Nat
                                     /\ n.start <= End(n) /\ n \in SyncMessage
    BY <1>1, KnownOf
  <1>5. PendingInv(r)' /\ WorkInv(r)'
    BY DEF IInv, FollowerInv, Follower, RL!Follower
  <1>6. /\ m \in SyncMessage
        /\ NextReceived(r) = m.start /\ NextReceived(r)' = End(m)
    BY <1>1, <1>2, <1>3, <1>4, Receive
  <1>7. m.start \in Nat /\ End(m) \in Nat /\ m.start <= End(m)
    BY <1>6, MessageTypes
  <1>8. /\ NextSyncedLogId(r) <= m.start
        /\ \A p \in Nat : NextSyncedLogId(r) <= p /\ p < m.start =>
              \E n \in pendingSyncs[r] : n.start <= p /\ p < End(n)
    BY <1>1, <1>2, <1>6 DEF LossInv, HeldInv
  <1>9. \A p \in 1..Len(log[Leader]) : Counted(r, p) =>
            p < NextSyncedLogId(r) /\ \A n \in pendingSyncs[r] : p < n.start
    BY <1>1, <1>2 DEF LossInv, CountedInv, AtEnd
  <1>10. \A p : Counted(r, p)' <=> Counted(r, p)
    BY <1>2 DEF Counted
  <1>11. CASE /\ NextSyncedLogId(r) < m.start
              /\ pendingSyncs'[r] = PutAside(pendingSyncs[r], m)
              /\ current'[r] = NextPending(pendingSyncs'[r], NextSyncedLogId(r))
    <2> HIDE DEF m
    <2>1. pendingSyncs'[r] = {n \in pendingSyncs[r] : n.start # m.start} \cup {m}
      BY <1>11 DEF PutAside
    <2>2. OthersInv(r)' /\ CountedInv(r)'
      <3>1. \A n \in pendingSyncs'[r] : NextSyncedLogId(r) <= n.start \/ HasNext(n, r)
        BY <1>2, <1>4, <1>7, <1>11, <2>1 DEF IdleInv
      <3>2. \A p \in 1..Len(log[Leader]) : Counted(r, p) =>
                p < NextSyncedLogId(r) /\ \A n \in pendingSyncs'[r] : p < n.start
        BY <1>4, <1>7, <1>9, <1>11, <2>1
      <3> QED BY <1>1, <1>2, <1>3, <1>4, <1>5, <1>10, <1>11, <3>1, <3>2, LossLook
    <2>3. HeldInv(r)'
      <3>1. ASSUME NEW p \in Nat, NextSyncedLogId(r) <= p, p < End(m)
            PROVE  \E n \in pendingSyncs'[r] : n.start <= p /\ p < End(n)
        <4>1. CASE p < m.start
          BY <1>4, <1>7, <1>8, <2>1, <3>1, <4>1
        <4>2. CASE m.start <= p
          BY <2>1, <3>1, <4>2
        <4> QED BY <1>7, <4>1, <4>2
      <3>2. NextSyncedLogId(r) <= End(m)
        BY <1>4, <1>7, <1>8
      <3> QED BY <1>3, <1>6, <3>1, <3>2 DEF HeldInv, End
    <2>4. NotedInv(r)'
      <3>1. pendingSyncs'[r] # {}
        BY <2>1
      <3> QED BY <1>1, <1>2, <3>1 DEF LossInv, NotedInv, SpecIdIsNext
    <2> QED BY <2>2, <2>3, <2>4 DEF LossInv
  <1>12. CASE /\ NextSyncedLogId(r) >= m.start
              /\ current'[r] = [msg |-> m, i |-> 1, queued |-> FALSE]
    <2> HIDE DEF m
    <2>1. NextSyncedLogId(r) = m.start
      BY <1>4, <1>7, <1>8, <1>12
    <2>2. /\ current'[r].msg = m /\ ~ current'[r].queued
          /\ current'[r] # None
      <3>1. [msg |-> m, i |-> 1, queued |-> FALSE] \in Work
        BY <1>6 DEF Work
      <3>2. current'[r] # None
        BY <1>12, <3>1, NoneAssumption
      <3>3. current'[r].msg = m /\ current'[r].queued = FALSE
        BY <1>12
      <3> QED BY <3>2, <3>3
    <2>3. pendingSyncs'[r] = {}
      BY <1>5, <2>2 DEF WorkInv
    <2>4. HeldInv(r)'
      BY <1>3, <1>6, <1>7, <2>1, <2>2 DEF HeldInv, End
    <2>5. OthersInv(r)' /\ CountedInv(r)'
      BY <1>2, <1>3, <1>9, <1>10, <2>1, <2>2, <2>3 DEF OthersInv, CountedInv
    <2>6. NotedInv(r)'
      BY <1>1, <1>2, <2>2 DEF LossInv, NotedInv
    <2> QED BY <2>4, <2>5, <2>6 DEF LossInv
  <1>13. \/ /\ NextSyncedLogId(r) < m.start
            /\ pendingSyncs'[r] = PutAside(pendingSyncs[r], m)
            /\ current'[r] = NextPending(pendingSyncs'[r], NextSyncedLogId(r))
         \/ /\ NextSyncedLogId(r) >= m.start
            /\ current'[r] = [msg |-> m, i |-> 1, queued |-> FALSE]
    <2>1. /\ pendingSyncs \in [Follower -> SUBSET SyncMessage]
          /\ current \in [Follower -> Work \cup {None}]
      BY <1>1 DEF TypeOK
    <2> QED BY <2>1 DEF InterReplicaSync
  <1> QED BY <1>11, <1>12, <1>13

(* The messages put aside are looked at again. *)
LEMMA LossRetryPending ==
  ASSUME NInv, IInv', NEW r \in Follower, RetryPending(r)
  PROVE  LossInv(r)'
  <1>1. /\ IInv /\ LossInv(r) /\ TypeOK /\ TypeOK'
    BY DEF NInv, IInv
  <1>2. /\ log' = log /\ specLogId' = specLogId /\ broadcastSynced' = broadcastSynced
        /\ nextSpecLogId' = nextSpecLogId /\ pendingSpecLogIds' = pendingSpecLogIds
        /\ pendingSyncs' = pendingSyncs /\ syncNet' = syncNet /\ current[r] = None
        /\ current'[r] = NextPending(pendingSyncs[r], NextSyncedLogId(r))
        /\ current'[r] # None
    BY <1>1 DEF RetryPending, TypeOK
  <1>3. /\ NextSyncedLogId(r)' = NextSyncedLogId(r) /\ NextReceived(r)' = NextReceived(r)
        /\ \A n : HasNext(n, r)' <=> HasNext(n, r)
        /\ \A p : Counted(r, p)' <=> Counted(r, p)
    BY <1>2, SameLog DEF NextReceived, Counted
  <1>4. /\ IdleInv(r) /\ NextSyncedLogId(r) \in Nat
        /\ \A n \in pendingSyncs[r] : n.start \in Nat
    BY <1>1, KnownOf
  <1>5. PendingInv(r)'
    BY DEF IInv, FollowerInv, Follower, RL!Follower
  <1>6. OthersInv(r)' /\ CountedInv(r)'
    <2>1. \A n \in pendingSyncs[r] : NextSyncedLogId(r) <= n.start \/ HasNext(n, r)
      BY <1>2, <1>4 DEF IdleInv
    <2>2. \A p \in 1..Len(log[Leader]) : Counted(r, p) =>
              p < NextSyncedLogId(r) /\ \A n \in pendingSyncs[r] : p < n.start
      BY <1>1, <1>2 DEF LossInv, CountedInv, AtEnd
    <2> QED BY <1>1, <1>2, <1>3, <1>4, <1>5, <2>1, <2>2, LossLook
  <1>7. HeldInv(r)'
    BY <1>1, <1>2, <1>3 DEF LossInv, HeldInv, End
  <1>8. NotedInv(r)'
    BY <1>1, <1>2 DEF LossInv, NotedInv
  <1> QED BY <1>6, <1>7, <1>8 DEF LossInv

(* A message is done. *)
LEMMA LossSyncDone ==
  ASSUME NInv, IInv', NEW r \in Follower, SyncDone(r)
  PROVE  LossInv(r)'
  <1>1. /\ IInv /\ LossInv(r) /\ TypeOK /\ TypeOK' /\ FollowerInv(r)
    BY DEF NInv, IInv
  <1>2. /\ log' = log /\ specLogId' = specLogId /\ broadcastSynced' = broadcastSynced
        /\ nextSpecLogId' = nextSpecLogId /\ pendingSpecLogIds' = pendingSpecLogIds
        /\ syncNet' = syncNet /\ current[r] # None /\ AtEnd(r) /\ ~ SpecIdIsNext(r)
        /\ pendingSyncs'[r] = (IF current[r].queued THEN pendingSyncs[r] \ {current[r].msg}
                                                    ELSE pendingSyncs[r])
        /\ current'[r] = NextPending(pendingSyncs'[r], NextSyncedLogId(r))
    <2>1. /\ pendingSyncs \in [Follower -> SUBSET SyncMessage]
          /\ current \in [Follower -> Work \cup {None}]
      BY <1>1 DEF TypeOK
    <2> QED BY <2>1 DEF SyncDone, AtEnd
  <1>3. /\ NextSyncedLogId(r)' = NextSyncedLogId(r) /\ NextReceived(r)' = NextReceived(r)
        /\ \A n : HasNext(n, r)' <=> HasNext(n, r)
        /\ \A p : Counted(r, p)' <=> Counted(r, p)
    BY <1>2, SameLog DEF NextReceived, Counted
  <1>4. /\ WorkInv(r) /\ NextSyncedLogId(r) \in Nat
        /\ \A n \in pendingSyncs[r] : n.start \in Nat
    BY <1>1, KnownOf
  <1>5. PendingInv(r)'
    BY DEF IInv, FollowerInv, Follower, RL!Follower
  <1>6. pendingSyncs'[r] = pendingSyncs[r] \ {current[r].msg}
    <2>1. CASE current[r].queued
      BY <1>2, <2>1
    <2>2. CASE ~ current[r].queued
      BY <1>2, <1>4, <2>2 DEF WorkInv
    <2> QED BY <2>1, <2>2
  <1>7. OthersInv(r)' /\ CountedInv(r)'
    <2>1. \A n \in pendingSyncs'[r] : NextSyncedLogId(r) <= n.start \/ HasNext(n, r)
      BY <1>1, <1>2, <1>6 DEF LossInv, OthersInv
    <2>2. \A p \in 1..Len(log[Leader]) : Counted(r, p) =>
              p < NextSyncedLogId(r) /\ \A n \in pendingSyncs'[r] : p < n.start
      BY <1>1, <1>6 DEF LossInv, CountedInv
    <2> QED BY <1>1, <1>2, <1>3, <1>4, <1>5, <2>1, <2>2, LossLook
  <1>8. HeldInv(r)'
    <2>1. End(current[r].msg) <= NextSyncedLogId(r)
      BY <1>1, <1>2, NotBlockedAtEnd DEF AtEnd
    <2>2. End(current[r].msg) \in Nat
      BY <1>1, <1>2, TypeWork, MessageTypes
    <2>3. \A p \in Nat : NextSyncedLogId(r) <= p => ~ (p < End(current[r].msg))
      BY <1>4, <2>1, <2>2
    <2>4. \A p \in Nat : NextSyncedLogId(r) <= p /\ p < NextReceived(r) =>
            \E m \in pendingSyncs'[r] : m.start <= p /\ p < End(m)
      BY <1>1, <1>6, <2>3 DEF LossInv, HeldInv
    <2> QED BY <1>1, <1>3, <2>4 DEF LossInv, HeldInv, End
  <1>9. NotedInv(r)'
    BY <1>1, <1>2 DEF LossInv, NotedInv, SpecIdIsNext
  <1> QED BY <1>7, <1>8, <1>9 DEF LossInv

(* One entry of a message. *)
LEMMA LossSyncEntry ==
  ASSUME NInv, IInv', NEW r \in Follower, SyncEntry(r)
  PROVE  LossInv(r)'
  <1>1. /\ IInv /\ LossInv(r) /\ TypeOK /\ TypeOK' /\ FollowerInv(r)
    BY DEF NInv, IInv
  <1>2. PICK m \in SyncMessage, i \in Nat, p \in 1..Len(log[Leader]) :
            /\ current[r].msg = m /\ current[r].i = i /\ current[r] # None
            /\ i \in 1..Len(m.entries) /\ p = m.start + i - 1
            /\ p <= NextSyncedLogId(r) /\ p < End(m) /\ m.start <= p
            /\ m.entries[i] = log[Leader][p]
            /\ AlreadySynced(r, current[r]) <=> p < NextSyncedLogId(r)
            /\ FromLog(m)
    BY <1>1, EntryOf
  <1> DEFINE t == log[Leader][p]
  <1>3. /\ PendingInv(r) /\ WorkInv(r) /\ NextSyncedLogId(r) \in Nat /\ NextReceived(r) \in Nat
        /\ NextSyncedLogId(r) = Len(log[r]) + 1 /\ Len(log[r]) \in Nat
        /\ log[r] \in Seq(Txn) /\ r \in Replica /\ r # Leader /\ Leader \in Replica
        /\ t \in Txn /\ specLogId[t] \in Nat /\ nextSpecLogId[r] \in Nat /\ p \in Nat
        /\ m.start \in Nat /\ Len(m.entries) \in Nat /\ End(m) \in Nat
        /\ \A n \in pendingSyncs[r] : n.start \in Nat
        /\ current[r] \in Work /\ ~ AtEnd(r)
    <2>1. ~ AtEnd(r)
      BY <1>2, MessageTypes DEF AtEnd
    <2>2. m.start \in Nat /\ Len(m.entries) \in Nat /\ End(m) \in Nat
      BY MessageTypes
    <2>3. current[r] \in Work
      BY <1>1, <1>2, TypeWork
    <2>4. /\ PendingInv(r) /\ WorkInv(r) /\ NextSyncedLogId(r) \in Nat /\ NextReceived(r) \in Nat
          /\ NextSyncedLogId(r) = Len(log[r]) + 1 /\ Len(log[r]) \in Nat
          /\ log[r] \in Seq(Txn) /\ r \in Replica /\ r # Leader /\ Leader \in Replica
          /\ nextSpecLogId[r] \in Nat
          /\ \A n \in pendingSyncs[r] : n.start \in Nat
      BY <1>1, KnownOf
    <2>5. t \in Txn /\ specLogId[t] \in Nat /\ p \in Nat
      <3>1. Len(log[Leader]) \in Nat /\ t \in Txn
        BY <1>1, KnownOf
      <3> QED BY <1>1, <3>1, SpecTypes
    <2> QED BY <2>1, <2>2, <2>3, <2>4, <2>5
  <1>4. /\ specLogId' = specLogId /\ broadcastSynced' = broadcastSynced /\ syncNet' = syncNet
        /\ nextSpecLogId' = nextSpecLogId
        /\ pendingSpecLogIds'[r] = pendingSpecLogIds[r] \cup SpecIds(t)
    BY <1>1, <1>2, <1>3 DEF SyncEntry, TypeOK
  <1>5. \/ /\ current'[r] = [current[r] EXCEPT !.i = @ + 1]
           /\ log' = log /\ pendingSyncs' = pendingSyncs
        \/ /\ ~ (p < NextSyncedLogId(r))
           /\ log' = [log EXCEPT ![r] = Append(@, t)]
           /\ current'[r] = [current[r] EXCEPT !.i = @ + 1]
           /\ pendingSyncs' = pendingSyncs
        \/ /\ current[r].queued
           /\ current'[r] = None
           /\ log' = log /\ pendingSyncs' = pendingSyncs
        \/ /\ ~ (p < NextSyncedLogId(r))
           /\ ~ current[r].queued
           /\ pendingSyncs'[r] = (IF \E n \in pendingSyncs[r] : n.start = m.start
                                  THEN pendingSyncs[r] ELSE pendingSyncs[r] \cup {m})
           /\ current'[r] = NextPending(pendingSyncs'[r], NextSyncedLogId(r))
           /\ log' = log
    BY <1>1, <1>2, <1>3 DEF SyncEntry, TypeOK
  <1>6. log'[Leader] = log[Leader]
    <2>1. log' = log \/ log' = [log EXCEPT ![r] = Append(@, t)]
      BY <1>5
    <2> HIDE DEF t
    <2> QED BY <1>1, <1>3, <2>1 DEF TypeOK
  <1>7. /\ \A q : Counted(r, q)' <=> Counted(r, q)
        /\ NextReceived(r)' = NextReceived(r)
    BY <1>4, <1>6 DEF Counted, NextReceived
  (* What the entries counted so far say of the message. *)
  <1>8. \A q \in 1..Len(log[Leader]) : Counted(r, q) =>
            /\ q < NextSyncedLogId(r) /\ q < m.start
            /\ \A n \in pendingSyncs[r] : q < n.start
    BY <1>1, <1>2, <1>3 DEF LossInv, CountedInv
  <1>9. specLogId[t] # 0 => nextSpecLogId[r] <= specLogId[t]
    <2>1. ~ (p < m.start)
      BY <1>2, <1>3
    <2>2. ~ Counted(r, p)
      BY <1>8, <2>1
    <2> QED BY <1>3, <2>2 DEF Counted
  <1>10. /\ nextSpecLogId'[r] >= 1
         /\ \A n \in pendingSpecLogIds'[r] : nextSpecLogId'[r] <= n
         /\ \A q \in 1..Len(log[r]) : nextSpecLogId[r] <= specLogId[log[r][q]]
                                      => specLogId[log[r][q]] \in pendingSpecLogIds'[r]
    BY <1>1, <1>4, <1>9 DEF LossInv, NotedInv, SpecIds
  <1>11. End(m) <= NextReceived(r)
    BY <1>2, <1>3 DEF WorkInv, PendingInv
  <1>12. CASE /\ current'[r] = [current[r] EXCEPT !.i = @ + 1]
              /\ pendingSyncs' = pendingSyncs
              /\ NextSyncedLogId(r)' \in Nat
              /\ NextSyncedLogId(r) <= NextSyncedLogId(r)'
              /\ NextSyncedLogId(r)' = NextSyncedLogId(r) \/ NextSyncedLogId(r)' <= End(m)
              /\ \A q \in 1..Len(log'[r]) : nextSpecLogId[r] <= specLogId[log'[r][q]]
                                      => specLogId[log'[r][q]] \in pendingSpecLogIds'[r]
    <2>1. current'[r].msg = m /\ current'[r] # None
      BY <1>2, <1>3, <1>12, Advanced
    <2>2. NotedInv(r)'
      BY <1>4, <1>10, <1>12, <2>1 DEF NotedInv
    <2>3. HeldInv(r)'
      <3>1. NextSyncedLogId(r)' <= NextReceived(r)
        BY <1>1, <1>3, <1>11, <1>12 DEF LossInv, HeldInv
      <3>2. ASSUME NEW q \in Nat, NextSyncedLogId(r)' <= q, q < NextReceived(r)
            PROVE  \/ \E n \in pendingSyncs[r] : n.start <= q /\ q < End(n)
                   \/ m.start <= q /\ q < End(m)
        <4>1. NextSyncedLogId(r) <= q
          BY <1>3, <1>12, <3>2
        <4> QED BY <1>1, <1>2, <3>2, <4>1 DEF LossInv, HeldInv
      <3> QED BY <1>7, <1>12, <2>1, <3>1, <3>2 DEF HeldInv, End
    <2>4. OthersInv(r)'
      <3> SUFFICES ASSUME NEW n \in pendingSyncs[r], n # m PROVE NextSyncedLogId(r)' <= n.start
        BY <1>12, <2>1 DEF OthersInv
      <3>1. NextSyncedLogId(r) <= n.start
        BY <1>1, <1>2 DEF LossInv, OthersInv
      <3>2. End(m) <= n.start
        <4>1. m \in pendingSyncs[r] /\ IsLowest(m, pendingSyncs[r])
          BY <1>2, <1>3 DEF WorkInv
        <4>2. m.start <= n.start /\ (End(m) <= n.start \/ End(n) <= m.start) /\ m.start # n.start
          BY <1>3, <4>1 DEF IsLowest, PendingInv
        <4>3. End(n) \in Nat /\ n.start <= End(n) /\ n.start \in Nat
          BY <1>1, KnownOf
        <4> QED BY <1>3, <4>2, <4>3
      <3> QED BY <1>12, <3>1, <3>2, <1>3
    <2>5. CountedInv(r)'
      <3>1. \A q \in 1..Len(log[Leader]) : Counted(r, q) => q < NextSyncedLogId(r)'
        BY <1>3, <1>8, <1>12
      <3> QED BY <1>6, <1>7, <1>8, <1>12, <2>1, <3>1 DEF CountedInv
    <2> QED BY <2>2, <2>3, <2>4, <2>5 DEF LossInv
  <1>13. CASE /\ current'[r] = [current[r] EXCEPT !.i = @ + 1]
              /\ log' = log /\ pendingSyncs' = pendingSyncs
    <2>1. NextSyncedLogId(r)' = NextSyncedLogId(r)
      BY <1>13, SameLog
    <2> QED BY <1>3, <1>10, <1>12, <1>13, <2>1
  <1>14. CASE /\ ~ (p < NextSyncedLogId(r))
              /\ log' = [log EXCEPT ![r] = Append(@, t)]
              /\ current'[r] = [current[r] EXCEPT !.i = @ + 1]
              /\ pendingSyncs' = pendingSyncs
    <2> HIDE DEF t
    <2>1. log'[r] = Append(log[r], t)
      BY <1>1, <1>3, <1>14 DEF TypeOK
    <2>2. /\ Len(log'[r]) = Len(log[r]) + 1 /\ log'[r][Len(log[r]) + 1] = t
          /\ \A q \in 1..Len(log[r]) : log'[r][q] = log[r][q]
      BY <1>3, <2>1, LogDomain
    <2>3. NextSyncedLogId(r)' = NextSyncedLogId(r) + 1
      BY <1>3, <2>2 DEF NextSyncedLogId, RL!NextSyncedLogId
    <2>4. NextSyncedLogId(r)' <= End(m)
      BY <1>2, <1>3, <1>14, <2>3
    <2>5. nextSpecLogId[r] <= specLogId[t] => specLogId[t] \in pendingSpecLogIds'[r]
      <3>1. nextSpecLogId[r] >= 1
        BY <1>1 DEF LossInv, NotedInv
      <3> QED BY <1>3, <1>4, <3>1 DEF SpecIds
    <2>6. \A q \in 1..Len(log'[r]) : q \in 1..Len(log[r]) \/ q = Len(log[r]) + 1
      BY <1>3, <2>2
    <2>7. \A q \in 1..Len(log'[r]) : nextSpecLogId[r] <= specLogId[log'[r][q]]
                                     => specLogId[log'[r][q]] \in pendingSpecLogIds'[r]
      BY <1>10, <2>2, <2>5, <2>6
    <2>8. NextSyncedLogId(r)' \in Nat /\ NextSyncedLogId(r) <= NextSyncedLogId(r)'
      BY <1>3, <2>3
    <2> QED BY <1>12, <1>14, <2>4, <2>7, <2>8
  <1>15. CASE /\ current[r].queued
              /\ current'[r] = None
              /\ log' = log /\ pendingSyncs' = pendingSyncs
    <2>1. NextSyncedLogId(r)' = NextSyncedLogId(r)
      BY <1>15, SameLog
    <2>2. m \in pendingSyncs[r]
      BY <1>2, <1>3, <1>15 DEF WorkInv
    <2>3. HeldInv(r)'
      BY <1>1, <1>2, <1>7, <1>15, <2>1, <2>2 DEF LossInv, HeldInv, End
    <2>4. OthersInv(r)' /\ CountedInv(r)'
      BY <1>7, <1>8, <1>15, <2>1 DEF OthersInv, CountedInv
    <2>5. NotedInv(r)'
      BY <1>4, <1>10, <1>15, <2>2 DEF NotedInv
    <2> QED BY <2>3, <2>4, <2>5 DEF LossInv
  <1>16. CASE /\ ~ (p < NextSyncedLogId(r))
              /\ ~ current[r].queued
              /\ pendingSyncs'[r] = (IF \E n \in pendingSyncs[r] : n.start = m.start
                                     THEN pendingSyncs[r] ELSE pendingSyncs[r] \cup {m})
              /\ current'[r] = NextPending(pendingSyncs'[r], NextSyncedLogId(r))
              /\ log' = log
    <2>1. NextSyncedLogId(r)' = NextSyncedLogId(r) /\ \A n : HasNext(n, r)' <=> HasNext(n, r)
      BY <1>16, SameLog
    <2>2. pendingSyncs[r] = {}
      BY <1>2, <1>3, <1>16 DEF WorkInv
    <2>3. pendingSyncs'[r] = {m}
      BY <1>16, <2>2
    <2>4. HasNext(m, r)
      BY <1>2, <1>3, <1>16 DEF HasNext
    <2>5. PendingInv(r)'
      BY DEF IInv, FollowerInv, Follower, RL!Follower
    <2>6. OthersInv(r)' /\ CountedInv(r)'
      BY <1>1, <1>3, <1>6, <1>7, <1>8, <1>16, <2>1, <2>3, <2>4, <2>5, LossLook
    <2>7. HeldInv(r)'
      BY <1>1, <1>2, <1>7, <2>1, <2>2, <2>3 DEF LossInv, HeldInv, End
    <2>8. NotedInv(r)'
      BY <1>4, <1>10, <1>16, <2>3 DEF NotedInv
    <2> QED BY <2>6, <2>7, <2>8 DEF LossInv
  <1> QED BY <1>5, <1>13, <1>14, <1>15, <1>16

(* A step of follower r leaves the others as they are. *)
LEMMA LossOthers ==
  ASSUME TypeOK, NEW r \in Follower, NEW q \in Follower, q # r, FollowerSync(r), LossInv(q)
  PROVE  LossInv(q)'
  <1>1. /\ log \in [Replica -> Seq(Txn)] /\ nextSpecLogId \in [Replica -> Nat]
        /\ syncNet \in [Follower -> Seq(SyncMessage)]
        /\ pendingSyncs \in [Follower -> SUBSET SyncMessage]
        /\ current \in [Follower -> Work \cup {None}]
        /\ pendingSpecLogIds \in [Follower -> SUBSET (Nat \ {0})]
        /\ r \in Replica /\ q \in Replica /\ r # Leader /\ Leader \in Replica
    BY IsFollower, ReplicaAssumption DEF TypeOK
  <1>2. specLogId' = specLogId /\ broadcastSynced' = broadcastSynced
    BY DEF FollowerSync, InterReplicaSync, RetryPending, SyncEntry, SyncSpecLogId, SyncDone
  <1>3. log'[q] = log[q] /\ log'[Leader] = log[Leader]
    <2>1. log' = log \/ \E t : log' = [log EXCEPT ![r] = Append(@, t)]
      BY DEF FollowerSync, InterReplicaSync, RetryPending, SyncEntry, SyncSpecLogId, SyncDone
    <2> QED BY <1>1, <2>1
  <1>4. nextSpecLogId'[q] = nextSpecLogId[q]
    <2>1. nextSpecLogId' = nextSpecLogId \/ \E x : nextSpecLogId' = [nextSpecLogId EXCEPT ![r] = x]
      BY DEF FollowerSync, InterReplicaSync, RetryPending, SyncEntry, SyncSpecLogId, SyncDone
    <2> QED BY <1>1, <2>1
  <1>5. syncNet'[q] = syncNet[q]
    <2>1. syncNet' = syncNet \/ \E x : syncNet' = [syncNet EXCEPT ![r] = x]
      BY DEF FollowerSync, InterReplicaSync, RetryPending, SyncEntry, SyncSpecLogId, SyncDone
    <2> QED BY <1>1, <2>1
  <1>6. pendingSyncs'[q] = pendingSyncs[q]
    <2>1. pendingSyncs' = pendingSyncs \/ \E x : pendingSyncs' = [pendingSyncs EXCEPT ![r] = x]
      BY DEF FollowerSync, InterReplicaSync, RetryPending, SyncEntry, SyncSpecLogId, SyncDone
    <2> QED BY <1>1, <2>1
  <1>7. current'[q] = current[q]
    <2>1. current' = current \/ \E x : current' = [current EXCEPT ![r] = x]
      BY DEF FollowerSync, InterReplicaSync, RetryPending, SyncEntry, SyncSpecLogId, SyncDone
    <2> QED BY <1>1, <2>1
  <1>8. pendingSpecLogIds'[q] = pendingSpecLogIds[q]
    <2>1. \/ pendingSpecLogIds' = pendingSpecLogIds
          \/ \E x : pendingSpecLogIds' = [pendingSpecLogIds EXCEPT ![r] = x]
      BY DEF FollowerSync, InterReplicaSync, RetryPending, SyncEntry, SyncSpecLogId, SyncDone
    <2> QED BY <1>1, <2>1
  <1>9. NextReceived(q)' = NextReceived(q)
    BY <1>2, <1>5 DEF NextReceived
  <1> QED BY <1>2, <1>3, <1>4, <1>6, <1>7, <1>8, <1>9, LossFrame

(* The initial states satisfy the invariant. *)
LEMMA LossInit == Init => NInv
  <1> SUFFICES ASSUME Init PROVE NInv
    OBVIOUS
  <1>1. IInv
    BY InvInit
  <1>2. \A r \in Replica : log[r] = <<>> /\ DOMAIN log[r] = {} /\ Len(log[r]) = 0
    BY EmptySeq, LenProperties DEF Init, RL!Init
  <1>3. OnceInv
    BY <1>2, ReplicaAssumption DEF OnceInv, InLog, RL!InLog
  <1>4. ASSUME NEW r \in Follower PROVE LossInv(r)
    <2>1. /\ syncNet[r] = <<>> /\ pendingSyncs[r] = {} /\ current[r] = None
          /\ pendingSpecLogIds[r] = {} /\ broadcastSynced = 0 /\ nextSpecLogId[r] = 1
          /\ r \in Replica /\ Leader \in Replica
      BY IsFollower, ReplicaAssumption DEF Init, RL!Init
    <2>2. NextSyncedLogId(r) = 1 /\ NextReceived(r) = 1
      BY <1>2, <2>1 DEF NextSyncedLogId, RL!NextSyncedLogId, NextReceived
    <2>3. HeldInv(r)
      BY <2>2 DEF HeldInv
    <2>4. OthersInv(r) /\ CountedInv(r) /\ NotedInv(r)
      BY <1>2, <2>1 DEF OthersInv, CountedInv, NotedInv, SpecIdIsNext
    <2> QED BY <2>3, <2>4 DEF LossInv
  <1> QED BY <1>1, <1>3, <1>4 DEF NInv

(* Every step keeps it. *)
LEMMA LossNext == NInv /\ [Next]_vars => NInv'
  <1> SUFFICES ASSUME NInv, [Next]_vars PROVE NInv'
    OBVIOUS
  <1>1. IInv /\ IInv' /\ OnceInv' /\ TypeOK
    BY InvNext, OnceNext DEF NInv, IInv
  <1>2. ASSUME NEW q \in Follower PROVE LossInv(q)'
    <2>1. LossInv(q)
      BY DEF NInv
    <2>2. CASE LeaderExecTd
      BY <2>2, LossLeaderExec
    <2>3. CASE LeaderCrossReplicaSyncTd
      BY <2>3, LossLeaderSync
    <2>4. ASSUME NEW r \in Follower, FollowerSync(r) PROVE LossInv(q)'
      <3>1. CASE q # r
        BY <1>1, <2>1, <2>4, <3>1, LossOthers
      <3>2. CASE q = r
        BY <1>1, <2>4, <3>2, LossInterReplicaSync, LossRetryPending, LossSyncEntry,
           LossSyncSpecLogId, LossSyncDone DEF FollowerSync
      <3> QED BY <3>1, <3>2
    <2>5. CASE /\ UNCHANGED logVars /\ UNCHANGED followerVars
               /\ syncNet' = syncNet /\ broadcastSynced' = broadcastSynced
      <3>1. NextReceived(q)' = NextReceived(q)
        BY <2>5 DEF NextReceived
      <3> QED BY <2>1, <2>5, <3>1, LossFrame
    <2>6. \/ LeaderExecTd \/ LeaderCrossReplicaSyncTd
          \/ \E r \in Follower : FollowerSync(r)
          \/ /\ UNCHANGED logVars /\ UNCHANGED followerVars
             /\ syncNet' = syncNet /\ broadcastSynced' = broadcastSynced
      BY DEF Next, vars, SyncStatus, ReceiveRequest, ReportSyncStatus
    <2> QED BY <2>2, <2>3, <2>4, <2>5, <2>6
  <1> QED BY <1>1, <1>2 DEF NInv, Follower, RL!Follower

(* When no message is on its way to a follower, being processed or put     *)
(* aside, it has all that was sent, and has counted every speculation that *)
(* it may count (onInterReplicaSync and FollowerCrossReplicaSyncTd).       *)
THEOREM NoPieceLost == Spec => []NothingLost
  <1>1. NInv => NothingLost
    <2> SUFFICES ASSUME NInv, NEW r \in Follower,
                        syncNet[r] = <<>>, current[r] = None, pendingSyncs[r] = {}
                 PROVE  /\ Len(log[r]) = broadcastSynced
                        /\ ~ \E t \in Txn : specLogId[t] = nextSpecLogId[r] /\ InLog(r, t)
      BY DEF NothingLost
    <2>1. IInv /\ LossInv(r)
      BY DEF NInv
    <2>2. /\ NextSyncedLogId(r) = Len(log[r]) + 1 /\ Len(log[r]) \in Nat
          /\ log[r] \in Seq(Txn) /\ NextReceived(r) \in Nat /\ nextSpecLogId[r] \in Nat
      BY <2>1, KnownOf
    <2>3. Len(log[r]) = broadcastSynced
      <3>1. NextReceived(r) = broadcastSynced + 1 /\ broadcastSynced \in Nat
        BY <2>1, FollowerTypes DEF NextReceived, IInv
      <3>2. NextSyncedLogId(r) <= NextReceived(r)
        BY <2>1 DEF LossInv, HeldInv
      <3>3. ~ (NextSyncedLogId(r) < NextReceived(r))
        BY <2>1, <2>2 DEF LossInv, HeldInv
      <3> QED BY <2>2, <3>1, <3>2, <3>3
    <2>4. ASSUME NEW t \in Txn, specLogId[t] = nextSpecLogId[r], InLog(r, t) PROVE FALSE
      <3>1. DOMAIN log[r] = 1..Len(log[r])
        BY <2>2, LenProperties
      <3>2. PICK i \in 1..Len(log[r]) : log[r][i] = t
        BY <2>4, <3>1 DEF InLog, RL!InLog
      <3>3. nextSpecLogId[r] \in pendingSpecLogIds[r]
        BY <2>1, <2>2, <2>4, <3>2 DEF LossInv, NotedInv
      <3>4. SpecIdIsNext(r)
        BY <2>1, <3>3 DEF LossInv, NotedInv, SpecIdIsNext
      <3> QED BY <2>1, <3>4 DEF LossInv, NotedInv
    <2> QED BY <2>3, <2>4
  <1>2. Spec => []NInv
    BY LossInit, LossNext, PTL DEF Spec
  <1> QED BY <1>1, <1>2, PTL
=============================================================================
