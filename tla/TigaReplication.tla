--------------------------- MODULE TigaReplication ---------------------------
(***************************************************************************)
(* How the log of one Tiga shard gets from its leader to its followers     *)
(* (TigaService/TigaReplica.cc), within one view.                          *)
(*                                                                         *)
(*   LeaderExecTd              logs (ReplicatedLog has its commands);      *)
(*   LeaderCrossReplicaSyncTd  sends the log to the followers, in pieces;  *)
(*   onInterReplicaSync        and FollowerCrossReplicaSyncTd, under one   *)
(*                             mutex, take the pieces over, in log order,  *)
(*                             entry by entry: an inquiry of a coordinator *)
(*                             may read the counters at any time;          *)
(*   onSyncStatus              computes the commit point.                  *)
(*                                                                         *)
(* RPCs on one connection are handled in order.                            *)
(***************************************************************************)
EXTENDS Integers, Sequences, FiniteSets

CONSTANTS
    Replica, Leader, Txn, Conflict, LocalDdl, AgreedDdl,  \* as in ReplicatedLog
    None            \* no message (a NULL)

(* A piece of the leader's log from log id start on. *)
SyncMessage == [start : Nat, entries : Seq(Txn), commitPoint : Nat]
(* A message a follower is working on: its next entry; was it put aside. *)
Work == [msg : SyncMessage, i : Nat \ {0}, queued : BOOLEAN]

(* Three servers at least: onSyncStatus reads tmp[replicaNum_ / 2 + 1].     *)
ASSUME ReplicaAssumption ==
    Leader \in Replica /\ IsFiniteSet(Replica) /\ Cardinality(Replica) >= 3
ASSUME ConflictAssumption == Conflict \in [Txn -> SUBSET Txn]
ASSUME DeadlineAssumption ==
    /\ LocalDdl \in [Txn -> Nat]
    /\ AgreedDdl \in [Txn -> Nat]
    /\ \A t \in Txn : LocalDdl[t] <= AgreedDdl[t]
ASSUME NoneAssumption == None \notin Nat /\ None \notin Work

VARIABLES
    execStatus, specLogId, log, nextSpecLogId,            \* as in ReplicatedLog
    commitPoint,    \* [Replica -> Nat]
    \* LeaderCrossReplicaSyncTd and onSyncStatus
    broadcastSynced, broadcastCommitted,                  \* lastBroadcast...LogId_
    syncNet,        \* [Follower -> Seq(SyncMessage)]
    reports,        \* [Follower -> Nat or None]: a sync status on its way
    syncPoints,     \* [Replica -> Nat], currentSyncPoints_
    \* the followers
    cmdMap,         \* [Follower -> SUBSET Txn]: the requests that arrived
    pendingSyncs,   \* [Follower -> SUBSET SyncMessage], by their start
    current,        \* [Follower -> Work or None]: who holds interReplicaSyncMtx_
    pendingSpecLogIds \* [Follower -> SUBSET Nat]

RL == INSTANCE ReplicatedLog

Follower == RL!Follower
NextSyncedLogId(r) == RL!NextSyncedLogId(r)
InLog(r, t) == RL!InLog(r, t)

logVars == <<execStatus, specLogId, log, nextSpecLogId>>
sendVars == <<broadcastSynced, broadcastCommitted>>
statusVars == <<reports, syncPoints>>
followerVars == <<pendingSyncs, current, pendingSpecLogIds>>
vars == <<logVars, commitPoint, sendVars, syncNet, statusVars, cmdMap, followerVars>>

Init ==
    /\ RL!Init
    /\ commitPoint = [r \in Replica |-> 0]
    /\ broadcastSynced = 0
    /\ broadcastCommitted = 0
    /\ syncNet = [r \in Follower |-> <<>>]
    /\ reports = [r \in Follower |-> None]
    /\ syncPoints = [r \in Replica |-> 0]
    /\ cmdMap = [r \in Follower |-> {}]
    /\ pendingSyncs = [r \in Follower |-> {}]
    /\ current = [r \in Follower |-> None]
    /\ pendingSpecLogIds = [r \in Follower |-> {}]

-----------------------------------------------------------------------------
LeaderExecTd ==
    /\ RL!LeaderExecTd
    /\ UNCHANGED <<commitPoint, sendVars, syncNet, statusVars, cmdMap,
                   followerVars>>

(* LeaderCrossReplicaSyncTd: what was logged since the last message goes   *)
(* to all followers, or the commit point alone when only it has advanced.  *)
LeaderCrossReplicaSyncTd ==
    /\ \/ Len(log[Leader]) > broadcastSynced
       \/ commitPoint[Leader] > broadcastCommitted
    /\ LET m == [start |-> broadcastSynced + 1,
                 entries |-> SubSeq(log[Leader], broadcastSynced + 1, Len(log[Leader])),
                 commitPoint |-> commitPoint[Leader]]
       IN  syncNet' = [r \in Follower |-> Append(syncNet[r], m)]
    /\ broadcastSynced' = Len(log[Leader])
    /\ broadcastCommitted' = commitPoint[Leader]
    /\ UNCHANGED <<logVars, commitPoint, statusVars, cmdMap, followerVars>>

(* onSyncStatus: the commit point becomes what tmp[replicaNum_ / 2 + 1] is *)
(* among the sync points in ascending order, counted from 0.               *)
AtRank(points, rank) ==
    {p \in {points[r] : r \in Replica} :
        /\ Cardinality({r \in Replica : points[r] < p}) <= rank
        /\ Cardinality({r \in Replica : points[r] <= p}) > rank}

SyncStatus(r) ==
    /\ reports[r] # None
    /\ reports' = [reports EXCEPT ![r] = None]
    /\ IF syncPoints[r] < reports[r]
       THEN LET points == [syncPoints EXCEPT ![r] = reports[r],
                                             ![Leader] = Len(log[Leader])]
            IN  /\ syncPoints' = points
                /\ \E point \in AtRank(points, Cardinality(Replica) \div 2 + 1) :
                      commitPoint' = [commitPoint EXCEPT ![Leader] =
                                         IF @ < point THEN point ELSE @]
       ELSE UNCHANGED <<syncPoints, commitPoint>>
    /\ UNCHANGED <<logVars, sendVars, syncNet, cmdMap, followerVars>>

-----------------------------------------------------------------------------
(* The followers.                                                          *)

(* onNormalRequest: the request of t reaches follower r. *)
ReceiveRequest(r, t) ==
    /\ t \notin cmdMap[r]
    /\ cmdMap' = [cmdMap EXCEPT ![r] = @ \cup {t}]
    /\ UNCHANGED <<logVars, commitPoint, sendVars, syncNet, statusVars,
                   followerVars>>

(* ProcessPendingInterReplicaSync: the message put aside with the lowest   *)
(* start is next, unless there is a gap before it.                         *)
NextPending(pending, nextLogId) ==
    LET ready == {m \in pending : /\ m.start <= nextLogId
                                  /\ \A n \in pending : m.start <= n.start}
    IN  IF ready = {} THEN None
        ELSE [msg |-> CHOOSE m \in ready : TRUE, i |-> 1, queued |-> TRUE]

(* Mutated: std::map::insert, which keeps the message that is there. *)
PutAsideFirst(pending, m) ==
    IF \E n \in pending : n.start = m.start THEN pending ELSE pending \cup {m}

(* std::map::operator[]: one message per start, the last one. *)
PutAside(pending, m) == {n \in pending : n.start # m.start} \cup {m}

(* Mutated: a message is processed whether or not there is a gap. *)
InterReplicaSyncAnyOrder(r) ==
    /\ current[r] = None
    /\ syncNet[r] # <<>>
    /\ syncNet' = [syncNet EXCEPT ![r] = Tail(@)]
    /\ current' = [current EXCEPT ![r] = [msg |-> Head(syncNet[r]), i |-> 1,
                                          queued |-> FALSE]]
    /\ UNCHANGED <<logVars, commitPoint, sendVars, statusVars, cmdMap,
                   pendingSyncs, pendingSpecLogIds>>

(* onInterReplicaSync takes the mutex.  With a gap before the message it is *)
(* put aside, and those put aside are looked at.                            *)
InterReplicaSync(r) ==
    /\ current[r] = None
    /\ syncNet[r] # <<>>
    /\ syncNet' = [syncNet EXCEPT ![r] = Tail(@)]
    /\ LET m == Head(syncNet[r])
       IN  \/ /\ NextSyncedLogId(r) < m.start
              /\ pendingSyncs' = [pendingSyncs EXCEPT ![r] = PutAside(@, m)]
              /\ current' = [current EXCEPT ![r] =
                                NextPending(pendingSyncs'[r], NextSyncedLogId(r))]
           \/ /\ NextSyncedLogId(r) >= m.start
              /\ current' = [current EXCEPT ![r] = [msg |-> m, i |-> 1, queued |-> FALSE]]
              /\ UNCHANGED pendingSyncs
    /\ UNCHANGED <<logVars, commitPoint, sendVars, statusVars, cmdMap,
                   pendingSpecLogIds>>

(* FollowerCrossReplicaSyncTd takes the mutex for those put aside. *)
RetryPending(r) ==
    /\ current[r] = None
    /\ NextPending(pendingSyncs[r], NextSyncedLogId(r)) # None
    /\ current' = [current EXCEPT ![r] = NextPending(pendingSyncs[r], NextSyncedLogId(r))]
    /\ UNCHANGED <<logVars, commitPoint, sendVars, syncNet, statusVars,
                   cmdMap, pendingSyncs, pendingSpecLogIds>>

(* ... and reports how far the log is synced. *)
ReportSyncStatus(r) ==
    /\ reports[r] = None
    /\ syncPoints[r] < Len(log[r])
    /\ reports' = [reports EXCEPT ![r] = Len(log[r])]
    /\ UNCHANGED <<logVars, commitPoint, sendVars, syncNet, syncPoints,
                   cmdMap, followerVars>>

(* Mutated: off by one, so that an entry is taken a second time. *)
AlreadySyncedBefore(r, c) == c.msg.start + c.i < NextSyncedLogId(r)

AlreadySynced(r, c) == c.msg.start + c.i - 1 < NextSyncedLogId(r)

(* Mutated: the id of an entry that was executed directly is noted too. *)
SpecIdsOfAll(t) == {specLogId[t]}

SpecIds(t) == {specLogId[t]} \ {0}

(* ProcessInterReplicaSync, one entry of the message.  The speculative id  *)
(* is noted first; an entry that is already synced is skipped; when the    *)
(* request of the entry has not arrived, the message is put aside.         *)
SyncEntry(r) ==
    /\ current[r] # None
    /\ current[r].i <= Len(current[r].msg.entries)
    /\ LET c == current[r]
           t == c.msg.entries[c.i]
           advanced == [c EXCEPT !.i = @ + 1]
           synced == AlreadySynced(r, c)
       IN  /\ pendingSpecLogIds' = [pendingSpecLogIds EXCEPT ![r] = @ \cup SpecIds(t)]
           /\ \/ /\ synced
                 /\ current' = [current EXCEPT ![r] = advanced]
                 /\ UNCHANGED <<log, pendingSyncs>>
              \/ /\ ~ synced
                 /\ t \in cmdMap[r]
                 /\ log' = [log EXCEPT ![r] = Append(@, t)]
                 /\ current' = [current EXCEPT ![r] = advanced]
                 /\ UNCHANGED pendingSyncs
              \/ /\ ~ synced
                 /\ t \notin cmdMap[r]
                 /\ c.queued
                 /\ current' = [current EXCEPT ![r] = None]
                 /\ UNCHANGED <<log, pendingSyncs>>
              \/ /\ ~ synced
                 /\ t \notin cmdMap[r]
                 /\ ~ c.queued
                 /\ pendingSyncs' = [pendingSyncs EXCEPT ![r] =
                        IF \E m \in @ : m.start = c.msg.start THEN @ ELSE @ \cup {c.msg}]
                 /\ current' = [current EXCEPT ![r] =
                        NextPending(pendingSyncs'[r], NextSyncedLogId(r))]
                 /\ UNCHANGED log
    /\ UNCHANGED <<execStatus, specLogId, nextSpecLogId, commitPoint,
                   sendVars, syncNet, statusVars, cmdMap>>

(* Mutated: the counter follows the highest id. *)
SpecIdNoted(r) == \E n \in pendingSpecLogIds[r] : nextSpecLogId[r] <= n

(* The first of the noted speculative ids is the next one. *)
SpecIdIsNext(r) ==
    /\ nextSpecLogId[r] \in pendingSpecLogIds[r]
    /\ \A n \in pendingSpecLogIds[r] : nextSpecLogId[r] <= n

SyncSpecLogId(r) ==
    /\ current[r] # None
    /\ current[r].i > Len(current[r].msg.entries)
    /\ SpecIdIsNext(r)
    /\ pendingSpecLogIds' = [pendingSpecLogIds EXCEPT ![r] = @ \ {nextSpecLogId[r]}]
    /\ nextSpecLogId' = [nextSpecLogId EXCEPT ![r] = @ + 1]
    /\ UNCHANGED <<execStatus, specLogId, log, commitPoint, sendVars, syncNet,
                   statusVars, cmdMap, pendingSyncs, current>>

(* The message is done; those put aside are looked at before the mutex is  *)
(* given up.                                                               *)
SyncDone(r) ==
    /\ current[r] # None
    /\ current[r].i > Len(current[r].msg.entries)
    /\ ~ SpecIdIsNext(r)
    /\ LET m == current[r].msg
       IN  /\ commitPoint' = [commitPoint EXCEPT ![r] =
                                 IF @ < m.commitPoint THEN m.commitPoint ELSE @]
           /\ pendingSyncs' = [pendingSyncs EXCEPT ![r] =
                                 IF current[r].queued THEN @ \ {m} ELSE @]
    /\ current' = [current EXCEPT ![r] =
                      NextPending(pendingSyncs'[r], NextSyncedLogId(r))]
    /\ UNCHANGED <<logVars, sendVars, syncNet, statusVars, cmdMap,
                   pendingSpecLogIds>>

FollowerSync(r) ==
    InterReplicaSync(r) \/ RetryPending(r) \/ SyncEntry(r) \/ SyncSpecLogId(r) \/ SyncDone(r)

-----------------------------------------------------------------------------
Next ==
    \/ LeaderExecTd
    \/ LeaderCrossReplicaSyncTd
    \/ \E r \in Follower :
          \/ SyncStatus(r)
          \/ \E t \in Txn : ReceiveRequest(r, t)
          \/ FollowerSync(r)
          \/ ReportSyncStatus(r)

Spec == Init /\ [][Next]_vars

-----------------------------------------------------------------------------
(* Properties.                                                             *)

(* Every variable holds values of the types of the program's fields.       *)
TypeOK ==
    /\ execStatus \in [Txn -> RL!ExecStatus]
    /\ specLogId \in [Txn -> Nat]
    /\ log \in [Replica -> Seq(Txn)]
    /\ nextSpecLogId \in [Replica -> Nat]
    /\ commitPoint \in [Replica -> Nat]
    /\ broadcastSynced \in Nat
    /\ broadcastCommitted \in Nat
    /\ syncNet \in [Follower -> Seq(SyncMessage)]
    /\ reports \in [Follower -> Nat \cup {None}]
    /\ syncPoints \in [Replica -> Nat]
    /\ cmdMap \in [Follower -> SUBSET Txn]
    /\ pendingSyncs \in [Follower -> SUBSET SyncMessage]
    /\ current \in [Follower -> Work \cup {None}]
    /\ pendingSpecLogIds \in [Follower -> SUBSET (Nat \ {0})]

(* The synced log of a follower is a prefix of the log of its leader,      *)
(* whatever pieces it comes in, in whichever order they could be processed *)
(* and however often one is begun again (ProcessInterReplicaSync).         *)
SyncedIsPrefix ==
    \A r \in Follower :
        /\ Len(log[r]) <= Len(log[Leader])
        /\ \A i \in DOMAIN log[r] : log[r][i] = log[Leader][i]

(* A follower's counter of speculative ids is only past the id of a        *)
(* transaction that is in its synced log: what it answers to an inquiry    *)
(* covers no speculation it could lose.                                    *)
SpecCounterCovered ==
    \A r \in Follower, t \in Txn :
        specLogId[t] # 0 /\ specLogId[t] < nextSpecLogId[r] => InLog(r, t)

(* What the followers do with the pieces of the log amounts to following   *)
(* it entry by entry: nothing else is visible in their logs and counters.  *)
ReplicatedLogSpec == RL!Spec

(* No piece of the leader's log is lost between the threads of a follower: *)
(* when no message is on its way to it, being processed or put aside, it   *)
(* has all that was sent, and has counted every speculation it may count.  *)
NothingLost ==
    \A r \in Follower :
        syncNet[r] = <<>> /\ current[r] = None /\ pendingSyncs[r] = {}
        => /\ Len(log[r]) = broadcastSynced
           /\ ~ \E t \in Txn : specLogId[t] = nextSpecLogId[r] /\ InLog(r, t)

(* Section 3.7 of Tiga-technical-report.pdf: the leader knows entries to   *)
(* be committed after they "have been surpassed by the sync-points from    *)
(* f + 1 servers of the same shard".  No server's commit point is beyond   *)
(* the synced logs of a majority.                                          *)
CommitPointReplicated ==
    \A r \in Replica :
        2 * Cardinality({p \in Replica : Len(log[p]) >= commitPoint[r]})
            > Cardinality(Replica)
=============================================================================
