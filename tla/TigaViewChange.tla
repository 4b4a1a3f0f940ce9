---------------------------- MODULE TigaViewChange ----------------------------
(***************************************************************************)
(* How the servers of several shards get from view 0 to view 1 when a      *)
(* leader fails (TigaService/TigaReplicaFR.cc).                            *)
(*                                                                         *)
(* The leader of the configuration manager, server 0 of shard 0, tells     *)
(* server 0 of shard 1 to fail, and when it has seen it fail, starts view  *)
(* 1 of every shard: killed_ is not reset, so there is one view change.    *)
(* The new leader of a shard takes the entries that the one of a quorum    *)
(* with the highest sync point has beyond its own log, exchanges with the  *)
(* other new leaders what concerns their shards, and sends its followers   *)
(* the part of the log that is beyond their sync points.                   *)
(*                                                                         *)
(* Normal operation is that of TigaSequencer and TigaReplication.  A       *)
(* transaction is known by its place in the order of the deadlines; a log  *)
(* need not be in that order.                                              *)
(***************************************************************************)
EXTENDS Integers, Sequences, FiniteSets, SequencesExt

CONSTANTS
    ShardNum, ReplicaNum,
    Targets,        \* <<shards of the first transaction, of the second, ...>>
    Indeterminate,  \* values of a viewId_ that nothing has been assigned to
    None            \* no reply, no message

Shard == 0..ShardNum - 1
Replica == 0..ReplicaNum - 1
Txn == 1..Len(Targets)

ASSUME ClusterAssumption ==
    /\ ShardNum \in Nat \ {0} /\ ReplicaNum \in Nat \ {0}
    /\ Targets \in Seq(SUBSET Shard)

(* failedShardId_ and failedReplicaId_ are hard coded. *)
Victim == <<1, 0>>

(* The leader of view 1; the leader of view 0 is replica 0. *)
NewLeader == 1 % ReplicaNum

VARIABLES
    log,            \* [Shard -> [Replica -> Seq(Txn)]], syncedLogList_
    cmdMap,         \* [Shard -> [Replica -> SUBSET Txn]]
    unsynced,       \* [Shard -> [Replica -> SUBSET Txn]], unSyncedEntries_
    committed,      \* SUBSET Txn: a coordinator has finished them
    confirmed,      \* [Shard -> SUBSET Txn]: then synced by a majority of it
    cmStatus,       \* actionStatus_ of the configuration manager
    allCommitted,   \* the victim, told to fail, has found all committed
    status, view,   \* [Shard -> [Replica -> ...]]
    viewChanges,    \* [Shard -> [Replica -> message or None]], fullQuorum_
    asked,          \* [Shard -> SUBSET Replica]: have a StateTransfer request
    transfers,      \* [Shard -> [Replica -> Seq(Txn) or None]], Quorum_
    verifyReqs,     \* [Shard -> [Shard -> Nat or None]]: to a shard, of another
    verifyReps,     \* [Shard -> [Shard -> SUBSET Txn or None]]: sent to, by
    verifiedShards, \* [Shard -> SUBSET Shard]
    startViews      \* [Shard -> [Replica -> message or None]]

Status == {"NORMAL", "FAILING", "COLLECT_VC", "REBUILD_LOG", "LOG_CONFIRMING", "WAIT_START_VIEW"}
CMStatus == {"MONITORING", "KILLING", "PREPARING_NEW_GVIEW", "NO_ACTION"}
ViewChange == [syncPoint : Nat, failing : BOOLEAN]
StartView == [logBegin : Nat, txns : Seq(Txn)]

commitVars == <<committed, confirmed>>
cmVars == <<cmStatus, allCommitted>>
transferVars == <<asked, transfers>>
verifyVars == <<verifyReqs, verifyReps, verifiedShards>>
vars == <<log, cmdMap, unsynced, commitVars, cmVars, status, view, viewChanges,
          transferVars, verifyVars, startViews>>

ForServers(v) == [s \in Shard |-> [r \in Replica |-> v]]

Init ==
    /\ log = ForServers(<<>>)
    /\ cmdMap = ForServers({}) /\ unsynced = ForServers({})
    /\ committed = {} /\ confirmed = [s \in Shard |-> {}]
    /\ cmStatus = "MONITORING" /\ allCommitted = FALSE
    /\ status = ForServers("NORMAL") /\ view = ForServers(0)
    /\ viewChanges = ForServers(None)
    /\ asked = [s \in Shard |-> {}]
    /\ transfers = ForServers(None)
    /\ verifyReqs = [s \in Shard |-> [o \in Shard |-> None]]
    /\ verifyReps = [s \in Shard |-> [o \in Shard |-> None]]
    /\ verifiedShards = [s \in Shard |-> {}]
    /\ startViews = ForServers(None)

-----------------------------------------------------------------------------
(* View 0.                                                                 *)

InViewZero(s, r) == view[s][r] = 0 /\ status[s][r] = "NORMAL"

recoveryVars == <<cmVars, status, view, viewChanges, transferVars, verifyVars, startViews>>

(* AtTopofExecSequencer asks for the first place on the keys of t only: a  *)
(* transaction with other keys may have an earlier deadline.               *)
MayExecute(t, s, r) == s \in Targets[t] /\ t \notin cmdMap[s][r]

(* The leader executes t and appends it to its log; a failing one, until   *)
(* its threads have ended their loops.  (A leader of view 0 has no use for *)
(* unSyncedEntries_.)                                                      *)
LeaderExec(s, t) ==
    /\ view[s][0] = 0 /\ status[s][0] \in {"NORMAL", "FAILING"}
    /\ MayExecute(t, s, 0)
    /\ cmdMap' = [cmdMap EXCEPT ![s][0] = @ \cup {t}]
    /\ log' = [log EXCEPT ![s][0] = Append(@, t)]
    /\ UNCHANGED <<unsynced, commitVars, recoveryVars>>

(* A follower does so speculatively. *)
FollowerExec(s, r, t) ==
    /\ r # 0 /\ InViewZero(s, r)
    /\ MayExecute(t, s, r)
    /\ cmdMap' = [cmdMap EXCEPT ![s][r] = @ \cup {t}]
    /\ unsynced' = [unsynced EXCEPT ![s][r] = @ \cup {t}]
    /\ UNCHANGED <<log, commitVars, recoveryVars>>

(* onInterReplicaSync: a follower of view 0 takes an entry that the leader *)
(* has sent, which may have failed or left view 0 since.                   *)
InterReplicaSync(s, r) ==
    /\ r # 0 /\ InViewZero(s, r)
    /\ view[s][0] = 0 \/ status[s][0] # "NORMAL"
    /\ Len(log[s][r]) < Len(log[s][0])
    /\ LET t == log[s][0][Len(log[s][r]) + 1]
       IN  /\ t \in cmdMap[s][r]
           /\ log' = [log EXCEPT ![s][r] = Append(@, t)]
    /\ UNCHANGED <<cmdMap, unsynced, commitVars, recoveryVars>>

(* A coordinator has the replies and sync points it needs, as all are in   *)
(* view 0: followers that have executed t have the leader's hash.          *)
Has(t, s, r) == t \in ToSet(log[s][r])

FastCommitted(t, s) ==
    Cardinality({r \in Replica : Has(t, s, r) \/ t \in unsynced[s][r]})
        >= ReplicaNum \div 2 + (ReplicaNum \div 2 + 1) \div 2 + 1

SyncedByMajority(t, s) ==
    Cardinality({r \in Replica : Has(t, s, r)}) >= ReplicaNum \div 2 + 1

Commit(t) ==
    /\ t \notin committed
    /\ \A s \in Targets[t] :
          /\ \A r \in Replica : view[s][r] = 0
          /\ Has(t, s, 0)
          /\ FastCommitted(t, s) \/ SyncedByMajority(t, s)
    /\ committed' = committed \cup {t}
    /\ confirmed' = [s \in Shard |-> IF s \in Targets[t] /\ SyncedByMajority(t, s)
                                     THEN confirmed[s] \cup {t} ELSE confirmed[s]]
    /\ UNCHANGED <<log, cmdMap, unsynced, recoveryVars>>

-----------------------------------------------------------------------------
(* ConfigManagerAction: the servers of shard 0.                            *)

serverVars == <<log, cmdMap, unsynced, commitVars, view, viewChanges, transferVars,
                verifyVars, startViews>>

Kill ==
    /\ cmStatus = "MONITORING" /\ ShardNum > 1
    /\ cmStatus' = "KILLING"
    /\ UNCHANGED <<serverVars, allCommitted, status>>

(* onSyncStatus at the victim: the commit point is taken from the sync     *)
(* points that its followers have reported, some time before, and its own. *)
AtRank(points, rank) ==
    {p \in {points[r] : r \in Replica} :
        /\ Cardinality({r \in Replica : points[r] < p}) <= rank
        /\ Cardinality({r \in Replica : points[r] <= p}) > rank}

Committed(logs) ==
    \/ logs[0] = <<>>
    \/ \E points \in [Replica -> 0..Len(logs[0])] :
          /\ points[0] = Len(logs[0])
          /\ \A r \in Replica \ {0} : points[r] <= Len(logs[r])
          /\ \E r \in Replica \ {0} : points[r] > 0
          /\ \E p \in AtRank(points, ReplicaNum \div 2 + 1) : Len(logs[0]) <= p

(* onFailSignal, ActivateFailure: the victim waits until all it has logged *)
(* is committed ...                                                        *)
AllCommitted ==
    /\ cmStatus = "KILLING"
    /\ InViewZero(Victim[1], Victim[2])
    /\ Committed(log[Victim[1]])
    /\ allCommitted' = TRUE
    /\ UNCHANGED <<serverVars, cmStatus, status>>

(* ... and fails, though its threads may have logged more meanwhile. *)
Fail ==
    /\ allCommitted
    /\ InViewZero(Victim[1], Victim[2])
    /\ status' = [status EXCEPT ![Victim[1]][Victim[2]] = "FAILING"]
    /\ UNCHANGED <<serverVars, cmVars>>

(* A heartbeat has been answered. *)
Prepare ==
    /\ cmStatus = "KILLING"
    /\ status[Victim[1]][Victim[2]] = "FAILING"
    /\ cmStatus' = "PREPARING_NEW_GVIEW"
    /\ UNCHANGED <<serverVars, allCommitted, status>>

(* Enough of the other servers of shard 0 have prepared the new view (none *)
(* of three has to), which changes nothing else here; CM_NEW_GVIEW_READY   *)
(* and BroadcastViewChangeReq.                                             *)
NewGView ==
    /\ cmStatus = "PREPARING_NEW_GVIEW"
    /\ cmStatus' = "NO_ACTION"
    /\ UNCHANGED <<serverVars, allCommitted, status>>

-----------------------------------------------------------------------------
(* FailureRecovery: a server enters view 1.                                *)

(* Mutated: the index of the last entry, not how many there are. *)
ViewChangeMsgIndex(s, r) ==
    [syncPoint |-> Len(log[s][r]) - 1, failing |-> status[s][r] = "FAILING"]

ViewChangeMsg(s, r) == [syncPoint |-> Len(log[s][r]), failing |-> status[s][r] = "FAILING"]

(* The request has come.  STATUS_CLEAN_BEFORE_VIEWCHANGE: ClearContext     *)
(* empties unSyncedEntries_, so that BuildUnSyncedLogList, which is called *)
(* in STATUS_VIEWCHANGE, finds nothing: nothing is put in preparedLogInfo_ *)
(* either, and recoveredUnSyncedLogs_ remains empty.                       *)
EnterViewChange(s, r) ==
    /\ cmStatus = "NO_ACTION"
    /\ InViewZero(s, r)
    /\ view' = [view EXCEPT ![s][r] = 1]
    /\ unsynced' = [unsynced EXCEPT ![s][r] = {}]
    /\ \/ /\ r = NewLeader
          /\ status' = [status EXCEPT ![s][r] = "COLLECT_VC"]
          /\ UNCHANGED viewChanges
       \/ /\ r # NewLeader
          /\ status' = [status EXCEPT ![s][r] = "WAIT_START_VIEW"]
          /\ viewChanges' = [viewChanges EXCEPT ![s][r] = ViewChangeMsg(s, r)]
    /\ UNCHANGED <<log, cmdMap, commitVars, cmVars, transferVars, verifyVars, startViews>>

(* One that has failed sends ViewChange too. *)
FailingViewChange ==
    /\ cmStatus = "NO_ACTION"
    /\ LET s == Victim[1]
           r == Victim[2]
       IN  /\ status[s][r] = "FAILING" /\ view[s][r] = 0
           /\ view' = [view EXCEPT ![s][r] = 1]
           /\ viewChanges' = [viewChanges EXCEPT ![s][r] = ViewChangeMsg(s, r)]
    /\ UNCHANGED <<log, cmdMap, unsynced, commitVars, cmVars, status, transferVars,
                   verifyVars, startViews>>

-----------------------------------------------------------------------------
(* The new leader rebuilds its log.                                        *)

Others == Replica \ {NewLeader}
Alive(s) == {r \in Others : ~viewChanges[s][r].failing}

(* The ones that join the leader in the quorum have the lowest numbers.    *)
(* All have been in view 0 last, so it asks all of them.                   *)
Involved(s) ==
    {r \in Alive(s) : Cardinality({o \in Alive(s) : o < r}) < ReplicaNum \div 2}

SyncPointOf(s, r) ==
    IF r = NewLeader THEN Len(log[s][NewLeader]) ELSE viewChanges[s][r].syncPoint

(* Mutated: the comparison of the sync points is the wrong way round. *)
LowestTarget(s) ==
    CHOOSE r \in Involved(s) \cup {NewLeader} :
        \A o \in (Involved(s) \cup {NewLeader}) \ {r} :
            \/ SyncPointOf(s, o) > SyncPointOf(s, r)
            \/ /\ SyncPointOf(s, o) = SyncPointOf(s, r)
               /\ r = NewLeader \/ (o # NewLeader /\ r < o)

(* The first with the highest sync point, the leader itself if none is higher. *)
Target(s) ==
    CHOOSE r \in Involved(s) \cup {NewLeader} :
        \A o \in (Involved(s) \cup {NewLeader}) \ {r} :
            \/ SyncPointOf(s, o) < SyncPointOf(s, r)
            \/ /\ SyncPointOf(s, o) = SyncPointOf(s, r)
               /\ r = NewLeader \/ (o # NewLeader /\ r < o)

(* CheckVCQuorum waits for all servers; CollectLogs. *)
CollectLogs(s) ==
    /\ status[s][NewLeader] = "COLLECT_VC"
    /\ \A r \in Others : viewChanges[s][r] # None
    /\ asked' = [asked EXCEPT ![s] = Involved(s)]
    /\ status' = [status EXCEPT ![s][NewLeader] = "REBUILD_LOG"]
    /\ UNCHANGED <<log, cmdMap, unsynced, commitVars, cmVars, view, viewChanges, transfers,
                   verifyVars, startViews>>

(* Nothing is assigned to viewId_ of the request.  If it is not that of r, *)
(* the reply has the view of r but no entries, and nothing is assigned to  *)
(* its replicaId_; else, nothing is assigned to the viewId_ of the reply,  *)
(* which is dropped if that is not the leader's.                           *)
StateTransfer(s, r) ==
    /\ r \in asked[s]
    /\ asked' = [asked EXCEPT ![s] = @ \ {r}]
    /\ \E reqView \in Indeterminate, repView \in Indeterminate :
          \E key \in IF reqView = view[s][r] THEN {r} ELSE Replica :
             LET accepted == reqView = view[s][r] => repView = view[s][NewLeader]
                 entries == IF reqView = view[s][r] /\ r = Target(s)
                            THEN SubSeq(log[s][r], Len(log[s][NewLeader]) + 1, SyncPointOf(s, r))
                            ELSE <<>>
             IN  transfers' = [transfers EXCEPT ![s][key] =
                                 IF accepted /\ @ = None THEN entries ELSE @]
    /\ UNCHANGED <<log, cmdMap, unsynced, commitVars, cmVars, status, view, viewChanges,
                   verifyVars, startViews>>

(* The highest deadline of recoveredSyncedLogs_. *)
HighestDeadline(l) ==
    CHOOSE d \in ToSet(l) \cup {0} : \A e \in ToSet(l) \cup {0} : e <= d

(* RebuildLogs, and ConfirmLogWithOtherLeaders in STATUS_VIEWCHANGE_LOG_READY. *)
RebuildLogs(s) ==
    /\ status[s][NewLeader] = "REBUILD_LOG"
    /\ Cardinality({r \in Replica : transfers[s][r] # None}) = Cardinality(Involved(s))
    /\ LET reply == IF Target(s) = NewLeader \/ transfers[s][Target(s)] = None
                    THEN <<>> ELSE transfers[s][Target(s)]
           rebuilt == log[s][NewLeader] \o reply
       IN  /\ log' = [log EXCEPT ![s][NewLeader] = rebuilt]
           /\ cmdMap' = [cmdMap EXCEPT ![s][NewLeader] = @ \cup ToSet(reply)]
           /\ verifyReqs' = [o \in Shard |-> IF o = s THEN verifyReqs[o]
                                ELSE [verifyReqs[o] EXCEPT ![s] = HighestDeadline(rebuilt)]]
    /\ status' = [status EXCEPT ![s][NewLeader] = "LOG_CONFIRMING"]
    /\ UNCHANGED <<unsynced, commitVars, cmVars, view, viewChanges, transferVars, verifyReps,
                   verifiedShards, startViews>>

-----------------------------------------------------------------------------
(* STATUS_VIEWCHANGE_LOG_CONFIRMING.                                       *)

(* SendCrossShardVerifyReplyTo: the shard that is answered is verified. *)
AnswerVerifyReq(s, o) ==
    /\ status[s][NewLeader] = "LOG_CONFIRMING"
    /\ verifyReqs[s][o] # None
    /\ o \notin verifiedShards[s]
    /\ verifyReps' = [verifyReps EXCEPT ![o][s] =
                        {t \in ToSet(log[s][NewLeader]) : t >= verifyReqs[s][o] /\ o \in Targets[t]}]
    /\ verifiedShards' = [verifiedShards EXCEPT ![s] = @ \cup {o}]
    /\ UNCHANGED <<log, cmdMap, unsynced, commitVars, cmVars, status, view, viewChanges,
                   transferVars, verifyReqs, startViews>>

ByDeadline(S) ==
    CHOOSE l \in [1..Cardinality(S) -> S] :
        \A i, j \in 1..Cardinality(S) : i < j => l[i] < l[j]

(* Mutated: what is sent begins where the target's log ended. *)
StartViewMsgHighest(s, r, l) ==
    LET logBegin == SyncPointOf(s, Target(s)) + 1
    IN  [logBegin |-> logBegin, txns |-> SubSeq(l, logBegin, Len(l))]

StartViewMsg(s, r, l) ==
    LET point == viewChanges[s][r].syncPoint
        highest == SyncPointOf(s, Target(s))
        logBegin == (IF point < highest THEN point ELSE highest) + 1
    IN  [logBegin |-> logBegin, txns |-> SubSeq(l, logBegin, Len(l))]

(* Mutated: one shard too few. *)
AllButOneVerified(s) == Cardinality(verifiedShards[s]) + 1 >= ShardNum - 1

(* As many other shards have been answered as there are. *)
AllVerified(s) == Cardinality(verifiedShards[s]) + 1 = ShardNum

(* LeaderFinalizeRecoveredLogs with the answers that have come by now: a   *)
(* transaction that is missing is added if its request has come, though    *)
(* not executed.  Then, BroadcastStartView.                                *)
LeaderFinalize(s) ==
    /\ status[s][NewLeader] = "LOG_CONFIRMING"
    /\ AllVerified(s)
    /\ \E come \in SUBSET {o \in Shard : verifyReps[s][o] # None} :
       \E received \in SUBSET Txn :
          LET answers == UNION {verifyReps[s][o] : o \in come}
              known == cmdMap[s][NewLeader] \cup received
              l == ByDeadline(ToSet(log[s][NewLeader]) \cup (answers \cap known))
          IN  /\ received \subseteq answers \ cmdMap[s][NewLeader]
              /\ cmdMap' = [cmdMap EXCEPT ![s][NewLeader] = known]
              /\ log' = [log EXCEPT ![s][NewLeader] = l]
              /\ startViews' = [startViews EXCEPT ![s] = [r \in Replica |->
                    IF r = NewLeader \/ r \notin Alive(s) THEN None ELSE StartViewMsg(s, r, l)]]
    /\ status' = [status EXCEPT ![s][NewLeader] = "NORMAL"]
    /\ viewChanges' = [viewChanges EXCEPT ![s] = [r \in Replica |-> None]]
    /\ UNCHANGED <<unsynced, commitVars, cmVars, view, transferVars, verifyVars>>

(* FollowerFinalizeRecoveredLogs. *)
FollowerFinalize(s, r) ==
    /\ status[s][r] = "WAIT_START_VIEW"
    /\ startViews[s][r] # None
    /\ LET m == startViews[s][r]
       IN  /\ log' = [log EXCEPT ![s][r] = SubSeq(@, 1, m.logBegin - 1) \o m.txns]
           /\ cmdMap' = [cmdMap EXCEPT ![s][r] = @ \cup ToSet(m.txns)]
    /\ status' = [status EXCEPT ![s][r] = "NORMAL"]
    /\ UNCHANGED <<unsynced, commitVars, cmVars, view, viewChanges, transferVars, verifyVars,
                   startViews>>

Next ==
    \/ \E s \in Shard, t \in Txn : LeaderExec(s, t)
    \/ \E s \in Shard, r \in Replica, t \in Txn : FollowerExec(s, r, t)
    \/ \E s \in Shard, r \in Replica : InterReplicaSync(s, r)
    \/ \E t \in Txn : Commit(t)
    \/ Kill \/ AllCommitted \/ Fail \/ Prepare \/ NewGView
    \/ \E s \in Shard, r \in Replica : EnterViewChange(s, r)
    \/ FailingViewChange
    \/ \E s \in Shard : CollectLogs(s) \/ RebuildLogs(s) \/ LeaderFinalize(s)
    \/ \E s \in Shard, r \in Replica : StateTransfer(s, r)
    \/ \E s, o \in Shard : AnswerVerifyReq(s, o)
    \/ \E s \in Shard, r \in Replica : FollowerFinalize(s, r)

Spec == Init /\ [][Next]_vars

-----------------------------------------------------------------------------
(* Properties.                                                             *)

(* Every variable has the type of the program's field; what is sent is a   *)
(* message of its type.                                                    *)
TypeOK ==
    /\ log \in [Shard -> [Replica -> Seq(Txn)]]
    /\ cmdMap \in [Shard -> [Replica -> SUBSET Txn]]
    /\ unsynced \in [Shard -> [Replica -> SUBSET Txn]]
    /\ committed \in SUBSET Txn /\ confirmed \in [Shard -> SUBSET Txn]
    /\ cmStatus \in CMStatus /\ allCommitted \in BOOLEAN
    /\ status \in [Shard -> [Replica -> Status]]
    /\ view \in [Shard -> [Replica -> {0, 1}]]
    /\ viewChanges \in [Shard -> [Replica -> {None} \cup ViewChange]]
    /\ asked \in [Shard -> SUBSET Replica]
    /\ transfers \in [Shard -> [Replica -> {None} \cup Seq(Txn)]]
    /\ verifyReqs \in [Shard -> [Shard -> {None} \cup Nat]]
    /\ verifyReps \in [Shard -> [Shard -> {None} \cup SUBSET Txn]]
    /\ verifiedShards \in [Shard -> SUBSET Shard]
    /\ startViews \in [Shard -> [Replica -> {None} \cup StartView]]

Rebuilt(s) == view[s][NewLeader] = 1 /\ status[s][NewLeader] \in {"LOG_CONFIRMING", "NORMAL"}

(* No server is back to STATUS_NORMAL in the new view before the new       *)
(* leader of every shard has put its log together from those of its        *)
(* servers (it may still be adding what the other shards have answered).   *)
NormalAfterAllRebuilt ==
    \A s \in Shard, r \in Replica :
        view[s][r] = 1 /\ status[s][r] = "NORMAL" => \A o \in Shard : Rebuilt(o)

(* CollectLogs, RebuildLogs: a log that is rebuilt as long as the highest  *)
(* sync point of the quorum has what a majority of the servers has synced: *)
(* the servers of the quorum meet every majority, and logs of equal length *)
(* are equal.  (It is shorter if the reply of the server with that sync    *)
(* point is empty or dropped, for a viewId_ that nothing is assigned to.)  *)
SyncedSurvives ==
    \A s \in Shard : status[s][NewLeader] = "LOG_CONFIRMING" /\ Target(s) = NewLeader =>
        \A t \in Txn : SyncedByMajority(t, s) => Has(t, s, NewLeader)

(* What a majority of the servers of a shard had synced when a coordinator *)
(* committed it by that majority remains with one (the failed server may   *)
(* be of it), whichever replies are lost, although the new leader sorts    *)
(* its log, and the others cut theirs off where its StartView message      *)
(* begins (FollowerFinalizeRecoveredLogs).                                 *)
SlowCommitsStay == \A s \in Shard : \A t \in confirmed[s] : SyncedByMajority(t, s)

(* The assertion of FollowerFinalizeRecoveredLogs: no StartView message    *)
(* begins beyond the log that it is to continue, although the sync points  *)
(* were collected before and replies may be missing.                       *)
StartViewContinuesLog ==
    \A s \in Shard, r \in Replica :
        startViews[s][r] # None /\ status[s][r] = "WAIT_START_VIEW" =>
            startViews[s][r].logBegin - 1 <= Len(log[s][r])

(* Section 4 of Tiga-technical-report.pdf: "Followers use leaders' log     *)
(* lists to replace their old ones, then switch back to normal."           *)
OneLogAgain ==
    \A s \in Shard, r \in Replica :
        view[s][r] = 1 /\ status[s][r] = "NORMAL" => log[s][r] = log[s][NewLeader]

(* Lemma C.1 of Tiga-technical-report.pdf: a transaction that is committed *)
(* in a global view can be recovered in any later one, so it is in the log *)
(* of the new leader of each of its shards that is back to STATUS_NORMAL.  *)
CommittedSurvives ==
    \A t \in committed : \A s \in Targets[t] :
        Rebuilt(s) /\ status[s][NewLeader] = "NORMAL" => Has(t, s, NewLeader)
=============================================================================
