----------------------------- MODULE TigaSlowPath -----------------------------
(***************************************************************************)
(* How a coordinator learns that one shard has committed its transactions  *)
(* when the fast path fails, within one view (TigaService/TigaReplica.cc,  *)
(* TigaEntity/TigaCoordinator.cc).                                         *)
(*                                                                         *)
(*   LeaderReplyTd      replies to the coordinator, and a second time when *)
(*                      the speculation was wrong and the coordinator      *)
(*                      asks (onReconcliationRequest);                     *)
(*   onInquireServerSyncStatus  tells how far a follower's log is synced;  *)
(*   UpdateSyncStatus   takes that over at the coordinator;                *)
(*   isTxnCommitted     compares it with the leader's reply.               *)
(*                                                                         *)
(* The log of the shard is ReplicatedLog, which TigaReplication            *)
(* implements.  The other leaders of a transaction answer with the agreed  *)
(* deadline, at any time.  The inquiries that a coordinator sends to one   *)
(* server run in its thread pool and may overlap; here they are taken one  *)
(* after the other.                                                        *)
(***************************************************************************)
EXTENDS Integers, Sequences, FiniteSets

CONSTANTS
    Replica, Leader, Txn, Conflict, LocalDdl, AgreedDdl,  \* as in ReplicatedLog
    FirstSpecSynced,\* SUBSET Nat: what currentSyncedSpecLogIds_ may start with;
                    \* the constructor of GlobalInfo does not set it
    None            \* no reply, nothing read (a NULL)

ASSUME QuorumAssumption ==
    Leader \in Replica /\ IsFiniteSet(Replica) /\ Cardinality(Replica) >= 3
ASSUME DeadlinesAgreed ==
    \A t \in Txn : LocalDdl[t] \in Nat /\ AgreedDdl[t] \in Nat /\ LocalDdl[t] <= AgreedDdl[t]

ASSUME SyncedAssumption == FirstSpecSynced \subseteq Nat

ReplyStatus == {"REPLY_NONE", "REPLY_SPEC", "REPLY_AGREED"}
(* The leader's reply; spec: it is entry->specReply_, not entry->reply_. *)
Reply == [ddl : Nat, spec : BOOLEAN, logId : Nat, specLogId : Nat]
Picked == [txn : Txn, ddl : Nat, spec : BOOLEAN]
ASSUME NoneAssumption == None \notin Reply \cup Picked

VARIABLES
    execStatus, specLogId, log, nextSpecLogId,            \* as in ReplicatedLog
    \* LeaderReplyTd
    replyStatus,    \* [Txn -> ReplyStatus]
    toReplyQu,      \* Seq(Txn)
    replying,       \* the entry whose status has been read, or None
    replyHandler,   \* SUBSET Txn: the first reply is still to be sent
    toCommitReplyQu,\* SUBSET Txn: reconciliation requests
    pendingEntries, \* SUBSET Txn, pendingEntriesToCommitReply_
    pendingHandlers,\* SUBSET Txn, pendingCommitRepyHandlers_
    \* the coordinator
    replies,        \* [Txn -> Reply or None]: the leader's, in its quorum set
    inquiries,      \* [Follower -> Seq(Nat)]: what an inquiry has read so far
    currentSynced, currentSyncedSpec, \* [Follower -> Nat]
    committed       \* SUBSET Txn

RL == INSTANCE ReplicatedLog

Follower == RL!Follower
InLog(r, t) == RL!InLog(r, t)

logVars == <<execStatus, specLogId, log, nextSpecLogId>>
entryVars == <<replyStatus, toReplyQu>>
replyVars == <<replying, replyHandler, pendingEntries, pendingHandlers>>
coordVars == <<replies, toCommitReplyQu, committed>>
inquiryVars == <<inquiries, currentSynced, currentSyncedSpec>>
vars == <<logVars, entryVars, replyVars, coordVars, inquiryVars>>

(* entry->logId_, 0 until the entry is logged. *)
LogId(t) == IF InLog(Leader, t)
            THEN CHOOSE i \in DOMAIN log[Leader] : log[Leader][i] = t ELSE 0

Init ==
    /\ RL!Init
    /\ replyStatus = [t \in Txn |-> "REPLY_NONE"]
    /\ toReplyQu = <<>>
    /\ replying = None
    /\ replyHandler = Txn
    /\ toCommitReplyQu = {}
    /\ pendingEntries = {}
    /\ pendingHandlers = {}
    /\ replies = [t \in Txn |-> None]
    /\ inquiries = [r \in Follower |-> <<>>]
    /\ currentSynced = [r \in Follower |-> 0]
    /\ currentSyncedSpec \in [Follower -> FirstSpecSynced]
    /\ committed = {}

-----------------------------------------------------------------------------
(* LeaderExecTd hands what it executes to LeaderReplyTd; a speculation that *)
(* stands needs no second reply.                                           *)

QueueReply(t, status) ==
    /\ replyStatus' = [replyStatus EXCEPT ![t] = status]
    /\ toReplyQu' = Append(toReplyQu, t)

LeaderExecTd ==
    /\ \E t \in Txn :
          \/ RL!ExecSpec(t) /\ QueueReply(t, "REPLY_SPEC")
          \/ RL!ExecDirect(t) /\ QueueReply(t, "REPLY_AGREED")
          \/ RL!ExecCommit(t) /\ UNCHANGED entryVars
          \/ RL!ExecRollback(t) /\ UNCHANGED entryVars
    /\ UNCHANGED <<replyVars, coordVars, inquiryVars>>

FollowerSync ==
    /\ \E r \in Follower : RL!Follow(r) \/ RL!CountSpec(r)
    /\ UNCHANGED <<entryVars, replyVars, coordVars, inquiryVars>>

-----------------------------------------------------------------------------
(* LeaderReplyTd.                                                          *)

(* Mutated: every reply carries the agreed deadline. *)
ReplyDdlAgreed(t) == AgreedDdl[t]

ReplyDdl(t) == IF replyStatus[t] = "REPLY_SPEC" THEN LocalDdl[t] ELSE AgreedDdl[t]

(* The status of the entry says which reply it is, *)
PickReply ==
    /\ replying = None
    /\ toReplyQu # <<>>
    /\ LET t == Head(toReplyQu)
       IN  replying' = [txn |-> t, ddl |-> ReplyDdl(t),
                        spec |-> replyStatus[t] = "REPLY_SPEC"]
    /\ toReplyQu' = Tail(toReplyQu)
    /\ UNCHANGED <<logVars, replyStatus, replyHandler, pendingEntries, pendingHandlers,
                   coordVars, inquiryVars>>

Answer(t, ddl, spec) ==
    replies' = [replies EXCEPT ![t] =
        [ddl |-> ddl, spec |-> spec, logId |-> LogId(t), specLogId |-> specLogId[t]]]

(* ... and its log ids are read when the reply is filled in. *)
SendFirst ==
    /\ replying # None
    /\ replying.txn \in replyHandler
    /\ Answer(replying.txn, replying.ddl, replying.spec)
    /\ replyHandler' = replyHandler \ {replying.txn}
    /\ replying' = None
    /\ UNCHANGED <<logVars, entryVars, pendingEntries, pendingHandlers,
                   toCommitReplyQu, committed, inquiryVars>>

(* The handler of the first reply is used up: the second reply needs the   *)
(* handler of a reconciliation request, and waits for it.                  *)
SendSecond ==
    /\ replying # None
    /\ replying.txn \notin replyHandler
    /\ LET t == replying.txn
       IN  \/ /\ t \in pendingHandlers
              /\ Answer(t, AgreedDdl[t], FALSE)
              /\ UNCHANGED pendingEntries
           \/ /\ t \notin pendingHandlers
              /\ pendingEntries' = pendingEntries \cup {t}
              /\ UNCHANGED replies
    /\ replying' = None
    /\ UNCHANGED <<logVars, entryVars, replyHandler, pendingHandlers,
                   toCommitReplyQu, committed, inquiryVars>>

(* Mutated: a request that comes before the second reply is dropped. *)
CommitReplyNow(t) ==
    /\ t \in toCommitReplyQu
    /\ toCommitReplyQu' = toCommitReplyQu \ {t}
    /\ IF t \in pendingEntries
       THEN /\ Answer(t, AgreedDdl[t], FALSE)
            /\ pendingEntries' = pendingEntries \ {t}
       ELSE UNCHANGED <<pendingEntries, replies>>
    /\ UNCHANGED <<logVars, entryVars, replying, replyHandler, pendingHandlers,
                   committed, inquiryVars>>

(* onReconcliationRequest queued the request of t. *)
CommitReply(t) ==
    /\ t \in toCommitReplyQu
    /\ toCommitReplyQu' = toCommitReplyQu \ {t}
    /\ \/ /\ t \in pendingEntries
          /\ Answer(t, AgreedDdl[t], FALSE)
          /\ pendingEntries' = pendingEntries \ {t}
          /\ UNCHANGED pendingHandlers
       \/ /\ t \notin pendingEntries
          /\ pendingHandlers' = pendingHandlers \cup {t}
          /\ UNCHANGED <<pendingEntries, replies>>
    /\ UNCHANGED <<logVars, entryVars, replying, replyHandler, committed,
                   inquiryVars>>

LeaderReplyTd ==
    PickReply \/ SendFirst \/ SendSecond \/ (\E t \in Txn : CommitReply(t))

-----------------------------------------------------------------------------
(* The coordinator.                                                        *)

(* IssueReconcliationRequest: another leader of t has answered with a      *)
(* higher deadline; the lower reply is dropped and a new one requested.    *)
Reconcile(t) ==
    /\ replies[t] # None
    /\ replies[t].ddl < AgreedDdl[t]
    /\ replies' = [replies EXCEPT ![t] = None]
    /\ toCommitReplyQu' = toCommitReplyQu \cup {t}
    /\ UNCHANGED <<logVars, entryVars, replyVars, committed, inquiryVars>>

(* Mutated: the second counter is taken for the number of the next one. *)
CountersNext(r) == <<Len(log[r]), nextSpecLogId[r] - 2>>

(* nextSyncedLogId_ - 1 and nextSpecLogId_ - 1. *)
Counters(r) == <<Len(log[r]), nextSpecLogId[r] - 1>>

(* onInquireServerSyncStatus reads the two counters one after the other.   *)
(* An inquiry that UpdateSyncStatus would ignore is left out.              *)
Inquire(r) ==
    /\ Len(inquiries[r]) < 2
    /\ Len(log[r]) > currentSynced[r]
    /\ inquiries' = [inquiries EXCEPT ![r] = Append(@, Counters(r)[Len(@) + 1])]
    /\ UNCHANGED <<logVars, entryVars, replyVars, coordVars, currentSynced,
                   currentSyncedSpec>>

(* UpdateSyncStatus takes both over because the first has grown. *)
UpdateSyncStatus(r) ==
    /\ Len(inquiries[r]) = 2
    /\ inquiries' = [inquiries EXCEPT ![r] = <<>>]
    /\ currentSynced' = [currentSynced EXCEPT ![r] = inquiries[r][1]]
    /\ currentSyncedSpec' = [currentSyncedSpec EXCEPT ![r] = inquiries[r][2]]
    /\ UNCHANGED <<logVars, entryVars, replyVars, coordVars>>

(* Mutated: the log id of a reply without one is taken for synced. *)
ReplicatedAnyId(r, reply) ==
    \/ currentSynced[r] >= reply.logId
    \/ reply.specLogId > 0 /\ currentSyncedSpec[r] >= reply.specLogId

(* Follower r has the entry of the leader's reply. *)
Replicated(r, reply) ==
    \/ reply.logId > 0 /\ currentSynced[r] >= reply.logId
    \/ reply.specLogId > 0 /\ currentSyncedSpec[r] >= reply.specLogId

(* isTxnCommitted, the slow path: with the leader a majority has t, and    *)
(* the leaders of t have answered with one deadline.                       *)
SlowCommit(t) ==
    /\ t \notin committed
    /\ replies[t] # None
    /\ replies[t].ddl = AgreedDdl[t]
    /\ Cardinality({r \in Follower : Replicated(r, replies[t])}) + 1
          >= Cardinality(Replica) \div 2 + 1
    /\ committed' = committed \cup {t}
    /\ UNCHANGED <<logVars, entryVars, replyVars, replies, toCommitReplyQu, inquiryVars>>

-----------------------------------------------------------------------------
Next ==
    \/ LeaderExecTd
    \/ FollowerSync
    \/ LeaderReplyTd
    \/ \E t \in Txn : Reconcile(t) \/ SlowCommit(t)
    \/ \E r \in Follower : Inquire(r) \/ UpdateSyncStatus(r)

Spec == Init /\ [][Next]_vars

(* The threads of the leader and the coordinator keep looping, the log     *)
(* reaches every follower (TigaReplication) and RPCs arrive.               *)
Fairness ==
    /\ WF_vars(LeaderExecTd)
    /\ WF_vars(PickReply \/ SendFirst \/ SendSecond)
    /\ \A t \in Txn :
          WF_vars(CommitReply(t)) /\ WF_vars(Reconcile(t)) /\ WF_vars(SlowCommit(t))
    /\ WF_vars(FollowerSync)
    /\ \A r \in Follower : WF_vars(Inquire(r)) /\ WF_vars(UpdateSyncStatus(r))

FairSpec == Spec /\ Fairness

-----------------------------------------------------------------------------
(* Properties.                                                             *)

(* Every variable holds values of the types of the program's fields.       *)
TypeOK ==
    /\ RL!TypeOK
    /\ replyStatus \in [Txn -> ReplyStatus]
    /\ toReplyQu \in Seq(Txn)
    /\ replying \in Picked \cup {None}
    /\ replyHandler \subseteq Txn
    /\ toCommitReplyQu \subseteq Txn
    /\ pendingEntries \subseteq Txn
    /\ pendingHandlers \subseteq Txn
    /\ replies \in [Txn -> Reply \cup {None}]
    /\ inquiries \in [Follower -> Seq(Nat)]
    /\ currentSynced \in [Follower -> Nat]
    /\ currentSyncedSpec \in [Follower -> Nat]
    /\ committed \subseteq Txn

(* Every follower that is counted as having t has answered an inquiry:     *)
(* until then, its speculative counter at the coordinator is not set.      *)
Told(t) == \A r \in Follower : Replicated(r, replies[t]) => currentSynced[r] > 0

(* A transaction that the coordinator commits through the slow path, told  *)
(* so by those it counts, is in the synced logs of a majority of the       *)
(* servers, also when it was the speculative id of the reply that was      *)
(* compared, which stands for no place in a log and is read at another     *)
(* time than the counters are.                                             *)
SlowCommitDurable ==
    [][\A t \in committed' \ committed : Told(t) =>
          2 * Cardinality({r \in Replica : InLog(r, t)}) > Cardinality(Replica)]_vars

(* The result that the coordinator then returns to its client is that of   *)
(* the execution that was logged: a speculation's only if the speculation  *)
(* was committed, although LeaderExecTd may roll it back while             *)
(* LeaderReplyTd is filling in the reply.                                  *)
ResultStands ==
    [][\A t \in committed' \ committed : Told(t) =>
          execStatus[t] = (IF replies[t].spec THEN "EXEC_COMMITING" ELSE "EXEC_DIRECT")]_vars

(* A reply the coordinator has dropped is followed by another: its request *)
(* and the second reply cannot both wait in LeaderReplyTd, each for the    *)
(* other to come, whichever of them comes first and whatever LeaderExecTd  *)
(* does meanwhile.                                                         *)
SecondReplyToCome(t) ==
    \/ execStatus[t] # "EXEC_DIRECT"
    \/ \E i \in DOMAIN toReplyQu : toReplyQu[i] = t
    \/ replying # None /\ replying.txn = t

NoReplyLost ==
    \A t \in Txn \ replyHandler :
        replies[t] = None
        => \/ t \in toCommitReplyQu /\ t \in pendingEntries
           \/ t \in toCommitReplyQu \cup pendingHandlers /\ SecondReplyToCome(t)

(* Appendix E of Tiga-technical-report.pdf: "Through the periodic inquiry, *)
(* the coordinator finally confirms the transaction is committed in the    *)
(* targeting shard if" f followers in the leader's view have advanced past *)
(* it.  Every transaction is confirmed.                                    *)
EveryTxnConfirmed == \A t \in Txn : <>(t \in committed)
=============================================================================
