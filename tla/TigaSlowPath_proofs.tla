-------------------------- MODULE TigaSlowPath_proofs --------------------------
(***************************************************************************)
(* What the slow path commits is on a majority of the shard's servers with *)
(* the result that was logged, and no second reply is lost, for any number *)
(* of servers and transactions.                                            *)
(*                                                                         *)
(* The invariant has three parts: where a transaction is in the logs and   *)
(* which ids stand for it; what the entries in LeaderReplyTd and the       *)
(* replies say of its execution; what the sync points are evidence of.     *)
(***************************************************************************)
EXTENDS TigaSlowPath, FiniteSetTheorems, SequenceTheorems, TLAPS

USE DEF RL!Follower, Follower, RL!InLog, InLog

Logged == {"EXEC_COMMITING", "EXEC_DIRECT"}

(* The leader logs a transaction once; followers have a prefix of its log. *)
LogInv ==
    /\ \A t \in Txn : InLog(Leader, t) <=> execStatus[t] \in Logged
    /\ \A i, j \in 1..Len(log[Leader]) : log[Leader][i] = log[Leader][j] => i = j
    /\ \A r \in Follower :
          /\ Len(log[r]) <= Len(log[Leader])
          /\ \A i \in 1..Len(log[r]) : log[r][i] = log[Leader][i]

(* A speculative id is given once, and counted by those that have its entry. *)
SpecInv ==
    /\ \A t \in Txn :
          /\ execStatus[t] = "EXEC_INIT" => specLogId[t] = 0
          /\ specLogId[t] < nextSpecLogId[Leader]
    /\ \A t, u \in Txn : specLogId[t] = specLogId[u] /\ specLogId[t] # 0 => t = u
    /\ \A r \in Replica : 1 <= nextSpecLogId[r] /\ nextSpecLogId[r] <= nextSpecLogId[Leader]
    /\ \A r \in Follower, t \in Txn :
          0 < specLogId[t] /\ specLogId[t] < nextSpecLogId[r] => InLog(r, t)

(* What is logged, given an id or executed for good stays. *)
Grows ==
    /\ \A r \in Replica :
          /\ Len(log[r]) <= Len(log'[r])
          /\ \A i \in 1..Len(log[r]) : log'[r][i] = log[r][i]
          /\ nextSpecLogId[r] <= nextSpecLogId'[r]
    /\ \A t \in Txn :
          /\ specLogId[t] # 0 => specLogId'[t] = specLogId[t]
          /\ execStatus[t] \in Logged => execStatus'[t] = execStatus[t]

LogOK == RL!TypeOK /\ LogInv /\ SpecInv

LEMMA LeaderIsReplica == Leader \in Replica /\ Leader \notin Follower
BY QuorumAssumption

LEMMA LogTypes ==
    ASSUME RL!TypeOK, NEW r \in Replica
    PROVE  /\ log[r] \in Seq(Txn) /\ Len(log[r]) \in Nat /\ DOMAIN log[r] = 1..Len(log[r])
           /\ nextSpecLogId[r] \in Nat
BY DEF RL!TypeOK

(* t is appended to the leader's log. *)
LEMMA LeaderAppends ==
    ASSUME LogOK, NEW t \in Txn, execStatus[t] \notin Logged,
           log' = [log EXCEPT ![Leader] = Append(@, t)],
           execStatus'[t] \in Logged,
           execStatus' \in [Txn -> RL!ExecStatus],
           \A u \in Txn \ {t} : execStatus'[u] = execStatus[u],
           UNCHANGED <<specLogId, nextSpecLogId>>
    PROVE  LogOK' /\ Grows
<1> USE LeaderIsReplica
<1> DEFINE l == log[Leader]
<1>1. l \in Seq(Txn) /\ Len(l) \in Nat
    BY LogTypes DEF LogOK
<1>2. log'[Leader] = Append(l, t) /\ \A r \in Follower : log'[r] = log[r]
    BY DEF LogOK, RL!TypeOK
<1>3. /\ Len(log'[Leader]) = Len(l) + 1
      /\ \A i \in 1..Len(l) : log'[Leader][i] = l[i]
      /\ log'[Leader][Len(l) + 1] = t
      /\ log'[Leader] \in Seq(Txn)
    BY <1>1, <1>2
<1>4. RL!TypeOK'
    BY <1>2, <1>3 DEF LogOK, RL!TypeOK
<1>5. Grows
    <2>1. ASSUME NEW r \in Replica
          PROVE  Len(log[r]) <= Len(log'[r]) /\ \A i \in 1..Len(log[r]) : log'[r][i] = log[r][i]
        <3>1. CASE r = Leader
            BY <3>1, <1>1, <1>3
        <3>2. CASE r # Leader
            <4>1. Len(log[r]) \in Nat
                BY LogTypes DEF LogOK
            <4> QED BY <3>2, <4>1, <1>2
        <3> QED BY <3>1, <3>2
    <2>2. \A r \in Replica : nextSpecLogId[r] <= nextSpecLogId'[r]
        BY LogTypes DEF LogOK
    <2> QED BY <2>1, <2>2 DEF Grows
<1>6. \A i \in 1..Len(l) : l[i] # t
    <2>1. ~InLog(Leader, t)
        BY DEF LogOK, LogInv
    <2> QED BY <2>1, <1>1
<1>7. LogInv'
    <2>1. ASSUME NEW u \in Txn
          PROVE  InLog(Leader, u)' <=> execStatus'[u] \in Logged
        <3>1. InLog(Leader, u)' <=> InLog(Leader, u) \/ u = t
            <4>1. InLog(Leader, u)' <=> \E i \in 1..Len(l) + 1 : log'[Leader][i] = u
                BY <1>1, <1>3
            <4>2. InLog(Leader, u) <=> \E i \in 1..Len(l) : l[i] = u
                BY <1>1
            <4> QED BY <4>1, <4>2, <1>1, <1>3
        <3> QED BY <3>1 DEF LogOK, LogInv
    <2>2. ASSUME NEW i \in 1..Len(log'[Leader]), NEW j \in 1..Len(log'[Leader]),
                 log'[Leader][i] = log'[Leader][j]
          PROVE  i = j
        <3>1. CASE i = Len(l) + 1 \/ j = Len(l) + 1
            BY <3>1, <2>2, <1>1, <1>3, <1>6
        <3>2. CASE i \in 1..Len(l) /\ j \in 1..Len(l)
            <4>1. l[i] = l[j]
                BY <3>2, <2>2, <1>3
            <4> QED BY <3>2, <4>1 DEF LogOK, LogInv
        <3> QED BY <3>1, <3>2, <1>1, <1>3
    <2>3. ASSUME NEW r \in Follower
          PROVE  /\ Len(log'[r]) <= Len(log'[Leader])
                 /\ \A i \in 1..Len(log'[r]) : log'[r][i] = log'[Leader][i]
        <3>1. Len(log[r]) \in Nat
            BY LogTypes DEF LogOK
        <3>2. /\ Len(log[r]) <= Len(l)
              /\ \A i \in 1..Len(log[r]) : log[r][i] = l[i]
            BY DEF LogOK, LogInv
        <3> QED BY <3>1, <3>2, <1>1, <1>2, <1>3
    <2> QED BY <2>1, <2>2, <2>3 DEF LogInv
<1>8. SpecInv'
    <2>1. \A r \in Follower, u \in Txn : InLog(r, u)' <=> InLog(r, u)
        BY <1>2
    <2> QED BY <2>1 DEF LogOK, SpecInv, Logged
<1> QED BY <1>4, <1>5, <1>7, <1>8 DEF LogOK

-----------------------------------------------------------------------------
(* Steps of the log.                                                       *)

LEMMA LogUnchanged ==
    ASSUME LogOK, UNCHANGED logVars
    PROVE  LogOK' /\ Grows
<1> USE DEF logVars
<1>1. RL!TypeOK' /\ LogInv' /\ SpecInv'
    BY DEF LogOK, RL!TypeOK, LogInv, SpecInv
<1>2. \A r \in Replica : Len(log[r]) \in Nat /\ nextSpecLogId[r] \in Nat
    BY LogTypes DEF LogOK
<1> QED BY <1>1, <1>2 DEF LogOK, Grows

LEMMA ExecSpecLogs ==
    ASSUME LogOK, NEW t \in Txn, RL!ExecSpec(t)
    PROVE  LogOK' /\ Grows
<1> USE LeaderIsReplica DEF RL!ExecSpec
<1>1. \A r \in Replica : Len(log[r]) \in Nat /\ nextSpecLogId[r] \in Nat
    BY LogTypes DEF LogOK
<1>2. RL!TypeOK'
    BY <1>1 DEF LogOK, RL!TypeOK, RL!ExecStatus
<1>3. /\ nextSpecLogId'[Leader] = nextSpecLogId[Leader] + 1
      /\ \A r \in Follower : nextSpecLogId'[r] = nextSpecLogId[r]
      /\ specLogId'[t] = nextSpecLogId[Leader] /\ specLogId[t] = 0
      /\ \A u \in Txn \ {t} : specLogId'[u] = specLogId[u]
      /\ execStatus'[t] = "EXEC_SPEC"
      /\ \A u \in Txn \ {t} : execStatus'[u] = execStatus[u]
    BY DEF LogOK, RL!TypeOK, SpecInv
<1>4. LogInv'
    BY <1>3 DEF LogOK, LogInv, Logged
<1>5. SpecInv'
    <2>1. \A u \in Txn : execStatus'[u] = "EXEC_INIT" => specLogId'[u] = 0
        BY <1>3 DEF LogOK, SpecInv
    <2>2. \A u \in Txn : specLogId[u] \in Nat /\ specLogId[u] < nextSpecLogId[Leader]
        BY DEF LogOK, SpecInv, RL!TypeOK
    <2>3. \A u \in Txn : specLogId'[u] < nextSpecLogId'[Leader]
        BY <1>1, <1>3, <2>2
    <2>4. \A u, v \in Txn : specLogId'[u] = specLogId'[v] /\ specLogId'[u] # 0 => u = v
        BY <1>1, <1>3, <2>2 DEF LogOK, SpecInv
    <2>5. \A r \in Replica : 1 <= nextSpecLogId'[r] /\ nextSpecLogId'[r] <= nextSpecLogId'[Leader]
        BY <1>1, <1>3 DEF LogOK, SpecInv
    <2>6. ASSUME NEW r \in Follower, NEW u \in Txn,
                 0 < specLogId'[u], specLogId'[u] < nextSpecLogId'[r]
          PROVE  InLog(r, u)'
        <3>1. u # t
            BY <1>1, <1>3, <2>6 DEF LogOK, SpecInv
        <3> QED BY <1>3, <2>6, <3>1 DEF LogOK, SpecInv
    <2> QED BY <2>1, <2>3, <2>4, <2>5, <2>6 DEF SpecInv
<1>6. Grows
    <2>1. \A r \in Replica : nextSpecLogId[r] <= nextSpecLogId'[r]
        BY <1>1, <1>3
    <2> QED BY <1>1, <1>3, <2>1 DEF Grows, Logged
<1> QED BY <1>2, <1>4, <1>5, <1>6 DEF LogOK

LEMMA ExecCommitLogs ==
    ASSUME LogOK, NEW t \in Txn, RL!ExecCommit(t) \/ RL!ExecDirect(t)
    PROVE  LogOK' /\ Grows
<1> USE DEF RL!ExecCommit, RL!ExecDirect, LogOK, RL!TypeOK, RL!ExecStatus, Logged
<1>1. execStatus[t] \notin Logged /\ execStatus'[t] \in Logged
    OBVIOUS
<1>2. execStatus' \in [Txn -> RL!ExecStatus] /\ \A u \in Txn \ {t} : execStatus'[u] = execStatus[u]
    OBVIOUS
<1> QED BY <1>1, <1>2, LeaderAppends

LEMMA ExecRollbackLogs ==
    ASSUME LogOK, NEW t \in Txn, RL!ExecRollback(t)
    PROVE  LogOK' /\ Grows
<1> USE DEF RL!ExecRollback
<1>1. \A r \in Replica : Len(log[r]) \in Nat /\ nextSpecLogId[r] \in Nat
    BY LogTypes DEF LogOK
<1>2. RL!TypeOK'
    BY DEF LogOK, RL!TypeOK, RL!ExecStatus
<1>3. execStatus'[t] = "EXEC_ROLLBACK" /\ \A u \in Txn \ {t} : execStatus'[u] = execStatus[u]
    BY DEF LogOK, RL!TypeOK
<1>4. LogInv' /\ SpecInv' /\ Grows
    BY <1>1, <1>3 DEF LogOK, LogInv, SpecInv, Grows, Logged
<1> QED BY <1>2, <1>4 DEF LogOK

LEMMA FollowLogs ==
    ASSUME LogOK, NEW r \in Follower, RL!Follow(r)
    PROVE  LogOK' /\ Grows
<1> USE LeaderIsReplica DEF RL!Follow, RL!NextSyncedLogId
<1> DEFINE l == log[r]
           e == log[Leader][Len(l) + 1]
<1>1. \A o \in Replica : log[o] \in Seq(Txn) /\ Len(log[o]) \in Nat /\ nextSpecLogId[o] \in Nat
    BY LogTypes DEF LogOK
<1>2. e \in Txn
    BY <1>1
<1>3. log'[r] = Append(l, e) /\ \A o \in Replica \ {r} : log'[o] = log[o]
    BY DEF LogOK, RL!TypeOK
<1>4. /\ Len(log'[r]) = Len(l) + 1
      /\ \A i \in 1..Len(l) : log'[r][i] = l[i]
      /\ log'[r][Len(l) + 1] = e
      /\ log'[r] \in Seq(Txn)
    BY <1>1, <1>2, <1>3
<1>5. RL!TypeOK'
    BY <1>3, <1>4 DEF LogOK, RL!TypeOK
<1>6. Grows
    <2>1. ASSUME NEW o \in Replica
          PROVE  Len(log[o]) <= Len(log'[o]) /\ \A i \in 1..Len(log[o]) : log'[o][i] = log[o][i]
        BY <1>1, <1>3, <1>4
    <2> QED BY <1>1, <2>1 DEF Grows
<1>7. LogInv'
    <2>1. log'[Leader] = log[Leader]
        BY <1>3
    <2>2. ASSUME NEW o \in Follower
          PROVE  /\ Len(log'[o]) <= Len(log'[Leader])
                 /\ \A i \in 1..Len(log'[o]) : log'[o][i] = log'[Leader][i]
        <3>1. CASE o = r
            BY <1>1, <1>4, <2>1, <3>1 DEF LogOK, LogInv
        <3>2. CASE o # r
            BY <1>3, <2>1, <3>2 DEF LogOK, LogInv
        <3> QED BY <3>1, <3>2
    <2> QED BY <2>1, <2>2 DEF LogOK, LogInv
<1>8. SpecInv'
    <2>1. ASSUME NEW o \in Follower, NEW u \in Txn, InLog(o, u)
          PROVE  InLog(o, u)'
        <3>1. PICK i \in 1..Len(log[o]) : log[o][i] = u
            BY <1>1, <2>1
        <3>2. i \in 1..Len(log'[o]) /\ log'[o][i] = u
            BY <1>1, <1>3, <1>4, <3>1
        <3>3. DOMAIN log'[o] = 1..Len(log'[o])
            BY <1>5 DEF RL!TypeOK
        <3> QED BY <3>2, <3>3
    <2> QED BY <2>1 DEF LogOK, SpecInv
<1> QED BY <1>5, <1>6, <1>7, <1>8 DEF LogOK

LEMMA CountSpecLogs ==
    ASSUME LogOK, NEW r \in Follower, RL!CountSpec(r)
    PROVE  LogOK' /\ Grows
<1> USE LeaderIsReplica DEF RL!CountSpec
<1>1. \A o \in Replica : Len(log[o]) \in Nat /\ nextSpecLogId[o] \in Nat
    BY LogTypes DEF LogOK
<1>2. /\ nextSpecLogId'[r] = nextSpecLogId[r] + 1
      /\ \A o \in Replica \ {r} : nextSpecLogId'[o] = nextSpecLogId[o]
    BY DEF LogOK, RL!TypeOK
<1>3. RL!TypeOK'
    BY <1>1 DEF LogOK, RL!TypeOK
<1>4. LogInv' /\ Grows
    <2>1. LogInv'
        BY DEF LogOK, LogInv
    <2>2. \A o \in Replica : nextSpecLogId[o] <= nextSpecLogId'[o]
        BY <1>1, <1>2
    <2> QED BY <1>1, <2>1, <2>2 DEF Grows
<1>5. PICK t \in Txn : specLogId[t] = nextSpecLogId[r] /\ InLog(r, t)
    OBVIOUS
<1>6. \A u \in Txn : specLogId[u] \in Nat
    BY DEF LogOK, RL!TypeOK
<1>7. SpecInv'
    <2>1. \A o \in Replica : 1 <= nextSpecLogId'[o] /\ nextSpecLogId'[o] <= nextSpecLogId'[Leader]
        BY <1>1, <1>2, <1>5, <1>6 DEF LogOK, SpecInv
    <2>2. ASSUME NEW o \in Follower, NEW u \in Txn,
                 0 < specLogId[u], specLogId[u] < nextSpecLogId'[o]
          PROVE  InLog(o, u)
        <3>1. CASE specLogId[u] < nextSpecLogId[o]
            BY <2>2, <3>1 DEF LogOK, SpecInv
        <3>2. CASE ~(specLogId[u] < nextSpecLogId[o])
            <4>1. o = r /\ specLogId[u] = nextSpecLogId[r]
                BY <1>1, <1>2, <1>6, <2>2, <3>2
            <4> QED BY <1>5, <1>6, <2>2, <4>1 DEF LogOK, SpecInv
        <3> QED BY <3>1, <3>2
    <2> QED BY <1>2, <2>1, <2>2 DEF LogOK, SpecInv
<1> QED BY <1>3, <1>4, <1>7 DEF LogOK

LEMMA LogSteps == ASSUME LogOK, Next PROVE LogOK' /\ Grows
<1>1. CASE LeaderExecTd
    BY <1>1, ExecSpecLogs, ExecCommitLogs, ExecRollbackLogs DEF LeaderExecTd
<1>2. CASE FollowerSync
    BY <1>2, FollowLogs, CountSpecLogs DEF FollowerSync
<1>3. CASE ~LeaderExecTd /\ ~FollowerSync
    <2>1. UNCHANGED logVars
        BY <1>3 DEF Next, LeaderReplyTd, PickReply, SendFirst, SendSecond, CommitReply,
                    Reconcile, SlowCommit, Inquire, UpdateSyncStatus
    <2> QED BY <2>1, LogUnchanged
<1> QED BY <1>1, <1>2, <1>3

LEMMA LogInit == ASSUME RL!Init PROVE LogOK
<1> USE LeaderIsReplica DEF RL!Init
<1>1. RL!TypeOK
    BY DEF RL!TypeOK, RL!ExecStatus
<1>2. \A r \in Replica : Len(log[r]) = 0 /\ DOMAIN log[r] = {}
    OBVIOUS
<1>3. LogInv
    BY <1>2 DEF LogInv, Logged
<1>4. SpecInv
    BY DEF SpecInv
<1> QED BY <1>1, <1>3, <1>4 DEF LogOK

-----------------------------------------------------------------------------
(* Replies.                                                                *)

InQueue(t) == \E i \in DOMAIN toReplyQu : toReplyQu[i] = t
Replying(t) == replying # None /\ replying.txn = t

(* A speculation at the deadline that is agreed upon stands. *)
RightSpec(t) == LocalDdl[t] = AgreedDdl[t] => execStatus[t] \in {"EXEC_SPEC", "EXEC_COMMITING"}

EntryInv(t) ==
    /\ replyStatus[t] = "REPLY_SPEC"
          <=> execStatus[t] \in {"EXEC_SPEC", "EXEC_ROLLBACK", "EXEC_COMMITING"}
    /\ execStatus[t] = "EXEC_ROLLBACK" => LocalDdl[t] # AgreedDdl[t]

(* Only an entry that has been executed for good is queued a second time. *)
QueueInv(t) ==
    /\ execStatus[t] = "EXEC_INIT" => t \in replyHandler /\ ~InQueue(t) /\ ~Replying(t)
    /\ execStatus[t] # "EXEC_DIRECT" =>
          /\ t \notin replyHandler => ~InQueue(t) /\ ~Replying(t)
          /\ InQueue(t) => ~Replying(t)
          /\ \A i, j \in 1..Len(toReplyQu) : toReplyQu[i] = t /\ toReplyQu[j] = t => i = j

(* A reply tells the deadline and the result of one of the executions, and *)
(* after one that did not stand the other is in the queue.                 *)
PickedInv(t) ==
    Replying(t) =>
        /\ replying.spec => /\ RightSpec(t) /\ replying.ddl = LocalDdl[t]
                            /\ execStatus[t] = "EXEC_DIRECT" => InQueue(t)
        /\ ~replying.spec => execStatus[t] = "EXEC_DIRECT" /\ replying.ddl = AgreedDdl[t]

RepliesInv(t) ==
    replies[t] # None =>
        /\ t \notin replyHandler
        /\ replies[t].spec => RightSpec(t) /\ replies[t].ddl = LocalDdl[t]
        /\ ~replies[t].spec => execStatus[t] = "EXEC_DIRECT" /\ replies[t].ddl = AgreedDdl[t]
        /\ replies[t].logId > 0 => /\ replies[t].logId <= Len(log[Leader])
                                   /\ log[Leader][replies[t].logId] = t
        /\ replies[t].specLogId > 0 => replies[t].specLogId = specLogId[t]

PendingInv(t) ==
    t \in pendingEntries =>
        execStatus[t] = "EXEC_DIRECT" /\ t \notin replyHandler /\ t \notin pendingHandlers

(* A reply that is not the last will be followed by the one that is, *)
SecondInv(t) ==
    /\ t \notin replyHandler
    /\ replies[t] = None \/ replies[t].ddl # AgreedDdl[t]
    => t \in pendingEntries \/ SecondReplyToCome(t)

(* ... and one that was dropped has been asked for again. *)
AskedInv(t) ==
    t \notin replyHandler /\ replies[t] = None => t \in toCommitReplyQu \cup pendingHandlers

ReplyInv(t) ==
    /\ EntryInv(t)
    /\ QueueInv(t)
    /\ PickedInv(t)
    /\ RepliesInv(t)
    /\ PendingInv(t)
    /\ SecondInv(t)
    /\ AskedInv(t)

LEMMA QueueTypes ==
    ASSUME TypeOK
    PROVE  /\ toReplyQu \in Seq(Txn) /\ Len(toReplyQu) \in Nat
           /\ DOMAIN toReplyQu = 1..Len(toReplyQu)
           /\ \A t \in Txn : SecondReplyToCome(t)
                 <=> execStatus[t] # "EXEC_DIRECT" \/ InQueue(t) \/ Replying(t)
           /\ replying # None => replying.txn \in Txn
BY DEF TypeOK, SecondReplyToCome, InQueue, Replying, Picked

(* What an appended entry changes. *)
LEMMA QueueReplies ==
    ASSUME TypeOK, NEW t \in Txn, NEW status \in ReplyStatus, QueueReply(t, status)
    PROVE  /\ \A u \in Txn : InQueue(u)' <=> InQueue(u) \/ u = t
           /\ ~InQueue(t) => \A i, j \in 1..Len(toReplyQu') :
                 toReplyQu'[i] = t /\ toReplyQu'[j] = t => i = j
           /\ \A u \in Txn \ {t} :
                 (\A i, j \in 1..Len(toReplyQu) : toReplyQu[i] = u /\ toReplyQu[j] = u => i = j)
                 => \A i, j \in 1..Len(toReplyQu') : toReplyQu'[i] = u /\ toReplyQu'[j] = u => i = j
           /\ replyStatus'[t] = status /\ \A u \in Txn \ {t} : replyStatus'[u] = replyStatus[u]
           /\ replyStatus' \in [Txn -> ReplyStatus] /\ toReplyQu' \in Seq(Txn)
<1> DEFINE n == Len(toReplyQu)
<1>1. toReplyQu \in Seq(Txn) /\ n \in Nat /\ DOMAIN toReplyQu = 1..n
    BY QueueTypes
<1>2. /\ toReplyQu' \in Seq(Txn) /\ Len(toReplyQu') = n + 1
      /\ \A i \in 1..n : toReplyQu'[i] = toReplyQu[i]
      /\ toReplyQu'[n + 1] = t
    BY <1>1 DEF QueueReply
<1>3. \A i \in 1..n + 1 : i \in 1..n \/ i = n + 1
    BY <1>1
<1>4. DOMAIN toReplyQu' = 1..n + 1
    BY <1>2
<1>5. ASSUME NEW u \in Txn
      PROVE  InQueue(u)' <=> InQueue(u) \/ u = t
    <2>1. InQueue(u)' <=> \E i \in 1..n + 1 : toReplyQu'[i] = u
        BY <1>4 DEF InQueue
    <2>2. InQueue(u) <=> \E i \in 1..n : toReplyQu[i] = u
        BY <1>1 DEF InQueue
    <2> QED BY <1>1, <1>2, <1>3, <2>1, <2>2
<1>6. ASSUME ~InQueue(t), NEW i \in 1..n + 1, NEW j \in 1..n + 1,
             toReplyQu'[i] = t, toReplyQu'[j] = t
      PROVE  i = j
    BY <1>1, <1>2, <1>3, <1>6 DEF InQueue
<1>7. ASSUME NEW u \in Txn \ {t},
             \A i, j \in 1..n : toReplyQu[i] = u /\ toReplyQu[j] = u => i = j,
             NEW i \in 1..n + 1, NEW j \in 1..n + 1, toReplyQu'[i] = u, toReplyQu'[j] = u
      PROVE  i = j
    BY <1>2, <1>3, <1>7
<1>8. /\ replyStatus'[t] = status /\ \A u \in Txn \ {t} : replyStatus'[u] = replyStatus[u]
      /\ replyStatus' \in [Txn -> ReplyStatus]
    BY DEF QueueReply, TypeOK
<1> QED BY <1>2, <1>5, <1>6, <1>7, <1>8

(* What it changes when the first entry is taken. *)
LEMMA DequeueReplies ==
    ASSUME TypeOK, toReplyQu # <<>>, toReplyQu' = Tail(toReplyQu)
    PROVE  /\ Head(toReplyQu) \in Txn /\ InQueue(Head(toReplyQu)) /\ toReplyQu' \in Seq(Txn)
           /\ \A u \in Txn : InQueue(u)' => InQueue(u)
           /\ \A u \in Txn : InQueue(u) => InQueue(u)' \/ u = Head(toReplyQu)
           /\ \A u \in Txn :
                 (\A i, j \in 1..Len(toReplyQu) : toReplyQu[i] = u /\ toReplyQu[j] = u => i = j)
                 => /\ \A i, j \in 1..Len(toReplyQu') :
                          toReplyQu'[i] = u /\ toReplyQu'[j] = u => i = j
                    /\ u = Head(toReplyQu) => ~InQueue(u)'
<1> DEFINE n == Len(toReplyQu)
           h == Head(toReplyQu)
<1>1. toReplyQu \in Seq(Txn) /\ n \in Nat /\ DOMAIN toReplyQu = 1..n
    BY QueueTypes
<1>2. n >= 1 /\ h = toReplyQu[1] /\ h \in Txn
    BY <1>1
<1>3. /\ toReplyQu' \in Seq(Txn) /\ Len(toReplyQu') = n - 1
      /\ \A i \in 1..n - 1 : toReplyQu'[i] = toReplyQu[i + 1]
    BY <1>1, HeadTailProperties
<1>4. DOMAIN toReplyQu' = 1..n - 1
    BY <1>3
<1>5. /\ \A i \in 1..n - 1 : i \in 1..n /\ i + 1 \in 1..n /\ i + 1 # 1
      /\ \A i, j \in 1..n - 1 : i + 1 = j + 1 => i = j
      /\ \A i \in 1..n : i = 1 \/ (i - 1 \in 1..n - 1 /\ (i - 1) + 1 = i)
    BY <1>1, <1>2
<1>6. ASSUME NEW u \in Txn
      PROVE  (InQueue(u)' <=> \E i \in 1..n - 1 : toReplyQu'[i] = u)
             /\ (InQueue(u) <=> \E i \in 1..n : toReplyQu[i] = u)
    BY <1>1, <1>4 DEF InQueue
<1>7. InQueue(h)
    BY <1>1, <1>2, <1>6
<1>8. ASSUME NEW u \in Txn
      PROVE  (InQueue(u)' => InQueue(u)) /\ (InQueue(u) => InQueue(u)' \/ u = h)
    <2>1. InQueue(u)' => InQueue(u)
        BY <1>3, <1>5, <1>6
    <2>2. ASSUME InQueue(u), u # h
          PROVE  InQueue(u)'
        <3>1. PICK i \in 1..n : toReplyQu[i] = u
            BY <1>6, <2>2
        <3>2. i # 1
            BY <1>2, <2>2, <3>1
        <3>3. i - 1 \in 1..n - 1 /\ toReplyQu'[i - 1] = toReplyQu[(i - 1) + 1]
            BY <1>3, <1>5, <3>2
        <3>4. toReplyQu'[i - 1] = u
            BY <1>5, <3>1, <3>2, <3>3
        <3> QED BY <1>6, <3>3, <3>4
    <2> QED BY <2>1, <2>2
<1>9. ASSUME NEW u \in Txn,
             \A i, j \in 1..n : toReplyQu[i] = u /\ toReplyQu[j] = u => i = j
      PROVE  /\ \A i, j \in 1..n - 1 : toReplyQu'[i] = u /\ toReplyQu'[j] = u => i = j
             /\ u = h => ~InQueue(u)'
    <2>1. ASSUME NEW i \in 1..n - 1, NEW j \in 1..n - 1, toReplyQu'[i] = u, toReplyQu'[j] = u
          PROVE  i = j
        <3>1. toReplyQu[i + 1] = u /\ toReplyQu[j + 1] = u
            BY <1>3, <2>1
        <3> QED BY <1>5, <1>9, <3>1
    <2>2. ASSUME u = h, NEW i \in 1..n - 1, toReplyQu'[i] = u
          PROVE  FALSE
        <3>1. toReplyQu[i + 1] = u /\ toReplyQu[1] = u /\ 1 \in 1..n
            BY <1>1, <1>2, <1>3, <2>2
        <3> QED BY <1>5, <1>9, <3>1
    <2> QED BY <1>6, <2>1, <2>2
<1> QED BY <1>2, <1>3, <1>7, <1>8, <1>9

(* What a reply consists of. *)
LEMMA Answers ==
    ASSUME TypeOK, NEW t \in Txn, NEW ddl \in Nat, NEW spec \in BOOLEAN, Answer(t, ddl, spec)
    PROVE  /\ replies' \in [Txn -> Reply \cup {None}]
           /\ \A u \in Txn \ {t} : replies'[u] = replies[u]
           /\ replies'[t] # None
           /\ replies'[t].ddl = ddl /\ replies'[t].spec = spec
           /\ replies'[t].specLogId = specLogId[t]
           /\ replies'[t].logId > 0 => /\ replies'[t].logId <= Len(log[Leader])
                                       /\ log[Leader][replies'[t].logId] = t
<1> DEFINE reply == [ddl |-> ddl, spec |-> spec, logId |-> LogId(t), specLogId |-> specLogId[t]]
<1>1. Len(log[Leader]) \in Nat /\ DOMAIN log[Leader] = 1..Len(log[Leader])
    BY LogTypes, LeaderIsReplica DEF TypeOK
<1>2. /\ LogId(t) \in Nat
      /\ LogId(t) > 0 => LogId(t) <= Len(log[Leader]) /\ log[Leader][LogId(t)] = t
    <2>1. CASE InLog(Leader, t)
        <3>1. \E i \in DOMAIN log[Leader] : log[Leader][i] = t
            BY <2>1
        <3>2. LogId(t) = CHOOSE i \in DOMAIN log[Leader] : log[Leader][i] = t
            BY <2>1 DEF LogId
        <3>3. LogId(t) \in DOMAIN log[Leader] /\ log[Leader][LogId(t)] = t
            BY <3>1, <3>2
        <3> QED BY <1>1, <3>3
    <2>2. CASE ~InLog(Leader, t)
        BY <2>2 DEF LogId
    <2> QED BY <2>1, <2>2
<1>3. specLogId[t] \in Nat
    BY DEF TypeOK, RL!TypeOK
<1>4. reply \in Reply
    BY <1>2, <1>3 DEF Reply
<1>5. reply # None
    BY <1>4, NoneAssumption
<1>6. replies' = [replies EXCEPT ![t] = reply]
    BY DEF Answer
<1>7. replies'[t] = reply /\ \A u \in Txn \ {t} : replies'[u] = replies[u]
    BY <1>6 DEF TypeOK
<1>8. replies' \in [Txn -> Reply \cup {None}]
    BY <1>4, <1>6 DEF TypeOK
<1> HIDE DEF LogId
<1> QED BY <1>2, <1>5, <1>7, <1>8

(* A reply that has been sent remains right. *)
LEMMA RepliesKept ==
    ASSUME TypeOK, Grows, NEW u \in Txn, RepliesInv(u),
           replies'[u] = replies[u], u \in replyHandler' => u \in replyHandler,
           RightSpec(u) => RightSpec(u)'
    PROVE  RepliesInv(u)'
<1> SUFFICES ASSUME replies[u] # None PROVE RepliesInv(u)'
    BY DEF RepliesInv
<1>1. replies[u] \in Reply
    BY DEF TypeOK
<1>2. replies[u].logId \in Nat /\ replies[u].specLogId \in Nat
    BY <1>1 DEF Reply
<1>3. execStatus[u] = "EXEC_DIRECT" => execStatus'[u] = "EXEC_DIRECT"
    BY DEF Grows, Logged
<1>4. replies[u].logId > 0 =>
        replies[u].logId <= Len(log'[Leader]) /\ log'[Leader][replies[u].logId] = u
    <2> SUFFICES ASSUME replies[u].logId > 0
                 PROVE  replies[u].logId <= Len(log'[Leader]) /\ log'[Leader][replies[u].logId] = u
        OBVIOUS
    <2>1. Len(log[Leader]) \in Nat
        BY LogTypes, LeaderIsReplica DEF TypeOK
    <2>2. replies[u].logId <= Len(log[Leader]) /\ log[Leader][replies[u].logId] = u
        BY DEF RepliesInv
    <2>3. Len(log[Leader]) <= Len(log'[Leader]) /\ replies[u].logId \in 1..Len(log[Leader])
        BY <1>2, <2>1, <2>2, LeaderIsReplica DEF Grows
    <2>4. log'[Leader][replies[u].logId] = log[Leader][replies[u].logId]
        BY <2>3, LeaderIsReplica DEF Grows
    <2>5. replies[u].logId <= Len(log'[Leader])
        BY <1>2, <2>1, <2>2, <2>3, LeaderIsReplica DEF Grows
    <2> QED BY <2>2, <2>4, <2>5
<1>5. replies[u].specLogId > 0 => replies[u].specLogId = specLogId'[u]
    BY <1>2 DEF RepliesInv, Grows
<1> QED BY <1>3, <1>4, <1>5 DEF RepliesInv

(* Steps that leave the replies of u alone. *)
LEMMA ReplyInvKept ==
    ASSUME TypeOK, Grows, NEW u \in Txn, ReplyInv(u),
           execStatus'[u] = execStatus[u], replyStatus'[u] = replyStatus[u],
           InQueue(u)' <=> InQueue(u),
           (\A i, j \in 1..Len(toReplyQu) : toReplyQu[i] = u /\ toReplyQu[j] = u => i = j)
           => \A i, j \in 1..Len(toReplyQu') : toReplyQu'[i] = u /\ toReplyQu'[j] = u => i = j,
           Replying(u)' <=> Replying(u), Replying(u) => replying' = replying,
           SecondReplyToCome(u) => SecondReplyToCome(u)',
           u \in replyHandler' <=> u \in replyHandler,
           u \in pendingEntries' <=> u \in pendingEntries,
           u \in pendingHandlers' <=> u \in pendingHandlers,
           u \in toCommitReplyQu' <=> u \in toCommitReplyQu,
           replies'[u] = replies[u]
    PROVE  ReplyInv(u)'
<1>1. RightSpec(u)' <=> RightSpec(u)
    BY DEF RightSpec
<1>2. RepliesInv(u)'
    BY <1>1, RepliesKept DEF ReplyInv
<1>3. EntryInv(u)' /\ QueueInv(u)' /\ PickedInv(u)'
    BY <1>1 DEF ReplyInv, EntryInv, QueueInv, PickedInv
<1>4. PendingInv(u)' /\ SecondInv(u)' /\ AskedInv(u)'
    BY DEF ReplyInv, PendingInv, SecondInv, AskedInv
<1> QED BY <1>2, <1>3, <1>4 DEF ReplyInv

-----------------------------------------------------------------------------
(* Steps of the replies.                                                   *)

LEMMA ExecReplies ==
    ASSUME TypeOK, Grows, \A t \in Txn : ReplyInv(t), LeaderExecTd, NEW u \in Txn
    PROVE  ReplyInv(u)'
<1>1. /\ UNCHANGED <<replying, replyHandler, pendingEntries, pendingHandlers>>
      /\ UNCHANGED <<replies, toCommitReplyQu, committed>>
    BY DEF LeaderExecTd, replyVars, coordVars
<1>2. PICK t \in Txn :
        \/ RL!ExecSpec(t) /\ QueueReply(t, "REPLY_SPEC")
        \/ RL!ExecDirect(t) /\ QueueReply(t, "REPLY_AGREED")
        \/ RL!ExecCommit(t) /\ UNCHANGED entryVars
        \/ RL!ExecRollback(t) /\ UNCHANGED entryVars
    BY DEF LeaderExecTd
<1>3. Replying(u)' <=> Replying(u)
    BY <1>1 DEF Replying
<1>4. /\ "REPLY_SPEC" \in ReplyStatus /\ "REPLY_AGREED" \in ReplyStatus
      /\ execStatus \in [Txn -> RL!ExecStatus] /\ replyStatus \in [Txn -> ReplyStatus]
    BY DEF TypeOK, RL!TypeOK, ReplyStatus
<1>5. ReplyInv(t) /\ ReplyInv(u)
    OBVIOUS
<1>6. CASE RL!ExecSpec(t) /\ QueueReply(t, "REPLY_SPEC")
    <2>1. /\ execStatus[t] = "EXEC_INIT" /\ execStatus'[t] = "EXEC_SPEC"
          /\ u # t => execStatus'[u] = execStatus[u]
        BY <1>4, <1>6 DEF RL!ExecSpec
    <2>2. /\ InQueue(u)' <=> InQueue(u) \/ u = t
          /\ replyStatus'[t] = "REPLY_SPEC"
          /\ u # t => replyStatus'[u] = replyStatus[u]
          /\ u # t /\ (\A i, j \in 1..Len(toReplyQu) : toReplyQu[i] = u /\ toReplyQu[j] = u => i = j)
               => \A i, j \in 1..Len(toReplyQu') : toReplyQu'[i] = u /\ toReplyQu'[j] = u => i = j
        BY <1>4, <1>6, QueueReplies
    <2>3. ~InQueue(t) => \A i, j \in 1..Len(toReplyQu') :
                toReplyQu'[i] = t /\ toReplyQu'[j] = t => i = j
        BY <1>4, <1>6, QueueReplies
    <2>4. CASE u = t
        <3>1. t \in replyHandler /\ ~InQueue(t) /\ ~Replying(t)
            BY <1>5, <2>1 DEF ReplyInv, QueueInv
        <3>2. EntryInv(t)' /\ QueueInv(t)' /\ PickedInv(t)'
            BY <1>1, <1>3, <2>1, <2>2, <2>4, <2>3, <3>1 DEF EntryInv, QueueInv, PickedInv
        <3>3. RepliesInv(t)' /\ PendingInv(t)' /\ SecondInv(t)' /\ AskedInv(t)'
            BY <1>1, <1>5, <2>1, <3>1
               DEF ReplyInv, RepliesInv, PendingInv, SecondInv, AskedInv
        <3> QED BY <2>4, <3>2, <3>3 DEF ReplyInv
    <2>5. CASE u # t
        <3>1. SecondReplyToCome(u) => SecondReplyToCome(u)'
            BY <1>1, <2>1, <2>2, <2>5 DEF SecondReplyToCome, InQueue
        <3> QED BY <1>1, <1>3, <1>5, <2>1, <2>2, <2>5, <3>1, ReplyInvKept
    <2> QED BY <2>4, <2>5
<1>7. CASE RL!ExecDirect(t) /\ QueueReply(t, "REPLY_AGREED")
    <2>1. /\ execStatus[t] \in {"EXEC_INIT", "EXEC_ROLLBACK"} /\ execStatus'[t] = "EXEC_DIRECT"
          /\ u # t => execStatus'[u] = execStatus[u]
        BY <1>4, <1>7 DEF RL!ExecDirect
    <2>2. /\ InQueue(u)' <=> InQueue(u) \/ u = t
          /\ replyStatus'[t] = "REPLY_AGREED"
          /\ u # t => replyStatus'[u] = replyStatus[u]
          /\ u # t /\ (\A i, j \in 1..Len(toReplyQu) : toReplyQu[i] = u /\ toReplyQu[j] = u => i = j)
               => \A i, j \in 1..Len(toReplyQu') : toReplyQu'[i] = u /\ toReplyQu'[j] = u => i = j
        BY <1>4, <1>7, QueueReplies
    <2>3. CASE u = t
        <3>1. RightSpec(t) => RightSpec(t)'
            BY <2>1 DEF RightSpec
        <3>2. EntryInv(t)' /\ QueueInv(t)'
            BY <2>1, <2>2 DEF EntryInv, QueueInv
        <3>3. InQueue(t)'
            BY <2>2, <2>3
        <3>4. PickedInv(t)'
            BY <1>1, <1>3, <1>5, <2>1, <2>3, <3>1, <3>3 DEF ReplyInv, PickedInv
        <3>5. RepliesInv(t)'
            BY <1>1, <1>5, <3>1, RepliesKept DEF ReplyInv
        <3>6. PendingInv(t)' /\ SecondInv(t)' /\ AskedInv(t)'
            BY <1>1, <1>5, <2>1, <3>3
               DEF ReplyInv, PendingInv, SecondInv, AskedInv, SecondReplyToCome, InQueue
        <3> QED BY <2>3, <3>2, <3>4, <3>5, <3>6 DEF ReplyInv
    <2>4. CASE u # t
        <3>1. SecondReplyToCome(u) => SecondReplyToCome(u)'
            BY <1>1, <2>1, <2>2, <2>4 DEF SecondReplyToCome, InQueue
        <3> QED BY <1>1, <1>3, <1>5, <2>1, <2>2, <2>4, <3>1, ReplyInvKept
    <2> QED BY <2>3, <2>4
<1>8. CASE (RL!ExecCommit(t) \/ RL!ExecRollback(t)) /\ UNCHANGED entryVars
    <2>1. /\ execStatus[t] = "EXEC_SPEC"
          /\ execStatus'[t] = (IF LocalDdl[t] = AgreedDdl[t] THEN "EXEC_COMMITING" ELSE "EXEC_ROLLBACK")
          /\ u # t => execStatus'[u] = execStatus[u]
        BY <1>4, <1>8 DEF RL!ExecCommit, RL!ExecRollback
    <2>2. UNCHANGED <<replyStatus, toReplyQu>> /\ (InQueue(u)' <=> InQueue(u))
        BY <1>8 DEF entryVars, InQueue
    <2>3. CASE u = t
        <3>1. RightSpec(t) => RightSpec(t)'
            BY <2>1 DEF RightSpec
        <3>2. EntryInv(t)' /\ QueueInv(t)' /\ PickedInv(t)'
            BY <1>1, <1>3, <1>5, <2>1, <2>2, <2>3, <3>1
               DEF ReplyInv, EntryInv, QueueInv, PickedInv
        <3>3. RepliesInv(t)'
            BY <1>1, <1>5, <3>1, RepliesKept DEF ReplyInv
        <3>4. PendingInv(t)' /\ SecondInv(t)' /\ AskedInv(t)'
            BY <1>1, <1>5, <2>1
               DEF ReplyInv, PendingInv, SecondInv, AskedInv, SecondReplyToCome
        <3> QED BY <2>3, <3>2, <3>3, <3>4 DEF ReplyInv
    <2>4. CASE u # t
        <3>1. SecondReplyToCome(u) => SecondReplyToCome(u)'
            BY <1>1, <2>1, <2>2, <2>4 DEF SecondReplyToCome
        <3> QED BY <1>1, <1>3, <1>5, <2>1, <2>2, <2>4, <3>1, ReplyInvKept
    <2> QED BY <2>3, <2>4
<1> QED BY <1>2, <1>6, <1>7, <1>8

LEMMA PickReplies ==
    ASSUME TypeOK, Grows, \A t \in Txn : ReplyInv(t), PickReply, NEW u \in Txn
    PROVE  ReplyInv(u)'
<1>0. PICK t : t = Head(toReplyQu)
    OBVIOUS
<1> DEFINE p == [txn |-> t, ddl |-> ReplyDdl(t), spec |-> replyStatus[t] = "REPLY_SPEC"]
<1>1. /\ replying = None /\ replying' = p /\ toReplyQu # <<>> /\ toReplyQu' = Tail(toReplyQu)
      /\ UNCHANGED <<execStatus, replyStatus, replyHandler, pendingEntries, pendingHandlers,
                     toCommitReplyQu, replies>>
    BY <1>0 DEF PickReply, logVars, coordVars
<1>2. /\ t \in Txn /\ InQueue(t)
      /\ InQueue(u)' => InQueue(u)
      /\ InQueue(u) => InQueue(u)' \/ u = t
      /\ (\A i, j \in 1..Len(toReplyQu) : toReplyQu[i] = u /\ toReplyQu[j] = u => i = j)
         => /\ \A i, j \in 1..Len(toReplyQu') : toReplyQu'[i] = u /\ toReplyQu'[j] = u => i = j
            /\ u = t => ~InQueue(u)'
    BY <1>0, <1>1, DequeueReplies
<1>3. /\ ReplyDdl(t) = (IF replyStatus[t] = "REPLY_SPEC" THEN LocalDdl[t] ELSE AgreedDdl[t])
      /\ ReplyDdl(t) \in Nat
    BY <1>2, DeadlinesAgreed DEF ReplyDdl
<1>4. p \in Picked
    BY <1>2, <1>3 DEF Picked
<1>5. p # None
    BY <1>4, NoneAssumption
<1>6. ~Replying(u) /\ (Replying(u)' <=> u = t)
    BY <1>1, <1>5 DEF Replying
<1>7. ReplyInv(u)
    OBVIOUS
<1>8. CASE u = t
    <2>1. execStatus[t] # "EXEC_INIT"
        BY <1>2, <1>7, <1>8 DEF ReplyInv, QueueInv
    <2>2. execStatus[t] \in RL!ExecStatus
        BY <1>2 DEF TypeOK, RL!TypeOK
    <2>3. EntryInv(t)' /\ RepliesInv(t)'
        BY <1>1, <1>7, <1>8, RepliesKept DEF ReplyInv, EntryInv, RightSpec
    <2>4. QueueInv(t)'
        BY <1>1, <1>2, <1>7, <1>8, <2>1 DEF ReplyInv, QueueInv
    <2>5. PickedInv(t)'
        <3>1. replying'.spec <=> execStatus[t] \in {"EXEC_SPEC", "EXEC_ROLLBACK", "EXEC_COMMITING"}
            BY <1>1, <1>7, <1>8 DEF ReplyInv, EntryInv
        <3>2. replying'.spec => RightSpec(t)' /\ replying'.ddl = LocalDdl[t] /\ execStatus'[t] # "EXEC_DIRECT"
            <4>1. replying'.spec => RightSpec(t)
                BY <3>1, <1>7, <1>8 DEF ReplyInv, EntryInv, RightSpec
            <4>2. RightSpec(t)' <=> RightSpec(t)
                BY <1>1 DEF RightSpec
            <4> QED BY <1>1, <1>3, <3>1, <4>1, <4>2
        <3>3. ~replying'.spec => execStatus'[t] = "EXEC_DIRECT" /\ replying'.ddl = AgreedDdl[t]
            <4>1. ~replying'.spec => execStatus'[t] = "EXEC_DIRECT"
                BY <1>1, <2>1, <2>2, <3>1 DEF RL!ExecStatus
            <4>2. ~replying'.spec => replying'.ddl = AgreedDdl[t]
                BY <1>1, <1>3
            <4> QED BY <4>1, <4>2
        <3> QED BY <3>2, <3>3 DEF PickedInv
    <2>6. PendingInv(t)' /\ AskedInv(t)'
        BY <1>1, <1>7, <1>8 DEF ReplyInv, PendingInv, AskedInv
    <2>7. SecondInv(t)'
        <3>1. SecondReplyToCome(t)'
            BY <1>6, <1>8 DEF SecondReplyToCome, Replying
        <3> QED BY <3>1 DEF SecondInv
    <2> QED BY <1>8, <2>3, <2>4, <2>5, <2>6, <2>7 DEF ReplyInv
<1>9. CASE u # t
    <2>1. SecondReplyToCome(u) => SecondReplyToCome(u)'
        BY <1>1, <1>2, <1>6, <1>9 DEF SecondReplyToCome, InQueue, Replying
    <2> QED BY <1>1, <1>2, <1>6, <1>7, <1>9, <2>1, ReplyInvKept
<1> QED BY <1>8, <1>9

LEMMA SendFirstReplies ==
    ASSUME TypeOK, Grows, \A t \in Txn : ReplyInv(t), SendFirst, NEW u \in Txn
    PROVE  ReplyInv(u)'
<1>0. PICK t \in Txn : t = replying.txn
    BY QueueTypes DEF SendFirst
<1>1. /\ t \in replyHandler /\ Replying(t) /\ replyHandler' = replyHandler \ {t}
      /\ Answer(t, replying.ddl, replying.spec)
      /\ replying' = None
      /\ UNCHANGED <<execStatus, replyStatus, toReplyQu, pendingEntries, pendingHandlers,
                     toCommitReplyQu>>
    BY <1>0 DEF SendFirst, Replying, logVars, entryVars
<1>2. replying.ddl \in Nat /\ replying.spec \in BOOLEAN
    BY DEF SendFirst, TypeOK, Picked
<1>3. /\ \A o \in Txn \ {t} : replies'[o] = replies[o]
      /\ replies'[t] # None
      /\ replies'[t].ddl = replying.ddl /\ replies'[t].spec = replying.spec
      /\ replies'[t].specLogId = specLogId[t]
      /\ replies'[t].logId > 0 => /\ replies'[t].logId <= Len(log[Leader])
                                  /\ log[Leader][replies'[t].logId] = t
    BY <1>1, <1>2, Answers
<1>4. ReplyInv(u) /\ ReplyInv(t)
    OBVIOUS
<1>5. ~Replying(u)' /\ (InQueue(u)' <=> InQueue(u)) /\ (RightSpec(u)' <=> RightSpec(u))
      /\ (Replying(u) => u = t)
    BY <1>0, <1>1 DEF Replying, InQueue, RightSpec
<1>6. CASE u = t
    <2>1. EntryInv(t)' /\ PickedInv(t)' /\ PendingInv(t)'
        BY <1>1, <1>4, <1>5, <1>6 DEF ReplyInv, EntryInv, PickedInv, PendingInv
    <2>2. QueueInv(t)'
        BY <1>1, <1>4, <1>5, <1>6 DEF ReplyInv, QueueInv
    <2>3. RepliesInv(t)'
        <3>1. UNCHANGED <<log, specLogId>> /\ t \notin replyHandler'
            BY <1>1 DEF SendFirst, logVars
        <3>2. /\ replying.spec => RightSpec(t)' /\ replying.ddl = LocalDdl[t]
              /\ ~replying.spec => execStatus'[t] = "EXEC_DIRECT" /\ replying.ddl = AgreedDdl[t]
            BY <1>1, <1>4, <1>5, <1>6 DEF ReplyInv, PickedInv
        <3> QED BY <1>3, <3>1, <3>2 DEF RepliesInv
    <2>4. SecondInv(t)'
        <3>1. CASE replying.spec
            <4>1. SecondReplyToCome(t)'
                BY <1>1, <1>4, <3>1 DEF ReplyInv, PickedInv, SecondReplyToCome, InQueue
            <4> QED BY <4>1 DEF SecondInv
        <3>2. CASE ~replying.spec
            <4>1. replies'[t].ddl = AgreedDdl[t]
                BY <1>1, <1>3, <1>4, <3>2 DEF ReplyInv, PickedInv
            <4> QED BY <1>3, <4>1 DEF SecondInv
        <3> QED BY <3>1, <3>2
    <2>5. AskedInv(t)'
        BY <1>3 DEF AskedInv
    <2> QED BY <1>6, <2>1, <2>2, <2>3, <2>4, <2>5 DEF ReplyInv
<1>7. CASE u # t
    <2>1. SecondReplyToCome(u) => SecondReplyToCome(u)'
        BY <1>0, <1>1, <1>7 DEF SecondReplyToCome
    <2> QED BY <1>1, <1>3, <1>4, <1>5, <1>7, <2>1, ReplyInvKept
<1> QED BY <1>6, <1>7

LEMMA SendSecondReplies ==
    ASSUME TypeOK, Grows, \A t \in Txn : ReplyInv(t), SendSecond, NEW u \in Txn
    PROVE  ReplyInv(u)'
<1>0. PICK t \in Txn : t = replying.txn
    BY QueueTypes DEF SendSecond
<1>1. /\ t \notin replyHandler /\ Replying(t) /\ replying' = None
      /\ UNCHANGED <<execStatus, specLogId, log, replyStatus, toReplyQu, replyHandler,
                     pendingHandlers, toCommitReplyQu>>
    BY <1>0 DEF SendSecond, Replying, logVars, entryVars
<1>2. \/ /\ t \in pendingHandlers /\ Answer(t, AgreedDdl[t], FALSE) /\ UNCHANGED pendingEntries
      \/ t \notin pendingHandlers /\ pendingEntries' = pendingEntries \cup {t} /\ UNCHANGED replies
    BY <1>0 DEF SendSecond
<1>3. ReplyInv(u) /\ ReplyInv(t)
    OBVIOUS
<1>4. execStatus[t] = "EXEC_DIRECT"
    BY <1>1, <1>3 DEF ReplyInv, QueueInv
<1>5. ~Replying(u)' /\ (InQueue(u)' <=> InQueue(u)) /\ (RightSpec(u)' <=> RightSpec(u))
      /\ (Replying(u) => u = t)
    BY <1>0, <1>1 DEF Replying, InQueue, RightSpec
<1>6. CASE u = t
    <2>1. EntryInv(t)' /\ QueueInv(t)' /\ PickedInv(t)'
        BY <1>1, <1>3, <1>4, <1>5, <1>6 DEF ReplyInv, EntryInv, QueueInv, PickedInv
    <2>2. CASE t \in pendingHandlers /\ Answer(t, AgreedDdl[t], FALSE) /\ UNCHANGED pendingEntries
        <3>1. AgreedDdl[t] \in Nat
            BY DeadlinesAgreed
        <3>2. /\ replies'[t] # None /\ replies'[t].ddl = AgreedDdl[t] /\ replies'[t].spec = FALSE
              /\ replies'[t].specLogId = specLogId[t]
              /\ replies'[t].logId > 0 => /\ replies'[t].logId <= Len(log[Leader])
                                          /\ log[Leader][replies'[t].logId] = t
            BY <2>2, <3>1, Answers
        <3>3. RepliesInv(t)'
            BY <1>1, <1>4, <3>2 DEF RepliesInv
        <3>4. PendingInv(t)' /\ SecondInv(t)' /\ AskedInv(t)'
            BY <1>1, <1>3, <2>2, <3>2 DEF ReplyInv, PendingInv, SecondInv, AskedInv
        <3> QED BY <1>6, <2>1, <3>3, <3>4 DEF ReplyInv
    <2>3. CASE t \notin pendingHandlers /\ pendingEntries' = pendingEntries \cup {t} /\ UNCHANGED replies
        <3>1. RepliesInv(t)'
            BY <1>1, <1>3, <1>5, <1>6, <2>3, RepliesKept DEF ReplyInv
        <3>2. PendingInv(t)' /\ SecondInv(t)' /\ AskedInv(t)'
            BY <1>1, <1>3, <1>4, <2>3 DEF ReplyInv, PendingInv, SecondInv, AskedInv
        <3> QED BY <1>6, <2>1, <3>1, <3>2 DEF ReplyInv
    <2> QED BY <1>2, <2>2, <2>3
<1>7. CASE u # t
    <2>1. SecondReplyToCome(u) => SecondReplyToCome(u)'
        BY <1>0, <1>1, <1>7 DEF SecondReplyToCome
    <2>2. replies'[u] = replies[u] /\ (u \in pendingEntries' <=> u \in pendingEntries)
        <3>1. ASSUME Answer(t, AgreedDdl[t], FALSE)
              PROVE  replies'[u] = replies[u]
            BY <1>7, <3>1 DEF Answer, TypeOK
        <3> QED BY <1>2, <1>7, <3>1
    <2> QED BY <1>1, <1>3, <1>5, <1>7, <2>1, <2>2, ReplyInvKept
<1> QED BY <1>6, <1>7

LEMMA CommitReplies ==
    ASSUME TypeOK, Grows, \A t \in Txn : ReplyInv(t), NEW t \in Txn, CommitReply(t), NEW u \in Txn
    PROVE  ReplyInv(u)'
<1>1. /\ t \in toCommitReplyQu /\ toCommitReplyQu' = toCommitReplyQu \ {t}
      /\ UNCHANGED <<execStatus, specLogId, log, replyStatus, toReplyQu, replying, replyHandler>>
    BY DEF CommitReply, logVars, entryVars
<1>2. \/ /\ t \in pendingEntries /\ Answer(t, AgreedDdl[t], FALSE)
         /\ pendingEntries' = pendingEntries \ {t} /\ UNCHANGED pendingHandlers
      \/ /\ t \notin pendingEntries /\ pendingHandlers' = pendingHandlers \cup {t}
         /\ UNCHANGED <<pendingEntries, replies>>
    BY DEF CommitReply
<1>3. ReplyInv(u) /\ ReplyInv(t)
    OBVIOUS
<1>4. /\ Replying(u)' <=> Replying(u)
      /\ InQueue(u)' <=> InQueue(u)
      /\ RightSpec(u)' <=> RightSpec(u)
      /\ SecondReplyToCome(u)' <=> SecondReplyToCome(u)
    BY <1>1 DEF Replying, InQueue, RightSpec, SecondReplyToCome
<1>5. CASE u = t
    <2>1. EntryInv(t)' /\ QueueInv(t)' /\ PickedInv(t)'
        BY <1>1, <1>3, <1>4, <1>5 DEF ReplyInv, EntryInv, QueueInv, PickedInv
    <2>2. CASE t \in pendingEntries /\ Answer(t, AgreedDdl[t], FALSE)
               /\ pendingEntries' = pendingEntries \ {t} /\ UNCHANGED pendingHandlers
        <3>1. execStatus[t] = "EXEC_DIRECT" /\ t \notin replyHandler
            BY <1>3, <2>2 DEF ReplyInv, PendingInv
        <3>2. /\ replies'[t] # None /\ replies'[t].ddl = AgreedDdl[t] /\ replies'[t].spec = FALSE
              /\ replies'[t].specLogId = specLogId[t]
              /\ replies'[t].logId > 0 => /\ replies'[t].logId <= Len(log[Leader])
                                          /\ log[Leader][replies'[t].logId] = t
            BY <2>2, DeadlinesAgreed, Answers
        <3>3. RepliesInv(t)'
            BY <1>1, <3>1, <3>2 DEF RepliesInv
        <3>4. PendingInv(t)' /\ SecondInv(t)' /\ AskedInv(t)'
            BY <1>1, <1>3, <2>2, <3>2 DEF ReplyInv, PendingInv, SecondInv, AskedInv
        <3> QED BY <1>5, <2>1, <3>3, <3>4 DEF ReplyInv
    <2>3. CASE t \notin pendingEntries /\ pendingHandlers' = pendingHandlers \cup {t}
               /\ UNCHANGED <<pendingEntries, replies>>
        <3>1. RepliesInv(t)'
            BY <1>1, <1>3, <1>4, <1>5, <2>3, RepliesKept DEF ReplyInv
        <3>2. PendingInv(t)' /\ SecondInv(t)' /\ AskedInv(t)'
            BY <1>1, <1>3, <1>4, <1>5, <2>3 DEF ReplyInv, PendingInv, SecondInv, AskedInv
        <3> QED BY <1>5, <2>1, <3>1, <3>2 DEF ReplyInv
    <2> QED BY <1>2, <2>2, <2>3
<1>6. CASE u # t
    <2>1. /\ replies'[u] = replies[u]
          /\ u \in pendingEntries' <=> u \in pendingEntries
          /\ u \in pendingHandlers' <=> u \in pendingHandlers
          /\ u \in toCommitReplyQu' <=> u \in toCommitReplyQu
        <3>1. ASSUME Answer(t, AgreedDdl[t], FALSE)
              PROVE  replies'[u] = replies[u]
            BY <1>6, <3>1 DEF Answer, TypeOK
        <3> QED BY <1>1, <1>2, <1>6, <3>1
    <2> QED BY <1>1, <1>3, <1>4, <2>1, ReplyInvKept
<1> QED BY <1>5, <1>6

LEMMA ReconcileReplies ==
    ASSUME TypeOK, Grows, \A t \in Txn : ReplyInv(t), NEW t \in Txn, Reconcile(t), NEW u \in Txn
    PROVE  ReplyInv(u)'
<1>1. /\ replies[t] # None /\ replies[t].ddl < AgreedDdl[t]
      /\ replies'[t] = None /\ (u # t => replies'[u] = replies[u])
      /\ toCommitReplyQu' = toCommitReplyQu \cup {t}
      /\ UNCHANGED <<execStatus, replyStatus, toReplyQu, replying, replyHandler,
                     pendingEntries, pendingHandlers>>
    BY DEF Reconcile, TypeOK, logVars, entryVars, replyVars
<1>2. ReplyInv(u) /\ ReplyInv(t)
    OBVIOUS
<1>3. /\ Replying(u)' <=> Replying(u)
      /\ InQueue(u)' <=> InQueue(u)
      /\ RightSpec(u)' <=> RightSpec(u)
      /\ SecondReplyToCome(u)' <=> SecondReplyToCome(u)
    BY <1>1 DEF Replying, InQueue, RightSpec, SecondReplyToCome
<1>4. CASE u = t
    <2>1. EntryInv(t)' /\ QueueInv(t)' /\ PickedInv(t)' /\ PendingInv(t)'
        BY <1>1, <1>2, <1>3, <1>4 DEF ReplyInv, EntryInv, QueueInv, PickedInv, PendingInv
    <2>2. RepliesInv(t)' /\ AskedInv(t)'
        BY <1>1 DEF RepliesInv, AskedInv
    <2>3. SecondInv(t)'
        <3>1. replies[t].ddl # AgreedDdl[t]
            <4>1. replies[t] \in Reply
                BY <1>1 DEF TypeOK
            <4>2. replies[t].ddl \in Nat /\ AgreedDdl[t] \in Nat
                BY <4>1, DeadlinesAgreed DEF Reply
            <4> QED BY <1>1, <4>2
        <3> QED BY <1>1, <1>2, <1>3, <1>4, <3>1 DEF ReplyInv, SecondInv
    <2> QED BY <1>4, <2>1, <2>2, <2>3 DEF ReplyInv
<1>5. CASE u # t
    BY <1>1, <1>2, <1>3, <1>5, ReplyInvKept
<1> QED BY <1>4, <1>5

-----------------------------------------------------------------------------
(* Types.                                                                  *)

LEMMA LeaderTypes ==
    ASSUME TypeOK, LogOK', LeaderExecTd \/ FollowerSync \/ PickReply
    PROVE  TypeOK'
<1>1. RL!TypeOK'
    BY DEF LogOK
<1>2. CASE LeaderExecTd
    <2>1. UNCHANGED <<replyVars, coordVars, inquiryVars>>
        BY <1>2 DEF LeaderExecTd
    <2>2. replyStatus' \in [Txn -> ReplyStatus] /\ toReplyQu' \in Seq(Txn)
        <3>1. "REPLY_SPEC" \in ReplyStatus /\ "REPLY_AGREED" \in ReplyStatus
            BY DEF ReplyStatus
        <3>2. PICK t \in Txn : \/ QueueReply(t, "REPLY_SPEC") \/ QueueReply(t, "REPLY_AGREED")
                               \/ UNCHANGED entryVars
            BY <1>2 DEF LeaderExecTd
        <3>3. CASE QueueReply(t, "REPLY_SPEC") \/ QueueReply(t, "REPLY_AGREED")
            BY <3>1, <3>3, QueueReplies
        <3>4. CASE UNCHANGED entryVars
            BY <3>4 DEF entryVars, TypeOK
        <3> QED BY <3>2, <3>3, <3>4
    <2> QED BY <1>1, <2>1, <2>2 DEF TypeOK, replyVars, coordVars, inquiryVars
<1>3. CASE FollowerSync
    BY <1>1, <1>3 DEF FollowerSync, TypeOK, entryVars, replyVars, coordVars, inquiryVars
<1>4. CASE PickReply
    <2>1. PICK t : t = Head(toReplyQu)
        OBVIOUS
    <2>2. t \in Txn /\ toReplyQu' \in Seq(Txn)
        BY <1>4, <2>1, DequeueReplies DEF PickReply
    <2>3. ReplyDdl(t) \in Nat
        BY <2>2, DeadlinesAgreed DEF ReplyDdl
    <2>4. replying' \in Picked
        BY <1>4, <2>1, <2>2, <2>3 DEF PickReply, Picked
    <2>5. UNCHANGED <<replyStatus, replyHandler, pendingEntries, pendingHandlers, coordVars, inquiryVars>>
        BY <1>4 DEF PickReply
    <2> QED BY <1>1, <2>2, <2>4, <2>5 DEF TypeOK, coordVars, inquiryVars
<1> QED BY <1>2, <1>3, <1>4

LEMMA SendTypes ==
    ASSUME TypeOK, SendFirst \/ SendSecond \/ (\E t \in Txn : CommitReply(t) \/ Reconcile(t))
    PROVE  TypeOK'
<1>1. replies' \in [Txn -> Reply \cup {None}]
    <2>1. CASE SendFirst
        <3>1. replying.txn \in Txn /\ replying.ddl \in Nat /\ replying.spec \in BOOLEAN
            BY <2>1 DEF SendFirst, TypeOK, Picked
        <3> QED BY <2>1, <3>1, Answers DEF SendFirst
    <2>2. CASE SendSecond
        <3>1. replying.txn \in Txn
            BY <2>2 DEF SendSecond, TypeOK, Picked
        <3>2. AgreedDdl[replying.txn] \in Nat /\ FALSE \in BOOLEAN
            BY <3>1, DeadlinesAgreed
        <3>3. Answer(replying.txn, AgreedDdl[replying.txn], FALSE) \/ UNCHANGED replies
            BY <2>2 DEF SendSecond
        <3>4. CASE Answer(replying.txn, AgreedDdl[replying.txn], FALSE)
            BY <3>1, <3>2, <3>4, Answers
        <3> QED BY <3>3, <3>4 DEF TypeOK
    <2>3. ASSUME NEW t \in Txn, CommitReply(t)
          PROVE  replies' \in [Txn -> Reply \cup {None}]
        <3>1. AgreedDdl[t] \in Nat /\ FALSE \in BOOLEAN
            BY DeadlinesAgreed
        <3>2. Answer(t, AgreedDdl[t], FALSE) \/ UNCHANGED replies
            BY <2>3 DEF CommitReply
        <3>3. CASE Answer(t, AgreedDdl[t], FALSE)
            BY <3>1, <3>3, Answers
        <3> QED BY <3>2, <3>3 DEF TypeOK
    <2>4. ASSUME NEW t \in Txn, Reconcile(t)
          PROVE  replies' \in [Txn -> Reply \cup {None}]
        BY <2>4 DEF Reconcile, TypeOK
    <2> QED BY <2>1, <2>2, <2>3, <2>4
<1>2. /\ replyHandler' \subseteq Txn /\ toCommitReplyQu' \subseteq Txn
      /\ pendingEntries' \subseteq Txn /\ pendingHandlers' \subseteq Txn
      /\ replying' \in Picked \cup {None}
    <2>1. CASE SendFirst
        BY <2>1 DEF SendFirst, TypeOK
    <2>2. CASE SendSecond
        <3>1. replying.txn \in Txn
            BY <2>2 DEF SendSecond, TypeOK, Picked
        <3> QED BY <2>2, <3>1 DEF SendSecond, TypeOK
    <2>3. CASE \E t \in Txn : CommitReply(t)
        BY <2>3 DEF CommitReply, TypeOK
    <2>4. CASE \E t \in Txn : Reconcile(t)
        BY <2>4 DEF Reconcile, TypeOK, replyVars
    <2> QED BY <2>1, <2>2, <2>3, <2>4
<1>3. UNCHANGED <<logVars, replyStatus, toReplyQu, committed, inquiryVars>>
    BY DEF SendFirst, SendSecond, CommitReply, Reconcile, entryVars
<1>4. RL!TypeOK'
    BY <1>3 DEF TypeOK, RL!TypeOK, logVars
<1> QED BY <1>1, <1>2, <1>3, <1>4 DEF TypeOK, inquiryVars

(* The counters an answer is made of. *)
LEMMA CounterTypes ==
    ASSUME LogOK, NEW r \in Follower
    PROVE  /\ Counters(r)[1] = Len(log[r]) /\ Counters(r)[2] = nextSpecLogId[r] - 1
           /\ Counters(r)[1] \in Nat /\ Counters(r)[2] \in Nat /\ nextSpecLogId[r] \in Nat
<1>1. r \in Replica
    OBVIOUS
<1>2. Len(log[r]) \in Nat /\ nextSpecLogId[r] \in Nat /\ 1 <= nextSpecLogId[r]
    BY <1>1, LogTypes DEF LogOK, SpecInv
<1> QED BY <1>2 DEF Counters

(* What an inquiry reads next. *)
LEMMA InquiryReads ==
    ASSUME TypeOK, LogOK, NEW r \in Follower, Inquire(r)
    PROVE  /\ inquiries' \in [Follower -> Seq(Nat)]
           /\ \A o \in Follower \ {r} : inquiries'[o] = inquiries[o]
           /\ Len(inquiries'[r]) = Len(inquiries[r]) + 1
           /\ \/ Len(inquiries[r]) = 0 /\ inquiries'[r][1] = Len(log[r])
              \/ /\ Len(inquiries[r]) = 1
                 /\ inquiries'[r][1] = inquiries[r][1]
                 /\ inquiries'[r][2] = nextSpecLogId[r] - 1
<1> DEFINE q == inquiries[r]
<1>1. q \in Seq(Nat)
    BY DEF TypeOK
<1>2. PICK k : k = Len(q) /\ k \in Nat
    BY <1>1
<1>3. k = 0 \/ k = 1
    <2>1. Len(q) < 2
        BY Zenon DEF Inquire
    <2>2. k < 2
        BY <1>2, <2>1
    <2> HIDE DEF q
    <2> QED BY <1>2, <2>2
<1>4. PICK n : n = Counters(r)[k + 1]
    OBVIOUS
<1>5. n \in Nat /\ (k = 0 => n = Len(log[r])) /\ (k = 1 => n = nextSpecLogId[r] - 1)
    <2>1. CASE k = 0
        <3>1. n = Counters(r)[1]
            BY <1>4, <2>1
        <3> QED BY <2>1, <3>1, CounterTypes
    <2>2. CASE k = 1
        <3>1. n = Counters(r)[2]
            BY <1>4, <2>2
        <3> QED BY <2>2, <3>1, CounterTypes
    <2> QED BY <1>3, <2>1, <2>2
<1>6. inquiries' = [inquiries EXCEPT ![r] = Append(q, n)]
    BY <1>2, <1>4 DEF Inquire
<1>7. /\ Append(q, n) \in Seq(Nat) /\ Len(Append(q, n)) = k + 1
      /\ \A i \in 1..k : Append(q, n)[i] = q[i]
      /\ Append(q, n)[k + 1] = n
    BY <1>1, <1>2, <1>5
<1>8. /\ inquiries' \in [Follower -> Seq(Nat)]
      /\ \A o \in Follower \ {r} : inquiries'[o] = inquiries[o]
      /\ inquiries'[r] = Append(q, n)
    BY <1>6, <1>7 DEF TypeOK
<1>9. CASE k = 0
    BY <1>2, <1>5, <1>7, <1>8, <1>9
<1>10. CASE k = 1
    <2>1. inquiries'[r][1] = q[1] /\ inquiries'[r][2] = n
        BY <1>7, <1>8, <1>10
    <2> QED BY <1>2, <1>5, <1>7, <1>8, <1>10, <2>1
<1> QED BY <1>3, <1>9, <1>10

LEMMA CoordinatorTypes ==
    ASSUME TypeOK, LogOK, (\E t \in Txn : SlowCommit(t))
                            \/ (\E r \in Follower : Inquire(r) \/ UpdateSyncStatus(r))
    PROVE  TypeOK'
<1>1. UNCHANGED <<logVars, entryVars, replyVars, replies, toCommitReplyQu>>
    BY DEF SlowCommit, Inquire, UpdateSyncStatus, coordVars
<1>2. RL!TypeOK'
    BY <1>1 DEF TypeOK, RL!TypeOK, logVars
<1>3. CASE \E t \in Txn : SlowCommit(t)
    BY <1>1, <1>2, <1>3 DEF SlowCommit, TypeOK, entryVars, replyVars, inquiryVars
<1>4. ASSUME NEW r \in Follower, Inquire(r)
      PROVE  TypeOK'
    <2>1. inquiries' \in [Follower -> Seq(Nat)]
        BY <1>4, InquiryReads
    <2> QED BY <1>1, <1>2, <1>4, <2>1 DEF Inquire, TypeOK, entryVars, replyVars, coordVars
<1>5. ASSUME NEW r \in Follower, UpdateSyncStatus(r)
      PROVE  TypeOK'
    <2>1. inquiries[r] \in Seq(Nat) /\ Len(inquiries[r]) = 2
        BY <1>5 DEF UpdateSyncStatus, TypeOK
    <2>2. inquiries[r][1] \in Nat /\ inquiries[r][2] \in Nat /\ <<>> \in Seq(Nat)
        BY <2>1
    <2>3. /\ inquiries' \in [Follower -> Seq(Nat)]
          /\ currentSynced' \in [Follower -> Nat] /\ currentSyncedSpec' \in [Follower -> Nat]
        BY <1>5, <2>2 DEF UpdateSyncStatus, TypeOK
    <2> QED BY <1>1, <1>2, <1>5, <2>3 DEF UpdateSyncStatus, TypeOK, entryVars, replyVars, coordVars
<1> QED BY <1>3, <1>4, <1>5

-----------------------------------------------------------------------------
(* The invariant of the replies.                                           *)

IInv == TypeOK /\ LogOK /\ \A t \in Txn : ReplyInv(t)

LEMMA InitInv == Init => IInv
<1> SUFFICES ASSUME Init PROVE IInv
    OBVIOUS
<1>1. LogOK
    BY LogInit DEF Init
<1>2. TypeOK
    <2>1. <<>> \in Seq(Txn) /\ <<>> \in Seq(Nat)
        OBVIOUS
    <2>2. currentSyncedSpec \in [Follower -> Nat]
        BY SyncedAssumption DEF Init
    <2> QED BY <1>1, <2>1, <2>2 DEF Init, TypeOK, LogOK, ReplyStatus
<1>3. ASSUME NEW t \in Txn
      PROVE  ReplyInv(t)
    <2>1. execStatus[t] = "EXEC_INIT" /\ replyStatus[t] = "REPLY_NONE" /\ t \in replyHandler
        BY DEF Init, RL!Init
    <2>2. ~InQueue(t) /\ ~Replying(t)
        BY DEF Init, InQueue, Replying
    <2>3. replies[t] = None /\ t \notin pendingEntries /\ Len(toReplyQu) = 0
        BY DEF Init
    <2>4. EntryInv(t) /\ QueueInv(t) /\ PickedInv(t)
        BY <2>1, <2>2, <2>3 DEF EntryInv, QueueInv, PickedInv
    <2>5. RepliesInv(t) /\ PendingInv(t) /\ SecondInv(t) /\ AskedInv(t)
        BY <2>1, <2>3 DEF RepliesInv, PendingInv, SecondInv, AskedInv
    <2> QED BY <2>4, <2>5 DEF ReplyInv
<1> QED BY <1>1, <1>2, <1>3 DEF IInv

LEMMA NextInv == ASSUME IInv, Next PROVE IInv' /\ Grows
<1>1. LogOK' /\ Grows
    BY LogSteps DEF IInv
<1>2. TypeOK'
    BY <1>1, LeaderTypes, SendTypes, CoordinatorTypes DEF IInv, Next, LeaderReplyTd
<1>3. ASSUME NEW u \in Txn
      PROVE  ReplyInv(u)'
    <2>1. CASE LeaderExecTd
        BY <1>1, <2>1, ExecReplies DEF IInv
    <2>2. CASE PickReply
        BY <1>1, <2>2, PickReplies DEF IInv
    <2>3. CASE SendFirst
        BY <1>1, <2>3, SendFirstReplies DEF IInv
    <2>4. CASE SendSecond
        BY <1>1, <2>4, SendSecondReplies DEF IInv
    <2>5. CASE \E t \in Txn : CommitReply(t)
        BY <1>1, <2>5, CommitReplies DEF IInv
    <2>6. CASE \E t \in Txn : Reconcile(t)
        BY <1>1, <2>6, ReconcileReplies DEF IInv
    <2>7. CASE \/ FollowerSync \/ \E t \in Txn : SlowCommit(t)
               \/ \E r \in Follower : Inquire(r) \/ UpdateSyncStatus(r)
        <3>1. UNCHANGED <<execStatus, entryVars, replyVars, replies, toCommitReplyQu>>
            BY <2>7 DEF FollowerSync, SlowCommit, Inquire, UpdateSyncStatus, coordVars, logVars,
                        RL!Follow, RL!CountSpec
        <3>2. UNCHANGED <<execStatus, replyStatus, toReplyQu, replying, replyHandler,
                          pendingEntries, pendingHandlers, replies, toCommitReplyQu>>
            BY <3>1 DEF entryVars, replyVars
        <3>3. /\ Replying(u)' <=> Replying(u)
              /\ InQueue(u)' <=> InQueue(u)
              /\ SecondReplyToCome(u)' <=> SecondReplyToCome(u)
            BY <3>2 DEF Replying, InQueue, SecondReplyToCome
        <3>4. TypeOK /\ ReplyInv(u)
            BY DEF IInv
        <3> QED BY <1>1, <3>2, <3>3, <3>4, ReplyInvKept
    <2> QED BY <2>1, <2>2, <2>3, <2>4, <2>5, <2>6, <2>7 DEF Next, LeaderReplyTd
<1> QED BY <1>1, <1>2, <1>3 DEF IInv

LEMMA StutterInv == ASSUME IInv, UNCHANGED vars PROVE IInv'
<1> USE DEF vars, logVars, entryVars, replyVars, coordVars, inquiryVars
<1>1. LogOK' /\ Grows
    BY LogUnchanged DEF IInv
<1>2. TypeOK'
    BY <1>1 DEF IInv, TypeOK, LogOK
<1>3. ASSUME NEW u \in Txn
      PROVE  ReplyInv(u)'
    <2>1. /\ Replying(u)' <=> Replying(u)
          /\ InQueue(u)' <=> InQueue(u)
          /\ SecondReplyToCome(u)' <=> SecondReplyToCome(u)
        BY DEF Replying, InQueue, SecondReplyToCome
    <2>2. TypeOK /\ ReplyInv(u)
        BY DEF IInv
    <2> QED BY <1>1, <2>1, <2>2, ReplyInvKept
<1> QED BY <1>1, <1>2, <1>3 DEF IInv

(* The leader's replies tell the deadline and the result of an execution   *)
(* that took place, in whatever order LeaderExecTd and LeaderReplyTd take  *)
(* their steps.                                                            *)
THEOREM RepliesInvariant == Spec => []IInv
<1>1. IInv /\ [Next]_vars => IInv'
    BY NextInv, StutterInv
<1> QED BY <1>1, InitInv, PTL DEF Spec

(* Every variable of the slow path always has a value of its type. *)
THEOREM SlowPathTypeCorrect == Spec => []TypeOK
<1>1. IInv => TypeOK
    BY DEF IInv
<1> QED BY <1>1, RepliesInvariant, PTL

(* A reply that the coordinator drops is followed by another: its request  *)
(* and the second reply never wait for each other.                         *)
THEOREM SecondReplyNotLost == Spec => []NoReplyLost
<1>1. IInv => NoReplyLost
    <2> SUFFICES ASSUME IInv, NEW t \in Txn \ replyHandler, replies[t] = None
                 PROVE  \/ t \in toCommitReplyQu /\ t \in pendingEntries
                        \/ t \in toCommitReplyQu \cup pendingHandlers /\ SecondReplyToCome(t)
        BY DEF NoReplyLost
    <2>1. ReplyInv(t)
        BY DEF IInv
    <2> QED BY <2>1 DEF ReplyInv, PendingInv, SecondInv, AskedInv
<1> QED BY <1>1, RepliesInvariant, PTL

-----------------------------------------------------------------------------
(* The sync points and what is committed with them.                        *)

(* What is known of a follower, or on its way, its log has; before the     *)
(* first answer, the speculative counter says nothing.                     *)
InquiryInv ==
    \A r \in Follower :
        /\ currentSynced[r] <= Len(log[r])
        /\ currentSynced[r] > 0 => currentSyncedSpec[r] < nextSpecLogId[r]
        /\ Len(inquiries[r]) <= 2
        /\ Len(inquiries[r]) >= 1 => inquiries[r][1] <= Len(log[r])
        /\ Len(inquiries[r]) >= 2 => inquiries[r][2] < nextSpecLogId[r]

OnMajority(t) == 2 * Cardinality({r \in Replica : InLog(r, t)}) > Cardinality(Replica)

Confirmed(t) == execStatus[t] = (IF replies[t].spec THEN "EXEC_COMMITING" ELSE "EXEC_DIRECT")

LEMMA SyncTypes ==
    ASSUME IInv, NEW r \in Follower
    PROVE  /\ Len(log[r]) \in Nat /\ nextSpecLogId[r] \in Nat
           /\ currentSynced[r] \in Nat /\ currentSyncedSpec[r] \in Nat
           /\ inquiries[r] \in Seq(Nat) /\ Len(inquiries[r]) \in Nat
           /\ \A i \in 1..Len(inquiries[r]) : inquiries[r][i] \in Nat
<1>1. r \in Replica
    OBVIOUS
<1> QED BY <1>1, LogTypes DEF IInv, TypeOK

LEMMA InquiriesKept ==
    ASSUME IInv, IInv', Grows, InquiryInv, NEW r \in Follower,
           currentSynced'[r] = currentSynced[r], currentSyncedSpec'[r] = currentSyncedSpec[r],
           inquiries'[r] = inquiries[r]
    PROVE  /\ currentSynced'[r] <= Len(log'[r])
           /\ currentSynced'[r] > 0 => currentSyncedSpec'[r] < nextSpecLogId'[r]
           /\ Len(inquiries'[r]) <= 2
           /\ Len(inquiries'[r]) >= 1 => inquiries'[r][1] <= Len(log'[r])
           /\ Len(inquiries'[r]) >= 2 => inquiries'[r][2] < nextSpecLogId'[r]
<1>1. /\ Len(log[r]) \in Nat /\ nextSpecLogId[r] \in Nat
      /\ currentSynced[r] \in Nat /\ currentSyncedSpec[r] \in Nat
      /\ Len(inquiries[r]) \in Nat
      /\ \A i \in 1..Len(inquiries[r]) : inquiries[r][i] \in Nat
    BY SyncTypes
<1>2. Len(log'[r]) \in Nat /\ nextSpecLogId'[r] \in Nat
    <2>1. log' \in [Replica -> Seq(Txn)] /\ nextSpecLogId' \in [Replica -> Nat] /\ r \in Replica
        BY DEF IInv, LogOK, RL!TypeOK
    <2> QED BY <2>1
<1>3. Len(log[r]) <= Len(log'[r]) /\ nextSpecLogId[r] <= nextSpecLogId'[r]
    BY DEF Grows
<1>4. /\ currentSynced[r] <= Len(log[r])
      /\ currentSynced[r] > 0 => currentSyncedSpec[r] < nextSpecLogId[r]
      /\ Len(inquiries[r]) <= 2
      /\ Len(inquiries[r]) >= 1 => inquiries[r][1] <= Len(log[r])
      /\ Len(inquiries[r]) >= 2 => inquiries[r][2] < nextSpecLogId[r]
    BY DEF InquiryInv
<1>5. /\ Len(inquiries[r]) >= 1 => inquiries[r][1] \in Nat
      /\ Len(inquiries[r]) >= 2 => inquiries[r][2] \in Nat
    BY <1>1
<1>6. /\ currentSynced[r] <= Len(log'[r])
      /\ currentSynced[r] > 0 => currentSyncedSpec[r] < nextSpecLogId'[r]
    BY <1>1, <1>2, <1>3, <1>4
<1>7. Len(inquiries[r]) >= 1 => inquiries[r][1] <= Len(log'[r])
    BY <1>1, <1>2, <1>3, <1>4, <1>5
<1>8. Len(inquiries[r]) >= 2 => inquiries[r][2] < nextSpecLogId'[r]
    BY <1>1, <1>2, <1>3, <1>4, <1>5
<1> QED BY <1>4, <1>6, <1>7, <1>8

LEMMA InquirySteps ==
    ASSUME IInv, IInv', Grows, InquiryInv, Next
    PROVE  InquiryInv'
<1>1. CASE UNCHANGED inquiryVars
    BY <1>1, InquiriesKept DEF InquiryInv, inquiryVars
<1>2. ASSUME NEW r \in Follower, Inquire(r)
      PROVE  InquiryInv'
    <2>1. /\ \A o \in Follower \ {r} : inquiries'[o] = inquiries[o]
          /\ Len(inquiries'[r]) = Len(inquiries[r]) + 1
          /\ \/ Len(inquiries[r]) = 0 /\ inquiries'[r][1] = Len(log[r])
             \/ /\ Len(inquiries[r]) = 1
                /\ inquiries'[r][1] = inquiries[r][1]
                /\ inquiries'[r][2] = nextSpecLogId[r] - 1
        BY <1>2, InquiryReads DEF IInv
    <2>2. UNCHANGED <<log, nextSpecLogId, currentSynced, currentSyncedSpec>>
        BY <1>2 DEF Inquire, logVars
    <2>3. Len(log[r]) \in Nat /\ nextSpecLogId[r] \in Nat
        BY SyncTypes
    <2>4. /\ currentSynced[r] <= Len(log[r])
          /\ currentSynced[r] > 0 => currentSyncedSpec[r] < nextSpecLogId[r]
          /\ Len(inquiries[r]) >= 1 => inquiries[r][1] <= Len(log[r])
        BY DEF InquiryInv
    <2>5. /\ Len(inquiries'[r]) <= 2
          /\ inquiries'[r][1] <= Len(log[r])
          /\ Len(inquiries'[r]) >= 2 => inquiries'[r][2] < nextSpecLogId[r]
        <3>1. CASE Len(inquiries[r]) = 0
            BY <2>1, <2>3, <3>1
        <3>2. CASE Len(inquiries[r]) = 1
            BY <2>1, <2>3, <2>4, <3>2
        <3> QED BY <2>1, <3>1, <3>2
    <2>6. ASSUME NEW o \in Follower
          PROVE  /\ currentSynced'[o] <= Len(log'[o])
                 /\ currentSynced'[o] > 0 => currentSyncedSpec'[o] < nextSpecLogId'[o]
                 /\ Len(inquiries'[o]) <= 2
                 /\ Len(inquiries'[o]) >= 1 => inquiries'[o][1] <= Len(log'[o])
                 /\ Len(inquiries'[o]) >= 2 => inquiries'[o][2] < nextSpecLogId'[o]
        <3>1. CASE o = r
            BY <2>2, <2>4, <2>5, <3>1
        <3>2. CASE o # r
            BY <2>1, <2>2, <3>2, InquiriesKept
        <3> QED BY <3>1, <3>2
    <2> QED BY <2>6 DEF InquiryInv
<1>3. ASSUME NEW r \in Follower, UpdateSyncStatus(r)
      PROVE  InquiryInv'
    <2>1. /\ Len(inquiries[r]) = 2
          /\ inquiries'[r] = <<>> /\ currentSynced'[r] = inquiries[r][1]
          /\ currentSyncedSpec'[r] = inquiries[r][2]
          /\ \A o \in Follower \ {r} : /\ inquiries'[o] = inquiries[o]
                                       /\ currentSynced'[o] = currentSynced[o]
                                       /\ currentSyncedSpec'[o] = currentSyncedSpec[o]
        BY <1>3 DEF UpdateSyncStatus, IInv, TypeOK
    <2>2. UNCHANGED <<log, nextSpecLogId>>
        BY <1>3 DEF UpdateSyncStatus, logVars
    <2>3. inquiries[r][1] <= Len(log[r]) /\ inquiries[r][2] < nextSpecLogId[r]
        BY <2>1 DEF InquiryInv
    <2>4. ASSUME NEW o \in Follower
          PROVE  /\ currentSynced'[o] <= Len(log'[o])
                 /\ currentSynced'[o] > 0 => currentSyncedSpec'[o] < nextSpecLogId'[o]
                 /\ Len(inquiries'[o]) <= 2
                 /\ Len(inquiries'[o]) >= 1 => inquiries'[o][1] <= Len(log'[o])
                 /\ Len(inquiries'[o]) >= 2 => inquiries'[o][2] < nextSpecLogId'[o]
        <3>1. CASE o = r
            BY <2>1, <2>2, <2>3, <3>1
        <3>2. CASE o # r
            BY <2>1, <3>2, InquiriesKept
        <3> QED BY <3>1, <3>2
    <2> QED BY <2>4 DEF InquiryInv
<1>4. CASE ~UNCHANGED inquiryVars
    <2>1. \E r \in Follower : Inquire(r) \/ UpdateSyncStatus(r)
        BY <1>4 DEF Next, LeaderExecTd, FollowerSync, LeaderReplyTd, PickReply, SendFirst, SendSecond,
                    CommitReply, Reconcile, SlowCommit
    <2> QED BY <2>1, <1>2, <1>3
<1> QED BY <1>1, <1>4

(* A follower that is counted, and has answered, has the entry. *)
LEMMA ReplicatedHas ==
    ASSUME IInv, InquiryInv, NEW t \in Txn, replies[t] # None,
           NEW r \in Follower, Replicated(r, replies[t]), currentSynced[r] > 0
    PROVE  InLog(r, t)
<1> DEFINE reply == replies[t]
<1>1. /\ Len(log[r]) \in Nat /\ nextSpecLogId[r] \in Nat
      /\ currentSynced[r] \in Nat /\ currentSyncedSpec[r] \in Nat
      /\ currentSynced[r] <= Len(log[r]) /\ currentSyncedSpec[r] < nextSpecLogId[r]
    BY SyncTypes DEF InquiryInv
<1>2. reply \in Reply
    BY DEF IInv, TypeOK
<1>3. reply.logId \in Nat /\ reply.specLogId \in Nat
    BY <1>2 DEF Reply
<1>4. RepliesInv(t)
    BY DEF IInv, ReplyInv
<1>5. CASE reply.logId > 0 /\ currentSynced[r] >= reply.logId
    <2>1. reply.logId \in 1..Len(log[r]) /\ log[Leader][reply.logId] = t
        BY <1>1, <1>3, <1>4, <1>5 DEF RepliesInv
    <2>2. log[r][reply.logId] = t
        BY <2>1 DEF IInv, LogOK, LogInv
    <2>3. DOMAIN log[r] = 1..Len(log[r])
        BY LogTypes DEF IInv, LogOK
    <2> QED BY <2>1, <2>2, <2>3
<1>6. CASE reply.specLogId > 0 /\ currentSyncedSpec[r] >= reply.specLogId
    <2>1. specLogId[t] = reply.specLogId
        BY <1>4, <1>6 DEF RepliesInv
    <2>2. 0 < specLogId[t] /\ specLogId[t] < nextSpecLogId[r]
        BY <1>1, <1>3, <1>6, <2>1
    <2> QED BY <2>2 DEF IInv, LogOK, SpecInv
<1> QED BY <1>5, <1>6 DEF Replicated

LEMMA FollowersLogs ==
    ASSUME IInv, NEW t \in Txn, NEW r \in Follower, InLog(r, t)
    PROVE  InLog(Leader, t)
<1>1. PICK i \in DOMAIN log[r] : log[r][i] = t
    OBVIOUS
<1>2. /\ DOMAIN log[r] = 1..Len(log[r]) /\ DOMAIN log[Leader] = 1..Len(log[Leader])
      /\ Len(log[r]) \in Nat /\ Len(log[Leader]) \in Nat
    BY LogTypes, LeaderIsReplica DEF IInv, LogOK
<1>3. Len(log[r]) <= Len(log[Leader]) /\ log[Leader][i] = log[r][i]
    BY <1>1, <1>2 DEF IInv, LogOK, LogInv
<1>4. i \in DOMAIN log[Leader]
    BY <1>1, <1>2, <1>3
<1> QED BY <1>1, <1>3, <1>4

(* What is committed is on a majority, with the result of the reply. *)
LEMMA SlowCommits ==
    ASSUME IInv, InquiryInv, NEW t \in Txn, SlowCommit(t), Told(t)
    PROVE  OnMajority(t) /\ Confirmed(t)
<1> DEFINE F == {r \in Follower : Replicated(r, replies[t])}
           H == {r \in Replica : InLog(r, t)}
<1>1. /\ replies[t] # None /\ replies[t].ddl = AgreedDdl[t]
      /\ Cardinality(F) + 1 >= Cardinality(Replica) \div 2 + 1
    BY DEF SlowCommit
<1>2. \A r \in F : InLog(r, t)
    BY <1>1, ReplicatedHas DEF Told
<1>3. /\ IsFiniteSet(Replica) /\ F \subseteq Replica /\ H \subseteq Replica
      /\ Cardinality(Replica) \in Nat /\ Cardinality(Replica) >= 3
    BY QuorumAssumption, FS_CardinalityType
<1>4. IsFiniteSet(F) /\ IsFiniteSet(H) /\ Cardinality(F) \in Nat /\ Cardinality(H) \in Nat
    BY <1>3, FS_Subset, FS_CardinalityType
<1>5. F # {}
    <2>1. Cardinality(F) >= 1
        BY <1>1, <1>3, <1>4
    <2>2. Cardinality({}) = 0
        BY FS_EmptySet
    <2> QED BY <2>1, <2>2
<1>6. InLog(Leader, t)
    BY <1>2, <1>5, FollowersLogs
<1>7. OnMajority(t)
    <2>1. F \cup {Leader} \subseteq H /\ Leader \notin F
        BY <1>2, <1>6, LeaderIsReplica
    <2>2. Cardinality(F \cup {Leader}) = Cardinality(F) + 1 /\ IsFiniteSet(F \cup {Leader})
        BY <1>4, <2>1, FS_AddElement
    <2>3. Cardinality(F \cup {Leader}) <= Cardinality(H)
        BY <1>4, <2>1, FS_Subset
    <2>4. Cardinality(H) >= Cardinality(Replica) \div 2 + 1
        BY <1>1, <1>3, <1>4, <2>2, <2>3
    <2>5. 2 * Cardinality(H) > Cardinality(Replica)
        BY <1>3, <1>4, <2>4
    <2> QED BY <2>5 DEF OnMajority
<1>8. execStatus[t] = (IF replies[t].spec THEN "EXEC_COMMITING" ELSE "EXEC_DIRECT")
    <2>1. execStatus[t] \in {"EXEC_COMMITING", "EXEC_DIRECT"}
        BY <1>6 DEF IInv, LogOK, LogInv, Logged
    <2>2. RepliesInv(t)
        BY DEF IInv, ReplyInv
    <2> QED BY <1>1, <2>1, <2>2 DEF RepliesInv, RightSpec
<1> QED BY <1>7, <1>8 DEF Confirmed

LEMMA InitInquiries == Init => InquiryInv
<1> SUFFICES ASSUME Init PROVE InquiryInv
    OBVIOUS
<1>1. ASSUME NEW r \in Follower
      PROVE  Len(log[r]) = 0 /\ currentSynced[r] = 0 /\ Len(inquiries[r]) = 0
    BY DEF Init, RL!Init
<1> QED BY <1>1 DEF InquiryInv

LEMMA InquiriesStutter == ASSUME InquiryInv, UNCHANGED vars PROVE InquiryInv'
BY DEF InquiryInv, vars, logVars, inquiryVars

(* What the coordinator has been told of a follower, the follower has,     *)
(* whatever is in the memory that is not initialised.                      *)
THEOREM SyncPointsInvariant == Spec => []InquiryInv
<1>1. IInv /\ IInv' /\ InquiryInv /\ [Next]_vars => InquiryInv'
    BY NextInv, InquirySteps, InquiriesStutter
<1> QED BY <1>1, InitInquiries, RepliesInvariant, PTL DEF Spec

LEMMA CommitSteps ==
    ASSUME IInv, InquiryInv, Next, NEW t \in committed' \ committed, Told(t)
    PROVE  OnMajority(t) /\ Confirmed(t)
<1>1. PICK u \in Txn : SlowCommit(u)
    BY DEF Next, LeaderExecTd, FollowerSync, LeaderReplyTd, PickReply, SendFirst, SendSecond,
           CommitReply, Reconcile, Inquire, UpdateSyncStatus, coordVars
<1>2. u = t
    BY <1>1 DEF SlowCommit
<1> QED BY <1>1, <1>2, SlowCommits

(* What the slow path commits, when the followers it counts have answered  *)
(* an inquiry, is in the logs of a majority of the servers, whichever of   *)
(* the two ids was compared.                                               *)
THEOREM SlowCommitsAreDurable == Spec => SlowCommitDurable
<1>1. IInv /\ InquiryInv /\ [Next]_vars
        => [\A t \in committed' \ committed : Told(t) =>
              2 * Cardinality({r \in Replica : InLog(r, t)}) > Cardinality(Replica)]_vars
    BY CommitSteps DEF OnMajority
<1> QED BY <1>1, RepliesInvariant, SyncPointsInvariant, PTL DEF Spec, SlowCommitDurable

(* Then the client gets the result of the execution that was logged.       *)
THEOREM ResultsStand == Spec => ResultStands
<1>1. IInv /\ InquiryInv /\ [Next]_vars
        => [\A t \in committed' \ committed : Told(t) =>
              execStatus[t] = (IF replies[t].spec THEN "EXEC_COMMITING" ELSE "EXEC_DIRECT")]_vars
    BY CommitSteps DEF Confirmed
<1> QED BY <1>1, RepliesInvariant, SyncPointsInvariant, PTL DEF Spec, ResultStands
=============================================================================
