---------------------------- MODULE TigaCoordinator ----------------------------
(***************************************************************************)
(* How a coordinator collects the replies of the servers of several shards *)
(* and decides that a request is committed (TigaEntity/TigaCoordinator.cc).*)
(*                                                                         *)
(*   TigaCoordinator  one per client: launches a request, the next one     *)
(*                    when Finish has returned the result of the last;     *)
(*   GlobalInfo       the daemon thread (UpdateQuorumSet, CheckQuorum) and *)
(*                    the inquiry thread (UpdateSyncStatus).               *)
(*                                                                         *)
(* Servers are the environment: each answers a request once, in a view it  *)
(* has been in since the launch, and enters the newest one at any time.  A *)
(* reply that is on its way or in replyQu_ is one the daemon has not taken *)
(* yet; it may be late: OnFastReply drops it if the request has been       *)
(* finished, but lets it pass if it is already in replyQu_.                *)
(*                                                                         *)
(* Views start at 0 (no designate_replica_id), and the configuration       *)
(* manager gives every shard the number of the global view as its view: in *)
(* a reply one number stands for both.  The hash of a leader's reply       *)
(* stands for the deadline it executed at.  Log ids are those of requests. *)
(***************************************************************************)
EXTENDS Integers, Sequences, FiniteSets, FiniteSetsExt

CONSTANTS
    ShardNum, ReplicaNum,
    Targets,        \* <<targetShards_ of the first request, of the second, ...>>
    Failed,         \* servers with serverStatus_ STATUS_FAILING
    Deadline,       \* deadlines leaders execute at
    FollowerHash,   \* hashes of followers, which do not raise a deadline, NoHash
    MaxView,        \* bound: views
    None            \* no quorum set, no reply

Shard == 0..ShardNum - 1
Replica == 0..ReplicaNum - 1
Server == Shard \X Replica
ReqId == 1..Len(Targets)

ASSUME SizeAssumption == ShardNum \in Nat \ {0} /\ ReplicaNum \in Nat \ {0}
ASSUME DeadlineAssumption == Deadline \subseteq Nat \ {0} /\ FollowerHash \subseteq Nat
ASSUME TargetsAssumption == Targets \in Seq((SUBSET Shard) \ {{}})
ASSUME FailedAssumption == Failed \subseteq Server /\ MaxView \in Nat

NoHash == 0     \* hasHash_ = 0: a slow reply, of a follower that has synced the request
Hash == Deadline \cup FollowerHash
Reply == [view : Nat, hash : Hash]
QuorumSet == [gView : Nat, viewIds : [Shard -> Nat],
              replies : [Shard -> [Replica -> Reply \cup {None}]]]
ASSUME NoneAssumption == None \notin Reply \cup QuorumSet

VARIABLES
    gView,          \* the newest global view of the servers
    \* the TigaCoordinator
    running,        \* the request in process
    sentView,       \* [Shard -> [Replica -> Nat]]: currentViews when it was launched
    outcome,        \* what Finish returned while it was in process, or None
    \* GlobalInfo
    taken,          \* [ReqId -> SUBSET Server]: replies taken from replyQu_
    reconciliations,\* requests on their way: [req, shard, view, ddl]
    quorumSets,     \* [ReqId -> QuorumSet or None]
    committedIds,   \* SUBSET ReqId, committedCoordReqIds_
    currentViews, currentSynced, \* [Shard -> [Replica -> Nat]]
    aborted         \* an assertion has failed

coordVars == <<running, sentView, outcome>>
daemonVars == <<taken, reconciliations, quorumSets, committedIds, aborted>>
syncVars == <<currentViews, currentSynced>>
vars == <<gView, coordVars, daemonVars, syncVars>>

slowQuorumSize == ReplicaNum \div 2 + 1
fastQuorumSize == Min({ReplicaNum \div 2 + (ReplicaNum \div 2 + 1) \div 2 + 1, ReplicaNum})

Init ==
    /\ gView = 0
    /\ running = 1
    /\ sentView = [s \in Shard |-> [r \in Replica |-> 0]]
    /\ outcome = [t \in ReqId |-> None]
    /\ taken = [t \in ReqId |-> {}]
    /\ reconciliations = {}
    /\ quorumSets = [t \in ReqId |-> None]
    /\ committedIds = {}
    /\ currentViews = [s \in Shard |-> [r \in Replica |-> 0]]
    /\ currentSynced = [s \in Shard |-> [r \in Replica |-> 0]]
    /\ aborted = FALSE

(* Those of the request the TigaCoordinator is at. *)
targetShards == IF running \in ReqId THEN Targets[running] ELSE {}

-----------------------------------------------------------------------------
(* AddToQuorumSet.                                                         *)

NoReplies == [r \in Replica |-> None]
ClearShards(q, S) == [s \in Shard |-> IF s \in S THEN NoReplies ELSE q.replies[s]]

(* Reply rep of x is taken over, the replies of the shards S are cleared. *)
Take(q, x, rep, S) ==
    [gView   |-> IF q.gView < rep.view THEN rep.view ELSE q.gView,
     viewIds |-> [q.viewIds EXCEPT ![x[1]] = rep.view],
     replies |-> [ClearShards(q, S) EXCEPT ![x[1]][x[2]] = rep]]

(* Mutated: a reply of a newer view joins those of the older one. *)
AddToQuorumSetAnyView(q, x, rep) ==
    IF q.viewIds[x[1]] <= rep.view THEN Take(q, x, rep, {}) ELSE q

AddToQuorumSet(q, x, rep) ==
    CASE q.gView < rep.view -> Take(q, x, rep, Shard)
      [] q.gView >= rep.view /\ q.viewIds[x[1]] < rep.view -> Take(q, x, rep, {x[1]})
      [] q.gView >= rep.view /\ q.viewIds[x[1]] = rep.view -> Take(q, x, rep, {})
      [] OTHER -> q

NewQuorumSet(x, rep) ==
    [gView   |-> rep.view,
     viewIds |-> [s \in Shard |-> IF s = x[1] THEN rep.view ELSE currentViews[s][0]],
     replies |-> [[s \in Shard |-> NoReplies] EXCEPT ![x[1]][x[2]] = rep]]

-----------------------------------------------------------------------------
(* isTxnCommitted.                                                         *)

LeaderIn(v) == v % ReplicaNum
LeaderReply(q, s) == q.replies[s][LeaderIn(q.viewIds[s])]

Repliers(q, s) == {r \in Replica : q.replies[s][r] # None}
Differing(q, s) ==
    {r \in Repliers(q, s) : q.replies[s][r].hash \notin {NoHash, LeaderReply(q, s).hash}}

(* A follower's reply has no log id: "follower does not include logId". *)
FollowerLogId == 0

ValidFast(q, s) ==
    {r \in Repliers(q, s) : r \in Differing(q, s) => currentSynced[s][r] >= FollowerLogId}
ValidSlow(t, q, s) ==
    {r \in Replica : r # LeaderIn(q.viewIds[s]) /\ currentSynced[s][r] >= t}

FastShard(q, s) == Cardinality(ValidFast(q, s)) >= fastQuorumSize
SlowShard(t, q, s) == Cardinality(ValidSlow(t, q, s)) + 1 >= slowQuorumSize

(* A reply that differs while its server is known to be in another view:   *)
(* in a newer one, the replies are cleared; in an older one, an assertion  *)
(* fails.                                                                  *)
Newer(q, s) == {r \in Differing(q, s) : currentViews[s][r] > q.viewIds[s]}
Older(q, s) == {r \in Differing(q, s) : currentViews[s][r] < q.viewIds[s]}

ShardCommitted(t, q, s) ==
    /\ LeaderReply(q, s) # None
    /\ Newer(q, s) = {}
    /\ Older(q, s) = {}
    /\ FastShard(q, s) \/ SlowShard(t, q, s)

(* Shards are looked at in order, up to the first that is not committed. *)
Blocking(t, q) == {s \in targetShards : ~ShardCommitted(t, q, s)}

ClearShard(q, s) == [q EXCEPT !.replies = ClearShards(q, {s})]

MayClear(q, s) == LeaderReply(q, s) # None /\ Newer(q, s) # {}
MayAbort(q, s) == LeaderReply(q, s) # None /\ Older(q, s) # {}

(* What may be left of q, where s blocks: a map is searched in no order. *)
Blocked(q, s) ==
    {p \in {q, ClearShard(q, s)} :
        IF p = q THEN ~MayClear(q, s) /\ ~MayAbort(q, s) ELSE MayClear(q, s)}

-----------------------------------------------------------------------------
(* isNonSerializable, IssueReconcliationRequest.                           *)

LeaderDeadlines(q) == {LeaderReply(q, s).hash : s \in targetShards}

isNonSerializable(q) ==
    /\ Cardinality(targetShards) > 1
    /\ \A s \in targetShards : LeaderReply(q, s) # None
    /\ Cardinality(LeaderDeadlines(q)) > 1

(* The agreed deadline; Lower: the shards that have executed before it. *)
Agreed(q) == {d \in LeaderDeadlines(q) : \A e \in LeaderDeadlines(q) : e <= d}
Lower(q) == {s \in targetShards : \E d \in LeaderDeadlines(q) : LeaderReply(q, s).hash < d}

(* Mutated: the lower replies stay until their successors come. *)
WithoutLowerKept(q) == q

WithoutLower(q) ==
    [q EXCEPT !.replies = [s \in Shard |-> IF s \notin Lower(q) THEN q.replies[s]
        ELSE [q.replies[s] EXCEPT ![LeaderIn(q.viewIds[s])] = None]]]

ReconciliationRequests(t, q) ==
    {[req |-> t, shard |-> s, view |-> q.viewIds[s], ddl |-> d] : s \in Lower(q), d \in Agreed(q)}

-----------------------------------------------------------------------------
(* The daemon thread.                                                      *)

(* The super quorum of the fast path. *)
Agreeing(q, s) == Cardinality(Repliers(q, s) \ Differing(q, s)) >= fastQuorumSize

(* Finish calls back; the client starts the next request.  outcome notes   *)
(* the request, the number of its deadlines, and the shards the fast path  *)
(* has committed without a super quorum.                                   *)
Finish(t, q) ==
    /\ committedIds' = committedIds \cup {t}
    /\ quorumSets' = [quorumSets EXCEPT ![t] = None]
    /\ outcome' = [outcome EXCEPT ![running] =
           [req         |-> t,
            deadlines   |-> Cardinality(LeaderDeadlines(q)),
            disagreeing |-> {s \in targetShards : FastShard(q, s) /\ ~Agreeing(q, s)}]]
    /\ running' = running + 1
    /\ sentView' = currentViews
    /\ UNCHANGED aborted

AssertFails ==
    /\ aborted' = TRUE
    /\ UNCHANGED <<quorumSets, committedIds, coordVars>>

Keep(t, q) ==
    /\ quorumSets' = [quorumSets EXCEPT ![t] = q]
    /\ UNCHANGED <<committedIds, aborted, coordVars>>

(* Mutated: a reply of a request that is committed is taken for a new one. *)
CommittedForgotten(t) == FALSE

Committed(t) == t \in committedIds

(* Reply rep of x to request t, while the requests others are on their way. *)
UpdateQuorumSet(t, x, rep, others) ==
    IF Committed(t)
    THEN /\ reconciliations' = others
         /\ UNCHANGED <<quorumSets, committedIds, aborted, coordVars>>
    ELSE LET q == IF quorumSets[t] = None THEN NewQuorumSet(x, rep)
                  ELSE AddToQuorumSet(quorumSets[t], x, rep)
             blocking == Blocking(t, q)
         IN  \/ /\ blocking # {} /\ MayAbort(q, Min(blocking))
                /\ AssertFails
                /\ reconciliations' = others
             \/ \E p \in IF blocking = {} THEN {q} ELSE Blocked(q, Min(blocking)) :
                   IF isNonSerializable(p)
                   THEN /\ Keep(t, WithoutLower(p))
                        /\ reconciliations' = others \cup ReconciliationRequests(t, p)
                   ELSE /\ IF blocking = {} THEN Finish(t, p) ELSE Keep(t, p)
                        /\ reconciliations' = others

(* The reply of x to request t, as it was sent in a view x has been in. *)
TakeReply(t, x) ==
    /\ ~aborted
    /\ t <= running
    /\ x[1] \in Targets[t]
    /\ x \notin Failed \cup taken[t]
    /\ taken' = [taken EXCEPT ![t] = @ \cup {x}]
    /\ \E v \in sentView[x[1]][x[2]]..gView :
       \E h \in IF x[2] = LeaderIn(v) THEN Deadline ELSE FollowerHash :
          UpdateQuorumSet(t, x, [view |-> v, hash |-> h], reconciliations)
    /\ UNCHANGED <<gView, syncVars>>

(* The leader has executed the request at the agreed deadline, and replies *)
(* again in the view it was asked in.                                      *)
TakeReconciled(m) ==
    /\ ~aborted
    /\ UpdateQuorumSet(m.req, <<m.shard, LeaderIn(m.view)>>, [view |-> m.view, hash |-> m.ddl],
                       reconciliations \ {m})
    /\ UNCHANGED <<gView, taken, syncVars>>

(* A sync status may have made the request committed meanwhile. *)
CheckQuorum(t) ==
    /\ ~aborted
    /\ quorumSets[t] # None
    /\ LET q == quorumSets[t]
           blocking == Blocking(t, q)
       IN  IF blocking = {} THEN Finish(t, q)
           ELSE \/ MayAbort(q, Min(blocking)) /\ AssertFails
                \/ \E p \in Blocked(q, Min(blocking)) \ {q} : Keep(t, p)
    /\ UNCHANGED <<gView, taken, reconciliations, syncVars>>

-----------------------------------------------------------------------------
(* The inquiry thread.                                                     *)

(* Mutated: one is taken off the log id once more. *)
UpdateSyncStatusLess(s, r, v, n) ==
    /\ ~aborted
    /\ v >= currentViews[s][r]
    /\ v > currentViews[s][r] \/ n > currentSynced[s][r]
    /\ currentViews' = [currentViews EXCEPT ![s][r] = v]
    /\ currentSynced' = [currentSynced EXCEPT ![s][r] = n - 1]
    /\ UNCHANGED <<gView, coordVars, daemonVars>>

(* A larger log id, or any of a newer view, is taken over. *)
UpdateSyncStatus(s, r, v, n) ==
    /\ ~aborted
    /\ v >= currentViews[s][r]
    /\ v > currentViews[s][r] \/ n > currentSynced[s][r]
    /\ currentViews' = [currentViews EXCEPT ![s][r] = v]
    /\ currentSynced' = [currentSynced EXCEPT ![s][r] = n]
    /\ UNCHANGED <<gView, coordVars, daemonVars>>

(* The answer of a server, in a view it is in meanwhile: its log has the   *)
(* running request, or none of interest; one that has failed counts as not *)
(* synced.  Only of the shards of the running request (bound).             *)
Inquiry(s, r) ==
    /\ s \in targetShards
    /\ \E v \in currentViews[s][r]..gView :
       \E n \in IF <<s, r>> \in Failed THEN {0} ELSE {0, running} :
          UpdateSyncStatus(s, r, v, n)

(* The configuration manager starts a view; servers enter it one by one. *)
NewGlobalView ==
    /\ gView < MaxView /\ running \in ReqId
    /\ gView' = gView + 1
    /\ UNCHANGED <<coordVars, daemonVars, syncVars>>

Next ==
    \/ \E t \in ReqId, x \in Server : TakeReply(t, x)
    \/ \E m \in reconciliations : TakeReconciled(m)
    \/ \E t \in ReqId : CheckQuorum(t)
    \/ \E s \in Shard, r \in Replica : Inquiry(s, r)
    \/ NewGlobalView

Spec == Init /\ [][Next]_vars

-----------------------------------------------------------------------------
(* Properties.                                                             *)

(* Every variable holds values of the types of the program's fields.       *)
TypeOK ==
    /\ gView \in 0..MaxView
    /\ sentView \in [Shard -> [Replica -> Nat]]
    /\ running \in Nat \ {0}
    /\ taken \in [ReqId -> SUBSET Server]
    /\ reconciliations \subseteq
           [req : ReqId, shard : Shard, view : Nat, ddl : Hash]
    /\ quorumSets \in [ReqId -> QuorumSet \cup {None}]
    /\ committedIds \subseteq ReqId
    /\ currentViews \in [Shard -> [Replica -> Nat]]
    /\ currentSynced \in [Shard -> [Replica -> Nat]]
    /\ aborted \in BOOLEAN

(* A request is committed at one deadline: the replies of the leaders of   *)
(* its shards that Finish merges agree on it, although CheckQuorum does    *)
(* not ask isNonSerializable, and whatever replies of other views and      *)
(* answers to reconciliation requests come between.                        *)
CommittedAtOneDeadline ==
    \A t \in ReqId : outcome[t] # None => outcome[t].deadlines = 1

(* The client gets the result of the request it has in process, once: a    *)
(* reply that was in replyQu_ when its request was finished, or that       *)
(* answers a reconciliation request and so is not checked for its phase,   *)
(* cannot finish the request the coordinator is at by then.                *)
FinishesRequestInProcess ==
    \A t \in ReqId : outcome[t] # None => outcome[t].req = t

(* Only replies of one view of a shard are counted together, also after a  *)
(* reply of a newer global view has come from another shard, for which the *)
(* view of this shard was not changed.                                     *)
RepliesOfOneView ==
    \A t \in ReqId : quorumSets[t] # None =>
        \A s \in Shard : \A r \in Repliers(quorumSets[t], s) :
            quorumSets[t].replies[s][r].view = quorumSets[t].viewIds[s]

(* Section 3.4 of Tiga-technical-report.pdf: a transaction is fast-        *)
(* committed on a shard if the coordinator has a super quorum of fast-     *)
(* replies with the leader's hash and timestamp.                           *)
FastQuorumAgrees ==
    \A t \in ReqId : outcome[t] # None => outcome[t].disagreeing = {}
=============================================================================
