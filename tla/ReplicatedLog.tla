---------------------------- MODULE ReplicatedLog ----------------------------
(***************************************************************************)
(* The log of one Tiga shard as its followers and the coordinators may     *)
(* rely on it: the leader executes transactions, for good or first         *)
(* speculatively (TigaReplica.cc, LeaderExecTd), and logs what it executes *)
(* for good; every follower follows its log entry by entry and counts the  *)
(* speculations it is sure to have.  How the entries get to the followers  *)
(* is TigaReplication, which implements this specification.                *)
(*                                                                         *)
(* LeaderPreExecTd commands any sequence that TigaSequencer allows for one *)
(* shard, and the deadlines agreed upon are constants here.                *)
(***************************************************************************)
EXTENDS Integers, Sequences

CONSTANTS
    Replica, Leader,
    Txn,
    Conflict,       \* [Txn -> SUBSET Txn]: those that share a key on this shard
    LocalDdl,       \* [Txn -> Nat]: the deadline the leader released it with
    AgreedDdl       \* [Txn -> Nat]: the deadline the leaders agree on

Follower == Replica \ {Leader}
ExecStatus == {"EXEC_INIT", "EXEC_SPEC", "EXEC_ROLLBACK", "EXEC_COMMITING",
               "EXEC_DIRECT"}

VARIABLES
    execStatus,     \* [Txn -> ExecStatus]
    specLogId,      \* [Txn -> Nat], 0 if never executed speculatively
    log,            \* [Replica -> Seq(Txn)]: the synced log; log ids are places
    nextSpecLogId   \* [Replica -> Nat \ {0}]

vars == <<execStatus, specLogId, log, nextSpecLogId>>

NextSyncedLogId(r) == Len(log[r]) + 1
InLog(r, t) == \E i \in DOMAIN log[r] : log[r][i] = t

Init ==
    /\ execStatus = [t \in Txn |-> "EXEC_INIT"]
    /\ specLogId = [t \in Txn |-> 0]
    /\ log = [r \in Replica |-> <<>>]
    /\ nextSpecLogId = [r \in Replica |-> 1]

(* No transaction is executed on top of a conflicting speculation. *)
Isolated(t) == \A u \in Conflict[t] : execStatus[u] # "EXEC_SPEC"

(* DetectiveExec of EXEC_SPEC: the speculation gets an id. *)
ExecSpec(t) ==
    /\ execStatus[t] = "EXEC_INIT"
    /\ Isolated(t)
    /\ execStatus' = [execStatus EXCEPT ![t] = "EXEC_SPEC"]
    /\ specLogId' = [specLogId EXCEPT ![t] = nextSpecLogId[Leader]]
    /\ nextSpecLogId' = [nextSpecLogId EXCEPT ![Leader] = @ + 1]
    /\ UNCHANGED log

(* EXEC_COMMITING: the speculation stands and is logged. *)
ExecCommit(t) ==
    /\ execStatus[t] = "EXEC_SPEC"
    /\ LocalDdl[t] = AgreedDdl[t]
    /\ execStatus' = [execStatus EXCEPT ![t] = "EXEC_COMMITING"]
    /\ log' = [log EXCEPT ![Leader] = Append(@, t)]
    /\ UNCHANGED <<specLogId, nextSpecLogId>>

(* EXEC_ROLLBACK: the agreed deadline is another one. *)
ExecRollback(t) ==
    /\ execStatus[t] = "EXEC_SPEC"
    /\ LocalDdl[t] # AgreedDdl[t]
    /\ execStatus' = [execStatus EXCEPT ![t] = "EXEC_ROLLBACK"]
    /\ UNCHANGED <<log, specLogId, nextSpecLogId>>

(* EXEC_DIRECT: executed and logged at the agreed deadline. *)
ExecDirect(t) ==
    /\ execStatus[t] \in {"EXEC_INIT", "EXEC_ROLLBACK"}
    /\ Isolated(t)
    /\ execStatus' = [execStatus EXCEPT ![t] = "EXEC_DIRECT"]
    /\ log' = [log EXCEPT ![Leader] = Append(@, t)]
    /\ UNCHANGED <<specLogId, nextSpecLogId>>

(* Follower r takes over the next entry of the leader's log. *)
Follow(r) ==
    /\ Len(log[r]) < Len(log[Leader])
    /\ log' = [log EXCEPT ![r] = Append(@, log[Leader][NextSyncedLogId(r)])]
    /\ UNCHANGED <<execStatus, specLogId, nextSpecLogId>>

(* Follower r has the entry of the next speculation in its log. *)
CountSpec(r) ==
    /\ \E t \in Txn : specLogId[t] = nextSpecLogId[r] /\ InLog(r, t)
    /\ nextSpecLogId' = [nextSpecLogId EXCEPT ![r] = @ + 1]
    /\ UNCHANGED <<execStatus, specLogId, log>>

LeaderExecTd ==
    \E t \in Txn : ExecSpec(t) \/ ExecCommit(t) \/ ExecRollback(t) \/ ExecDirect(t)

Next == LeaderExecTd \/ \E r \in Follower : Follow(r) \/ CountSpec(r)

Spec == Init /\ [][Next]_vars

(* Every variable holds values of the types of the program's fields. *)
TypeOK ==
    /\ execStatus \in [Txn -> ExecStatus]
    /\ specLogId \in [Txn -> Nat]
    /\ log \in [Replica -> Seq(Txn)]
    /\ nextSpecLogId \in [Replica -> Nat]
=============================================================================
