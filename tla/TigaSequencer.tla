---------------------------- MODULE TigaSequencer ----------------------------
(***************************************************************************)
(* How the leader of each Tiga shard orders transactions, from the arrival *)
(* of a request to the command it hands to the executing thread            *)
(* (TigaService/TigaReplica.cc).  Three threads of each leader take part,  *)
(* connected by lock-free queues:                                          *)
(*                                                                         *)
(*   HoldReleaseTd    holds a transaction until its deadline has passed    *)
(*                    and releases in deadline order;                      *)
(*   LeaderDdlSyncTd  agrees with the leaders of the other participating   *)
(*                    shards on one deadline, in one or two phases;        *)
(*   LeaderPreExecTd  decides when a transaction is executed, speculatively*)
(*                    or for good, and when a speculation is rolled back.  *)
(*                                                                         *)
(* The view does not change here, so leader and shard are one.  A clock is *)
(* read and never relied upon: a reading is any value, as clocks may be    *)
(* skewed and threads delayed.  The queues with several producers are      *)
(* sets; so is toDdlSyncQu_, whose consumer treats each transaction by     *)
(* itself.                                                                 *)
(***************************************************************************)
EXTENDS Integers, Sequences, FiniteSets

CONSTANTS
    Shard,
    Txn,            \* the txnKeys, naturals: they break ties between deadlines
    Key,
    KeysOf,         \* [Txn -> [Shard -> SUBSET Key]], shardKeyMap_
    Deadline,       \* [Txn -> Nat], sendTime_ + bound_ of the request
    ClockApproach,  \* "synchronized", "logical" or "skeen"
    FirstClock,     \* [Shard -> Nat]: where the logical clocks of "skeen" start
    MaxClock,       \* bound: the last reading of a clock
    None            \* no transaction (a NULL entry)

ASSUME TxnAssumption == Txn \subseteq Nat /\ None \notin Txn
ASSUME KeysAssumption == KeysOf \in [Txn -> [Shard -> SUBSET Key]]
ASSUME DeadlineAssumption == Deadline \in [Txn -> Nat]
ASSUME ClockAssumption ==
    /\ ClockApproach \in {"synchronized", "logical", "skeen"}
    /\ FirstClock \in [Shard -> Nat]
    /\ MaxClock \in Nat

(* The statuses of a TigaLogEntry.  AGREE_NONE: the leader has no entry yet. *)
AgreeStatus == {"AGREE_NONE", "AGREE_INIT", "AGREE_FLUSHING",
                "AGREE_CONFIRMING", "AGREE_COMPLETE"}
ExecStatus == {"EXEC_INIT", "EXEC_SPEC", "EXEC_ROLLBACK",
               "EXEC_COMMITING", "EXEC_DIRECT"}
ExecCommand == ExecStatus \ {"EXEC_INIT"}

Participants == [t \in Txn |-> {s \in Shard : KeysOf[t][s] # {}}]
LocalKeys(s, t) == KeysOf[t][s]
Conflict(s, t, u) == t # u /\ LocalKeys(s, t) \cap LocalKeys(s, u) # {}

VARIABLES
    requests,          \* <<s, t>>: request t is on its way to leader s
    serverLogicalClock,\* [Shard -> Nat], advances under "skeen" only
    \* the fields of the log entries, [Shard -> [Txn -> ...]]
    localDdlRank, agreedDdlRank, agreeStatus, execStatus,
    \* HoldReleaseTd
    toHoldAndRelease,  \* [Shard -> SUBSET Txn]
    holdBuffer,        \* [Shard -> SUBSET (Nat \X Txn)], ordered by Before
    lastReleased,      \* [Shard -> [Key -> Nat]], lastReleasedTxnDeadlines_
    \* LeaderDdlSyncTd
    toDdlSync,         \* [Shard -> SUBSET Txn]
    ddlNet,            \* the deadline agreement requests on their way
    ddls, phases,      \* [Shard -> [Txn -> [Shard -> Nat]]], ddlMap_
    \* LeaderPreExecTd
    toExecCheck,       \* [Shard -> Seq(Txn)]
    execSequencers,    \* [Shard -> [Key -> SUBSET (Nat \X Txn)]]
    entriesInSpec,     \* [Shard -> [Key -> Txn or None]]
    candidates,        \* [Shard -> SUBSET Txn], candidateEntries
    toExecQu           \* [Shard -> Seq(<<txn, command>>)], all ever enqueued

entryVars == <<localDdlRank, agreedDdlRank, agreeStatus, execStatus>>
holdVars == <<toHoldAndRelease, holdBuffer, lastReleased>>
agreeVars == <<toDdlSync, ddlNet, ddls, phases>>
preExecVars == <<execSequencers, entriesInSpec, candidates, toExecQu>>
vars == <<requests, serverLogicalClock, entryVars, holdVars, agreeVars,
          toExecCheck, preExecVars>>

(* The order of std::map<std::pair<rank, txnKey>, entry>. *)
Before(e, f) == e[1] < f[1] \/ (e[1] = f[1] /\ e[2] < f[2])
IsFirst(e, buffer) == e \in buffer /\ \A f \in buffer \ {e} : Before(e, f)

Message == [txn : Txn, from : Shard, to : Shard, ddl : Nat, phase : {1, 2}]

Init ==
    /\ requests = {r \in Shard \X Txn : r[1] \in Participants[r[2]]}
    /\ serverLogicalClock = FirstClock
    /\ localDdlRank = [s \in Shard |-> [t \in Txn |-> 0]]
    /\ agreedDdlRank = [s \in Shard |-> [t \in Txn |-> 0]]
    /\ agreeStatus = [s \in Shard |-> [t \in Txn |-> "AGREE_NONE"]]
    /\ execStatus = [s \in Shard |-> [t \in Txn |-> "EXEC_INIT"]]
    /\ toHoldAndRelease = [s \in Shard |-> {}]
    /\ holdBuffer = [s \in Shard |-> {}]
    /\ lastReleased = [s \in Shard |-> [k \in Key |-> 0]]
    /\ toDdlSync = [s \in Shard |-> {}]
    /\ ddlNet = {}
    /\ ddls = [s \in Shard |-> [t \in Txn |-> [p \in Shard |-> 0]]]
    /\ phases = [s \in Shard |-> [t \in Txn |-> [p \in Shard |-> 0]]]
    /\ toExecCheck = [s \in Shard |-> <<>>]
    /\ execSequencers = [s \in Shard |-> [k \in Key |-> {}]]
    /\ entriesInSpec = [s \in Shard |-> [k \in Key |-> None]]
    /\ candidates = [s \in Shard |-> {}]
    /\ toExecQu = [s \in Shard |-> <<>>]

-----------------------------------------------------------------------------
(* onNormalRequest: the request of a coordinator reaches leader s.         *)

ReceiveRequest(s, t) ==
    /\ <<s, t>> \in requests
    /\ requests' = requests \ {<<s, t>>}
    /\ IF ClockApproach = "skeen"
       THEN /\ localDdlRank' = [localDdlRank EXCEPT ![s][t] = serverLogicalClock[s]]
            /\ serverLogicalClock' = [serverLogicalClock EXCEPT ![s] = @ + 1]
       ELSE /\ localDdlRank' = [localDdlRank EXCEPT ![s][t] = Deadline[t]]
            /\ UNCHANGED serverLogicalClock
    /\ agreeStatus' = [agreeStatus EXCEPT ![s][t] = "AGREE_INIT"]
    /\ toHoldAndRelease' = [toHoldAndRelease EXCEPT ![s] = @ \cup {t}]
    /\ UNCHANGED <<agreedDdlRank, execStatus, holdBuffer, lastReleased,
                   agreeVars, toExecCheck, preExecVars>>

-----------------------------------------------------------------------------
(* HoldReleaseTd.                                                          *)

(* Mutated: the deadline is not raised. *)
HoldNewAsItComes(s, t) ==
    /\ t \in toHoldAndRelease[s]
    /\ agreeStatus[s][t] # "AGREE_FLUSHING"
    /\ toHoldAndRelease' = [toHoldAndRelease EXCEPT ![s] = @ \ {t}]
    /\ holdBuffer' = [holdBuffer EXCEPT ![s] = @ \cup {<<localDdlRank[s][t], t>>}]
    /\ UNCHANGED <<requests, serverLogicalClock, entryVars, lastReleased,
                   agreeVars, toExecCheck, preExecVars>>

(* A new transaction enters the hold buffer; a leader raises its deadline  *)
(* above those of the conflicting transactions it has released.            *)
HoldNew(s, t) ==
    /\ t \in toHoldAndRelease[s]
    /\ agreeStatus[s][t] # "AGREE_FLUSHING"
    /\ toHoldAndRelease' = [toHoldAndRelease EXCEPT ![s] = @ \ {t}]
    /\ \E last \in {lastReleased[s][k] : k \in LocalKeys(s, t)} :
          /\ \A k \in LocalKeys(s, t) : lastReleased[s][k] <= last
          /\ LET rank == IF localDdlRank[s][t] > last
                         THEN localDdlRank[s][t] ELSE last + 1
             IN  /\ localDdlRank' = [localDdlRank EXCEPT ![s][t] = rank]
                 /\ holdBuffer' = [holdBuffer EXCEPT ![s] = @ \cup {<<rank, t>>}]
    /\ UNCHANGED <<requests, serverLogicalClock, agreedDdlRank, agreeStatus,
                   execStatus, lastReleased, agreeVars, toExecCheck, preExecVars>>

(* A transaction whose proposal was too small waits for the agreed deadline. *)
HoldFlushing(s, t) ==
    /\ t \in toHoldAndRelease[s]
    /\ agreeStatus[s][t] = "AGREE_FLUSHING"
    /\ toHoldAndRelease' = [toHoldAndRelease EXCEPT ![s] = @ \ {t}]
    /\ holdBuffer' = [holdBuffer EXCEPT ![s] = @ \cup {<<agreedDdlRank[s][t], t>>}]
    /\ UNCHANGED <<requests, serverLogicalClock, entryVars, lastReleased,
                   agreeVars, toExecCheck, preExecVars>>

(* The first of the hold buffer leaves it once a reading of the clock has  *)
(* passed its deadline, or at once when deadlines are not clock times.     *)
(* What was released is recorded with its local deadline.                  *)
LeaveHoldBuffer(s, e) ==
    /\ IsFirst(e, holdBuffer[s])
    /\ \/ \E nowTime \in 0..MaxClock : nowTime > e[1]
       \/ ClockApproach \in {"logical", "skeen"}
    /\ holdBuffer' = [holdBuffer EXCEPT ![s] = @ \ {e}]
    /\ lastReleased' = [lastReleased EXCEPT ![s] =
          [k \in Key |-> IF k \in LocalKeys(s, e[2]) /\ @[k] < localDdlRank[s][e[2]]
                         THEN localDdlRank[s][e[2]] ELSE @[k]]]
    /\ UNCHANGED <<requests, serverLogicalClock, localDdlRank, execStatus,
                   toHoldAndRelease, ddlNet, ddls, phases, preExecVars>>

ReleaseFlushing(s, e) ==
    /\ LeaveHoldBuffer(s, e)
    /\ agreeStatus[s][e[2]] = "AGREE_FLUSHING"
    /\ toDdlSync' = [toDdlSync EXCEPT ![s] = @ \cup {e[2]}]
    /\ UNCHANGED <<agreedDdlRank, agreeStatus, toExecCheck>>

ReleaseSingleShard(s, e) ==
    /\ LeaveHoldBuffer(s, e)
    /\ agreeStatus[s][e[2]] # "AGREE_FLUSHING"
    /\ Participants[e[2]] = {s}
    /\ agreedDdlRank' = [agreedDdlRank EXCEPT ![s][e[2]] = localDdlRank[s][e[2]]]
    /\ agreeStatus' = [agreeStatus EXCEPT ![s][e[2]] = "AGREE_COMPLETE"]
    /\ toExecCheck' = [toExecCheck EXCEPT ![s] = Append(@, e[2])]
    /\ UNCHANGED toDdlSync

ReleaseMultiShard(s, e) ==
    /\ LeaveHoldBuffer(s, e)
    /\ agreeStatus[s][e[2]] # "AGREE_FLUSHING"
    /\ Participants[e[2]] # {s}
    /\ toDdlSync' = [toDdlSync EXCEPT ![s] = @ \cup {e[2]}]
    /\ toExecCheck' = [toExecCheck EXCEPT ![s] = Append(@, e[2])]
    /\ UNCHANGED <<agreedDdlRank, agreeStatus>>

-----------------------------------------------------------------------------
(* LeaderDdlSyncTd.                                                        *)

(* Mutated: the smallest deadline. *)
Lowest(d, t, top) ==
    /\ \E p \in Participants[t] : d[p] = top
    /\ \A p \in Participants[t] : top <= d[p]

Highest(d, t, top) ==
    /\ \E p \in Participants[t] : d[p] = top
    /\ \A p \in Participants[t] : d[p] <= top

(* Mutated: who stands at the highest deadline does not wait for the others. *)
ConcludeAlone(s, t, d) ==
    \E top \in {d[p] : p \in Participants[t]} :
      /\ Highest(d, t, top)
      /\ agreedDdlRank' = [agreedDdlRank EXCEPT ![s][t] = top]
      /\ IF d[s] = top
         THEN /\ agreeStatus' = [agreeStatus EXCEPT ![s][t] = "AGREE_COMPLETE"]
              /\ UNCHANGED toHoldAndRelease
         ELSE /\ agreeStatus' = [agreeStatus EXCEPT ![s][t] = "AGREE_FLUSHING"]
              /\ toHoldAndRelease' = [toHoldAndRelease EXCEPT ![s] = @ \cup {t}]

(* What leader s concludes once all participants are on record: complete   *)
(* when all stand at the same deadline; otherwise a leader that stands     *)
(* lower moves to the highest one, and the others wait for it.             *)
Conclude(s, t, d) ==
    \E top \in {d[p] : p \in Participants[t]} :
      /\ Highest(d, t, top)
      /\ agreedDdlRank' = [agreedDdlRank EXCEPT ![s][t] = top]
      /\ \/ /\ \A p \in Participants[t] : d[p] = top
            /\ agreeStatus' = [agreeStatus EXCEPT ![s][t] = "AGREE_COMPLETE"]
            /\ UNCHANGED toHoldAndRelease
         \/ /\ \E p \in Participants[t] : d[p] # top
            /\ d[s] = top
            /\ agreeStatus' = [agreeStatus EXCEPT ![s][t] = "AGREE_CONFIRMING"]
            /\ UNCHANGED toHoldAndRelease
         \/ /\ d[s] # top
            /\ agreeStatus[s][t] = "AGREE_INIT"
            /\ agreeStatus' = [agreeStatus EXCEPT ![s][t] = "AGREE_FLUSHING"]
            /\ toHoldAndRelease' = [toHoldAndRelease EXCEPT ![s] = @ \cup {t}]
         \/ /\ d[s] # top
            /\ agreeStatus[s][t] # "AGREE_INIT"
            /\ UNCHANGED <<agreeStatus, toHoldAndRelease>>

(* Leader s records that the leader of shard from stands at ddl; a report  *)
(* that is not of a later phase than the one on record changes nothing.    *)
UpdateDeadlineRecord(s, t, from, ddl, phase) ==
    IF phases[s][t][from] >= phase
    THEN UNCHANGED <<ddls, phases, agreedDdlRank, agreeStatus, toHoldAndRelease>>
    ELSE LET d == [ddls[s][t] EXCEPT ![from] = ddl]
             ph == [phases[s][t] EXCEPT ![from] = phase]
         IN  /\ ddls' = [ddls EXCEPT ![s][t] = d]
             /\ phases' = [phases EXCEPT ![s][t] = ph]
             /\ IF \A p \in Participants[t] : ph[p] # 0
                THEN Conclude(s, t, d)
                ELSE UNCHANGED <<agreedDdlRank, agreeStatus, toHoldAndRelease>>

(* Mutated: phases counted from zero. *)
ReportFromZero(s, t, ddl, phase) ==
    {[txn |-> t, from |-> s, to |-> p, ddl |-> ddl, phase |-> phase - 1] :
        p \in Participants[t] \ {s}}

Report(s, t, ddl, phase) ==
    {[txn |-> t, from |-> s, to |-> p, ddl |-> ddl, phase |-> phase] :
        p \in Participants[t] \ {s}}

(* The leader's own deadline goes on record and to the other participants: *)
(* in phase 1 the deadline t was released with, in phase 2 the agreed one. *)
DdlSyncLocal(s, t, phase) ==
    /\ t \in toDdlSync[s]
    /\ toDdlSync' = [toDdlSync EXCEPT ![s] = @ \ {t}]
    /\ agreeStatus[s][t] = (IF phase = 1 THEN "AGREE_INIT" ELSE "AGREE_FLUSHING")
    /\ LET ddl == IF phase = 1 THEN localDdlRank[s][t] ELSE agreedDdlRank[s][t]
       IN  /\ ddlNet' = ddlNet \cup Report(s, t, ddl, phase)
           /\ UpdateDeadlineRecord(s, t, s, ddl, phase)
    /\ UNCHANGED <<requests, serverLogicalClock, localDdlRank, execStatus,
                   holdBuffer, lastReleased, toExecCheck, preExecVars>>

DdlSyncRemote(m) ==
    /\ m \in ddlNet
    /\ ddlNet' = ddlNet \ {m}
    /\ UpdateDeadlineRecord(m.to, m.txn, m.from, m.ddl, m.phase)
    /\ UNCHANGED <<requests, serverLogicalClock, localDdlRank, execStatus,
                   holdBuffer, lastReleased, toDdlSync, toExecCheck, preExecVars>>

-----------------------------------------------------------------------------
(* LeaderPreExecTd.  A pass of the thread admits released transactions,    *)
(* then looks at every candidate, then admits those that wait for the keys *)
(* that were freed.  The candidates hold disjoint keys, so the last two    *)
(* are taken one candidate at a time, each with the admissions it enables. *)

AtTopofExecSequencer(sequencers, s, t) ==
    \A k \in LocalKeys(s, t) :
        \E e \in sequencers[k] : e[2] = t /\ IsFirst(e, sequencers[k])

(* Mutated: the keys held by a speculation are not looked at. *)
CanAlwaysSpecExec(inSpec, s, t) == TRUE

CanSpecExec(inSpec, s, t) == \A k \in LocalKeys(s, t) : inSpec[k] = None

Without(sequencers, gone) ==
    [k \in Key |-> {e \in sequencers[k] : e[2] \notin gone}]

Admit(s) ==
    /\ toExecCheck[s] # <<>>
    /\ toExecCheck' = [toExecCheck EXCEPT ![s] = Tail(@)]
    /\ LET t == Head(toExecCheck[s])
           sequencers == [k \in Key |->
               IF k \in LocalKeys(s, t)
               THEN execSequencers[s][k] \cup {<<localDdlRank[s][t], t>>}
               ELSE execSequencers[s][k]]
       IN  IF /\ AtTopofExecSequencer(sequencers, s, t)
              /\ CanSpecExec(entriesInSpec[s], s, t)
           THEN /\ execSequencers' = [execSequencers EXCEPT ![s] = Without(sequencers, {t})]
                /\ entriesInSpec' = [entriesInSpec EXCEPT ![s] =
                       [k \in Key |-> IF k \in LocalKeys(s, t) THEN t ELSE @[k]]]
                /\ candidates' = [candidates EXCEPT ![s] = @ \cup {t}]
           ELSE /\ execSequencers' = [execSequencers EXCEPT ![s] = sequencers]
                /\ UNCHANGED <<entriesInSpec, candidates>>
    /\ UNCHANGED <<requests, serverLogicalClock, entryVars, holdVars, agreeVars,
                   toExecQu>>

(* Mutated: nobody looks for who waits for the keys. *)
GiveUpKeysSilently(s, t, sequencers) ==
    /\ execSequencers' = [execSequencers EXCEPT ![s] = sequencers]
    /\ entriesInSpec' = [entriesInSpec EXCEPT ![s] =
           [k \in Key |-> IF k \in LocalKeys(s, t) THEN None ELSE @[k]]]
    /\ candidates' = [candidates EXCEPT ![s] = @ \ {t}]

(* AdvanceSpecExec, for the keys that t gives up: a transaction that waits *)
(* for one of them becomes a candidate when it is first on all of its keys *)
(* and none of them is taken.                                              *)
GiveUpKeys(s, t, sequencers) ==
    LET freed == [k \in Key |-> IF k \in LocalKeys(s, t) THEN None
                                ELSE entriesInSpec[s][k]]
        next == {u \in Txn : /\ LocalKeys(s, u) \cap LocalKeys(s, t) # {}
                             /\ AtTopofExecSequencer(sequencers, s, u)
                             /\ CanSpecExec(freed, s, u)}
        taken(k) == {u \in next : k \in LocalKeys(s, u)}
    IN  /\ execSequencers' = [execSequencers EXCEPT ![s] = Without(sequencers, next)]
        /\ entriesInSpec' = [entriesInSpec EXCEPT ![s] =
               [k \in Key |-> IF taken(k) = {} THEN freed[k]
                              ELSE CHOOSE u \in taken(k) : TRUE]]
        /\ candidates' = [candidates EXCEPT ![s] = (@ \ {t}) \cup next]

Command(s, t, cmd) ==
    /\ execStatus' = [execStatus EXCEPT ![s][t] = cmd]
    /\ toExecQu' = [toExecQu EXCEPT ![s] = Append(@, <<t, cmd>>)]
    /\ UNCHANGED <<requests, serverLogicalClock, localDdlRank, agreedDdlRank,
                   agreeStatus, holdVars, agreeVars, toExecCheck>>

(* The deadline is agreed before t was executed, or since it was rolled back. *)
CommandDirect(s, t) ==
    /\ t \in candidates[s]
    /\ execStatus[s][t] \in {"EXEC_INIT", "EXEC_ROLLBACK"}
    /\ agreeStatus[s][t] = "AGREE_COMPLETE"
    /\ Command(s, t, "EXEC_DIRECT")
    /\ GiveUpKeys(s, t, execSequencers[s])

(* t is executed before its deadline is agreed, and keeps its keys. *)
CommandSpec(s, t) ==
    /\ t \in candidates[s]
    /\ execStatus[s][t] = "EXEC_INIT"
    /\ agreeStatus[s][t] # "AGREE_COMPLETE"
    /\ Command(s, t, "EXEC_SPEC")
    /\ UNCHANGED <<execSequencers, entriesInSpec, candidates>>

(* The speculation was right: the agreed deadline is the local one. *)
CommandCommit(s, t) ==
    /\ t \in candidates[s]
    /\ execStatus[s][t] = "EXEC_SPEC"
    /\ agreeStatus[s][t] = "AGREE_COMPLETE"
    /\ localDdlRank[s][t] = agreedDdlRank[s][t]
    /\ Command(s, t, "EXEC_COMMITING")
    /\ GiveUpKeys(s, t, execSequencers[s])

(* Mutated: rolled back as soon as the deadline moves, agreed or not. *)
CommandRollbackEarly(s, t) ==
    /\ t \in candidates[s]
    /\ execStatus[s][t] = "EXEC_SPEC"
    /\ localDdlRank[s][t] # agreedDdlRank[s][t]
    /\ Command(s, t, "EXEC_ROLLBACK")
    /\ GiveUpKeys(s, t, [k \in Key |->
           IF k \in LocalKeys(s, t)
           THEN execSequencers[s][k] \cup {<<agreedDdlRank[s][t], t>>}
           ELSE execSequencers[s][k]])

(* It was not: t goes back into the sequencers, at the agreed deadline. *)
CommandRollback(s, t) ==
    /\ t \in candidates[s]
    /\ execStatus[s][t] = "EXEC_SPEC"
    /\ agreeStatus[s][t] = "AGREE_COMPLETE"
    /\ localDdlRank[s][t] # agreedDdlRank[s][t]
    /\ Command(s, t, "EXEC_ROLLBACK")
    /\ GiveUpKeys(s, t, [k \in Key |->
           IF k \in LocalKeys(s, t)
           THEN execSequencers[s][k] \cup {<<agreedDdlRank[s][t], t>>}
           ELSE execSequencers[s][k]])

-----------------------------------------------------------------------------
HoldReleaseTd(s) ==
    \/ \E t \in toHoldAndRelease[s] : HoldNew(s, t) \/ HoldFlushing(s, t)
    \/ \E e \in holdBuffer[s] :
          ReleaseFlushing(s, e) \/ ReleaseSingleShard(s, e) \/ ReleaseMultiShard(s, e)

LeaderDdlSyncTd(s) ==
    \/ \E t \in toDdlSync[s], phase \in {1, 2} : DdlSyncLocal(s, t, phase)
    \/ \E m \in ddlNet : m.to = s /\ DdlSyncRemote(m)

LeaderPreExecTd(s) ==
    \/ Admit(s)
    \/ \E t \in candidates[s] :
          CommandDirect(s, t) \/ CommandSpec(s, t) \/ CommandCommit(s, t)
              \/ CommandRollback(s, t)

Next ==
    \E s \in Shard :
        \/ \E t \in Txn : ReceiveRequest(s, t)
        \/ HoldReleaseTd(s)
        \/ LeaderDdlSyncTd(s)
        \/ LeaderPreExecTd(s)

Spec == Init /\ [][Next]_vars

(* Every request reaches its leaders (the code assumes that no client dies *)
(* with a partial multicast), RPCs between live leaders arrive, the        *)
(* threads keep looping and clocks keep advancing.                         *)
Fairness ==
    \A s \in Shard :
        /\ WF_vars(\E t \in Txn : ReceiveRequest(s, t))
        /\ WF_vars(HoldReleaseTd(s))
        /\ WF_vars(LeaderDdlSyncTd(s))
        /\ WF_vars(LeaderPreExecTd(s))

FairSpec == Spec /\ Fairness
-----------------------------------------------------------------------------
(* Properties.                                                             *)

(* Every variable holds values of the types of the program's fields.       *)
TypeOK ==
    /\ requests \subseteq Shard \X Txn
    /\ serverLogicalClock \in [Shard -> Nat]
    /\ localDdlRank \in [Shard -> [Txn -> Nat]]
    /\ agreedDdlRank \in [Shard -> [Txn -> Nat]]
    /\ agreeStatus \in [Shard -> [Txn -> AgreeStatus]]
    /\ execStatus \in [Shard -> [Txn -> ExecStatus]]
    /\ toHoldAndRelease \in [Shard -> SUBSET Txn]
    /\ holdBuffer \in [Shard -> SUBSET (Nat \X Txn)]
    /\ lastReleased \in [Shard -> [Key -> Nat]]
    /\ toDdlSync \in [Shard -> SUBSET Txn]
    /\ ddlNet \subseteq Message
    /\ ddls \in [Shard -> [Txn -> [Shard -> Nat]]]
    /\ phases \in [Shard -> [Txn -> [Shard -> 0..2]]]
    /\ toExecCheck \in [Shard -> Seq(Txn)]
    /\ execSequencers \in [Shard -> [Key -> SUBSET (Nat \X Txn)]]
    /\ entriesInSpec \in [Shard -> [Key -> Txn \cup {None}]]
    /\ candidates \in [Shard -> SUBSET Txn]
    /\ toExecQu \in [Shard -> Seq(Txn \X ExecCommand)]

HighestProposal(t, top) ==
    /\ \E p \in Participants[t] : localDdlRank[p][t] = top
    /\ \A p \in Participants[t] : localDdlRank[p][t] <= top

Complete(s, t) == agreeStatus[s][t] = "AGREE_COMPLETE"

(* A leader that completes the agreement on t holds the highest of the     *)
(* deadlines the participating leaders released t with: in particular two  *)
(* leaders never complete with different deadlines (UpdateDeadlineRecord,  *)
(* whatever the order in which the phases of the shards arrive).           *)
AgreedIsHighest ==
    \A t \in Txn : \A s \in Participants[t] :
        Complete(s, t) => HighestProposal(t, agreedDdlRank[s][t])

(* No leader completes the agreement on t while another participant still  *)
(* stands at a smaller deadline: that one has moved t to the agreed        *)
(* deadline and waited for it in its hold buffer (the second phase, meant  *)
(* to rule out timestamp inversion).                                       *)
NoneCompletesEarly ==
    \A t \in Txn : \A s, p \in Participants[t] :
        Complete(s, t) => \/ localDdlRank[p][t] = agreedDdlRank[s][t]
                          \/ phases[p][t][p] = 2

(* The verify(0) and assertions on statuses never fail: LeaderDdlSyncTd    *)
(* only dequeues entries in AGREE_INIT or AGREE_FLUSHING, a leader that    *)
(* stands lower than the others is not waiting for them, LeaderPreExecTd   *)
(* looks at no candidate with a final status, and drops no rolled-back     *)
(* candidate for want of an agreement, which would keep its keys forever.  *)
NoUnexpectedStatus ==
    /\ \A s \in Shard : \A t \in toDdlSync[s] :
          agreeStatus[s][t] \in {"AGREE_INIT", "AGREE_FLUSHING"}
    /\ \A s \in Shard, t \in Txn :
          agreeStatus[s][t] = "AGREE_CONFIRMING" => ddls[s][t][s] = agreedDdlRank[s][t]
    /\ \A s \in Shard : \A t \in candidates[s] :
          /\ execStatus[s][t] \in {"EXEC_INIT", "EXEC_SPEC", "EXEC_ROLLBACK"}
          /\ execStatus[s][t] = "EXEC_ROLLBACK" => Complete(s, t)

Logged(s, t) == execStatus[s][t] \in {"EXEC_COMMITING", "EXEC_DIRECT"}

(* Between the speculative execution of t and its commit or rollback no    *)
(* other transaction on a key of t is handed to the executing thread.      *)
SpecIsolated ==
    \A s \in Shard : \A i, j \in DOMAIN toExecQu[s] :
        LET t == toExecQu[s][i][1]
        IN  /\ i < j
            /\ toExecQu[s][i][2] = "EXEC_SPEC"
            /\ Conflict(s, t, toExecQu[s][j][1])
            => \E m \in i..j : toExecQu[s][m] \in
                   {<<t, "EXEC_COMMITING">>, <<t, "EXEC_ROLLBACK">>}

LoggedBefore(s, t, u) ==
    \E i, j \in DOMAIN toExecQu[s] :
        /\ i < j
        /\ toExecQu[s][i] \in {<<t, "EXEC_COMMITING">>, <<t, "EXEC_DIRECT">>}
        /\ toExecQu[s][j] \in {<<u, "EXEC_COMMITING">>, <<u, "EXEC_DIRECT">>}

(* t kept, on shard s, the deadline s released it with. *)
OnTime(s, t) == Complete(s, t) /\ localDdlRank[s][t] = agreedDdlRank[s][t]

(* Two conflicting transactions that both kept the deadline a leader       *)
(* released them with are logged by it in the order of their agreed        *)
(* deadlines (by txnKey when these are equal), however the threads of the  *)
(* leader interleave and whatever was rolled back in between.              *)
OnTimeOrder ==
    \A s \in Shard, t, u \in Txn :
        /\ Conflict(s, t, u)
        /\ OnTime(s, t) /\ OnTime(s, u)
        /\ LoggedBefore(s, t, u)
        => Before(<<agreedDdlRank[s][t], t>>, <<agreedDdlRank[s][u], u>>)

(* What remains of Lemma C.4 for the transactions that no deadline         *)
(* agreement has moved on either shard: two leaders log them in one order. *)
(* The leaders agree without a message about other transactions, and each  *)
(* orders by what it knows: raising deadlines in HoldReleaseTd, the queues *)
(* of LeaderPreExecTd and the rollbacks must come to the same.             *)
OnTimeSerializable ==
    \A s, r \in Shard, t, u \in Txn :
        /\ Conflict(s, t, u) /\ Conflict(r, t, u)
        /\ \A p \in {s, r} : OnTime(p, t) /\ OnTime(p, u)
        => ~ (LoggedBefore(s, t, u) /\ LoggedBefore(r, u, t))

(* The leaders of the shards implement the abstract agreement: what a      *)
(* leader released t with is its proposal, a report of phase 2 is the      *)
(* adoption of the highest one.                                            *)
ProposedDeadlines == [t \in Txn |-> [s \in Shard |->
    IF phases[s][t][s] # 0 \/ Complete(s, t) THEN localDdlRank[s][t] ELSE 0]]
AdoptedBy == [t \in Txn |-> {s \in Shard : phases[s][t][s] = 2}]
DecidedDeadlines == [t \in Txn |-> [s \in Shard |->
    IF Complete(s, t) THEN agreedDdlRank[s][t] ELSE 0]]

Agreement == INSTANCE DeadlineAgreement WITH
    proposed <- ProposedDeadlines, adopted <- AdoptedBy, decided <- DecidedDeadlines

AgreementSpec == Agreement!Spec

(* Every transaction is eventually executed for good on every shard it     *)
(* touches: no leader waits forever for a deadline, for another leader or  *)
(* for a key that was not given up.                                        *)
EveryTxnLogged ==
    \A t \in Txn : \A s \in Participants[t] : <>Logged(s, t)

(* Lemma C.4 of Tiga-technical-report.pdf: "the execution of all committed *)
(* transactions in Tiga is serializable", as "each leader executes the     *)
(* transactions following the order of their timestamps after timestamp    *)
(* agreement".  No two leaders log two conflicting transactions in         *)
(* opposite orders.                                                        *)
Serializable ==
    \A s, r \in Shard, t, u \in Txn :
        Conflict(s, t, u) /\ Conflict(r, t, u)
        => ~ (LoggedBefore(s, t, u) /\ LoggedBefore(r, u, t))
=============================================================================
