# Tiga in TLA+

Tiga (`TigaService/`, `TigaEntity/`) is a geo-distributed transaction system.
Data is partitioned over *shards*, each shard is replicated on *servers*, one
of which is the shard's leader. A coordinator stamps a transaction with a
deadline in the future and multicasts it to all servers of the shards it
touches; servers hold it until the deadline and, when clocks and estimates are
good, execute it in the same order everywhere in one wide-area round trip.
Everything else is what happens when they are not. The repository also holds
baselines built on the same libraries (Calvin, Detock, Nezha, Multi-Paxos) and
vendored code (`ncc/`, `memdb/`, `rrr/`, `concurrentqueue.h`).

This directory holds the models of Tiga, the TLC configurations that check
them, and proofs checked by TLAPS.

## 1. Inventory

### 1.1 Leader: deadline agreement and pre-execution (`TigaReplica.cc`)

| | |
|---|---|
| State | log entries (`localDdlRank_`, `agreedDdlRank_`, `agreeStatus_`, `execStatus_`), `holdBuffer_`, `lastReleasedTxnDeadlines_`, `ddlMap_`, `execSequencers_`, `entriesInSpec_`, the candidates, lock-free queues between the threads |
| Operations | `onNormalRequest`; threads `HoldReleaseTd`, `LeaderDdlSyncTd` (+ `UpdateDeadlineRecord`), `LeaderPreExecTd` (+ `AdvanceSpecExec`) |
| Interaction | requests from coordinators; deadline reports between the leaders of the shards of a transaction (RPC `DeadlineAgreement`); commands to `LeaderExecTd` |
| Hard | three threads that read each other's statuses without locks; two phases of reports out of order; skewed clocks; speculation that has to be undone |
| Correct when | all leaders of a transaction agree on one deadline, the highest; conflicting transactions are executed in the order of their deadlines, alike on all shards; a speculation is isolated until confirmed; nothing waits forever |

Modelled: `TigaSequencer`, abstract promise `DeadlineAgreement`.

### 1.2 Leader: execution and replies (`TigaReplica.cc`)

| | |
|---|---|
| State | `syncedEntries_` per key, `nextSyncedLogId_`, `nextSpecLogId_`, hash prefixes (`accumulativeHashByKey_`), replies, `pendingReconcliationRequests_`, `pendingCommitRepyHandlers_` |
| Operations | `LeaderExecTd` (`PreventiveExec`, `DetectiveExec`), `LeaderReplyTd`, `onReconcliationRequest` |
| Hard | a reply read by one thread while another executes; the second reply of a transaction must be sent by whichever comes later, the reply or the request for it |
| Correct when | the hash of a reply identifies the prefix of the log the execution read; log ids are dense; each coordinator that asks gets its second reply |

Modelled: the commands of `DetectiveExec` and the log in `ReplicatedLog`, the
replies in `TigaSlowPath`; not the hashes.

### 1.3 Replication within a shard (`TigaReplica.cc`)

| | |
|---|---|
| State | leader: `syncedLogInfoQu_`, `syncStatus_`, `committedLogId_`; follower: `holdBuffer_`, `syncedEntries_`, `nextSyncedLogId_`, `nextSpecLogId_`, pending sync messages |
| Operations | `LeaderCrossReplicaSyncTd`, `FollowerExecTd`, `FollowerReplyTd`, `FollowerCrossReplicaSyncTd`, `onInterReplicaSync`, `ProcessInterReplicaSync`, `onSyncStatus`, `onInquireServerSyncStatus` |
| Hard | a sync message that names an entry not yet received is left half done; counters read one after the other; an order statistic of sync points as the commit point |
| Correct when | a follower's synced log is a prefix of its leader's; what is reported as synced is; the commit point is on a majority |

Modelled: `TigaReplication`, abstract promise `ReplicatedLog`; the inquiries in
`TigaSlowPath`. Not the followers' hashes.

### 1.4 Coordinator (`TigaCoordinator.cc`)

| | |
|---|---|
| State | quorum set (one reply per server), view ids, sync status of the servers, one-way delays |
| Operations | `Launch`, `OnFastReply`, `OnDispatchReply`, `UpdateQuorumSet`, `AddToQuorumSet`, `isTxnCommitted`, `CheckQuorum`, `isNonSerializable`, `IssueReconcliationRequest`, `InquireServerSyncStatus`, `UpdateSyncStatus`, `Finish`, `Reset` |
| Hard | replies of two shards with different deadlines; replies of different views; a slow path that needs log sync information |
| Correct when | a transaction commits only with the same deadline on all shards, and on each shard on a super quorum that agrees or on a majority that has synced it; it is finished once, as itself |

Modelled: `TigaCoordinator` (several shards, requests and views), `TigaSlowPath`
(one shard, both sync points).

### 1.5 Failure recovery (`TigaReplicaFR.cc`)

| | |
|---|---|
| State | `gView_`, `lView_`, status, view-change quorums, recovered logs, cross-shard verification sets; configuration manager: prepared and committed views |
| Operations | heartbeats, `onFailSignal`, `ConfigManagerAction`, `onCMPrepare`, `onCMPrepareReply`, `onCMCommit`, `onViewChangeReq`, `onViewChange`, `RebuildLogs`, `ConfirmLogWithOtherLeaders`, `onCrossShardVerifyReq/Rep`, `onStartView`, `onStateTransfer` |
| Hard | crashes, late messages of old views, logs put together from quorums, all shards change view together |
| Correct when | what was committed in one view is in the logs of the next ones; all replicas that enter a view have the same log; no server goes on before all shards have recovered |

Modelled: `TigaViewChange`.

### 1.6 The rest

| Component | State and operations | Correct when |
|---|---|---|
| Multi-Paxos (`PaxosService`) | pending and committed records, quorum per slot | a committed record is on a majority, in order |
| Nezha (`NezhaService`) | deadline-ordered log, hash, commit by super quorum | committed requests have one order |
| Calvin (`CalvinService`) | epochs, pending epochs, next epoch key | schedulers of all replicas take the same order |
| Detock (`DetockService`) | home logs, dependency graph, components | conflicting transactions are ordered alike |
| State machines, generators, `memdb` | tables, executed sequentially | sequential semantics of a transaction |
| `rrr`, `concurrentqueue.h`, `ncc`, scripts, YCSB binding | vendored or glue | not Tiga's own protocol |

## 2. Plan

1. `DeadlineAgreement`, `TigaSequencer` and their proofs: what all the rest
   rests on. *Done.*
2. `ReplicatedLog`, `TigaReplication`: the log of one shard, from its leader to
   its followers, and the commit point. *Done*, with proofs.
3. `TigaSlowPath`, on top of `ReplicatedLog`: the leader's replies, the
   reconciliation of a coordinator, the inquiries, the slow commit. *Done*,
   with proofs.
4. `TigaCoordinator`: quorum sets, views and reconciliation over several shards,
   fast and slow path together. *Done*, with proofs.
5. `TigaViewChange`: configuration manager, view change and log recovery.
   *Done*, with proofs.
6. Open: hashes (`TigaFastPath`), the baselines.

One passing run per question; violation runs only for a statement of the
repository that the code does not meet.

How the modules fit. Each stands for the layer below it in the abstract form
that layer has been shown to have. `TigaSequencer` implements
`DeadlineAgreement`: one agreed deadline per transaction. `TigaReplication`
implements `ReplicatedLog`, on which `TigaSlowPath` is built (`INSTANCE`).
`TigaCoordinator` takes from them that leaders answer a reconciliation at the
agreed deadline and that sync points only grow. `TigaViewChange` takes the logs
of the shards as sequences of transactions, which the leader fills in any order
that its sequencers allow, and its followers copy.

## 3. The deadline agreement and the sequencers

### 3.1 Correspondence

| Model | Code |
|---|---|
| `ReceiveRequest` | `onNormalRequest` on a leader: an entry, its local deadline (`ClockApproach` as in the configuration), and the queue to `HoldReleaseTd` |
| `HoldNew`, `HoldFlushing` | the first half of the loop of `HoldReleaseTd`: an entry enters `holdBuffer_`, a new one with its deadline raised above what was released, a flushing one at the agreed deadline |
| `ReleaseFlushing`, `ReleaseSingleShard`, `ReleaseMultiShard` | the second half: the first entry leaves once its deadline has passed |
| `DdlSyncLocal` (phase 1 and 2), `DdlSyncRemote` | the two loops of `LeaderDdlSyncTd`, both ending in `UpdateDeadlineRecord` |
| `Conclude` | the end of `UpdateDeadlineRecord`: complete, confirm (wait), flush (move) |
| `Admit` | the first loop of `LeaderPreExecTd` |
| `CommandDirect`, `CommandSpec`, `CommandCommit`, `CommandRollback` | the branches for a candidate, each with the part of `AdvanceSpecExec` its keys enable |

Granularity. One action is what a thread does with one entry. Threads share
only the two statuses and the two deadlines of an entry and queues. A status is
written by one thread at a time and the branch that reads it does so once, so
an entry is the right grain. `LeaderPreExecTd` calls `AdvanceSpecExec` once for
the keys of a whole pass; the candidates hold disjoint keys and the pass ends
with every freed key looked at, so taking the candidates one by one with the
admissions each enables gives the same sequencers, candidates and commands per
key. `UpdateDeadlineRecord` writes `agreedDdlRank_` before `agreeStatus_` and
its readers look at the status first, so both change in one step. Queues with
several producers keep no order between producers and are sets here; RPCs
between two leaders may be overtaken, since `LeaderDdlSyncTd` reads them from a
queue with several producers. A clock reading is any value up to `MaxClock`:
clocks may be skewed and threads delayed, and the agreement must not depend on
either.

Not in this module: the view check of the handlers (no view change here), what
`LeaderExecTd` does with a command (1.2), the followers (1.3), followers'
`HoldReleaseTd` (they may drop a late transaction), and retransmission.

### 3.2 Properties and runs

| Run | Question | Properties |
|---|---|---|
| `sequencer` | two transactions conflicting on both of two shards, fair threads: does everything finish, and in one order if it is on time? | `TypeOK`, `OnTimeSerializable`, `EveryTxnLogged` |
| `sequencer_chain` | three transactions, the first on three shards, keys in a chain on one of them (one transaction has both keys): agreement, speculation and rollback in any order | `NoUnexpectedStatus`, `SpecIsolated`, `OnTimeOrder`, `AgreedIsHighest`, `NoneCompletesEarly`, `AgreementSpec` (refinement of `DeadlineAgreement`) |
| `serializable` | Lemma C.4 of the technical report | `Serializable`: **violated** |

Bounds. Two shards are the least on which an agreement can fail, three the
least on which two stragglers flush at different times, or one confirms before
another has moved. Three transactions are the least with a chain (1 waits for
2's key, 2 for 3's); in `sequencer_chain` the one in the middle has the lowest
deadline, so that it delays the first on one of its three shards only, which is
what makes the other two wait for it. That run takes requests in any order with
`ClockApproach` = "logical", where an entry is released as soon as it is first:
no clock, hence more orders of everything else. `sequencer` has synchronized
clocks. `MaxClock` bounds a reading of them and so the deadlines: a deadline is
raised at most once per transaction and never above the number of transactions
plus the largest original one, which `MaxClock` exceeds, so no release is cut
off. The third value of `ClockApproach`, "skeen", is in no run; the theorems
are for all of them. All transactions are finitely many, so the system stops
when all are logged: the configurations switch the deadlock check off, and
`EveryTxnLogged` shows that it does not stop earlier.

Fairness. `FairSpec` assumes weak fairness of each thread of each leader (the
threads are loops that never block), and of the delivery of requests and
reports (RPCs over TCP between live servers). Clocks advance, which is part of
the fairness of `HoldReleaseTd`. It is weak fairness of whole threads: within a
thread each pass takes every entry in the queue, and every entry is handled a
bounded number of times, so an enabled entry is not passed over forever in the
model either.

### 3.3 What the violation says

`Serializable`. When the agreement of a transaction completes before
`LeaderPreExecTd` first looks at it as a candidate, it is executed for good
where its *local* deadline put it (`TigaReplica.cc:523-531`); only a candidate
that had been executed speculatively is put back at its agreed deadline
(552-565). If the agreed deadline is higher, a conflicting transaction in
between is executed after it here and before it on the other shard. It does not
need a slow thread: a transaction that waits in the sequencer behind another
one has the same status.

A related disagreement has no run of its own. Section 3.2 of the technical report
says that a server "will not accept it into pq if pq has already released another
transaction T', which has a larger timestamp and has read-write or write-write
conflict with T". `HoldReleaseTd` records what it released with `localDdlRank_`
(388-391), also for a transaction that leaves the buffer a second time at its
agreed, higher deadline (`ReleaseFlushing`), so a conflicting one may enter below
it afterwards.

`OnTimeOrder` is what remains true, and is checked and proved: two transactions
that both keep the deadline of their leader are logged in its order, whatever
else is rolled back or raised around them. `OnTimeSerializable` puts it together
with the agreement: if both keep, on each of two shards they conflict on, the
deadline they were released with there, the two shards do not log them in
opposite orders, because the agreed deadlines they stand at are the same on
both. It is what remains of Lemma C.4; its premise is the program's normal case,
in which a transaction arrives before its deadline everywhere.

### 3.4 Proofs

* `TigaSequencer_proofs`: `TypeCorrect`, `Spec => []TypeOK`.
* `TigaAgreement_proofs`: `AgreementIsHighest` (`Spec => []AgreedIsHighest`),
  `CompletionWaits` (`Spec => []NoneCompletesEarly`) and `ImplementsAgreement`
  (`Spec => AgreementSpec`), for any shards, transactions, deadlines and clock
  approach.
* `TigaSpeculation_proofs`: `StatusesExpected` (`Spec => []NoUnexpectedStatus`),
  `SpeculationIsolated` (`Spec => []SpecIsolated`), `LoggedOnTime`
  (`Spec => []OnTimeOrder`) and `OnTimeInOneOrder`
  (`Spec => []OnTimeSerializable`), which follows from `LoggedOnTime` and
  `AgreementIsHighest` without an invariant of its own.

They assume the named assumptions of `TigaSequencer` only. `AgreedIsHighest` is
not inductive: it says nothing of where a deadline came from. The invariant
`IInv` has three parts. `LeaderInv` says for each leader and transaction which
queue may hold it in which status (an entry is in one of request,
`toHoldAndRelease`, `holdBuffer`, `toDdlSync`, or done), so that a local
deadline does not change any more once it was reported. `RecordInv` says that
every report on record is the local deadline (phase 1) or the highest of all
(phase 2) of the leader it names, and what each status implies about the
records. `MessageInv` says the same of the reports on their way. The highest
deadline is stable because phase 2 is only sent by a leader that has all
reports of phase 1. The lemmas of the module show each conjunct for each
action; the refinement uses the same invariant to map a first record to
`Propose`, a phase-2 record to `Adopt` and a completion to `Decide`.

`SpecIsolated` speaks of the commands that were given, not of how they came to
be given; the invariant `SInv` of `TigaSpeculation_proofs` adds the state of
`LeaderPreExecTd`. `PlaceOf`: a transaction is not yet released, in
`toExecCheck`, in the sequencers, a candidate, or done, and in one of them only,
with a status that fits (what waits in the sequencers was never executed, or
rolled back with its agreement complete). `KeysHeld`: `entriesInSpec` names a
candidate for each key it has, and a candidate holds all of its keys, hence two
candidates never conflict. `StillOpen`: a speculation that was neither committed
nor rolled back is a candidate; so whoever else takes its keys comes after its
end. `CheckedOnce`: no transaction is queued twice. The steps of the other two
threads keep all of it because they only add to `toExecCheck` what was not
released before, and because a completed agreement is final; this is where the
invariant of the agreement is used.

`OnTimeOrder` compares the logs only; `OInv`, in the second part of the module,
follows a transaction from the hold buffer to the log. `HoldOrder`: what is held
comes, on each key, after everything that was released, because
`HoldReleaseTd` raises it above `lastReleased_` and releases the first.
`CheckOrder`: `toExecCheck` is in deadline order on each key, and what is in it
comes after all that `LeaderPreExecTd` took already. `StageOf`: a released
transaction is in `toExecCheck`, the sequencers, a candidate or logged; it waits
on all of its keys, and at its local deadline until the agreement moved it.
`LoggedFirst` is the heart: before a transaction that keeps its deadline
becomes a candidate, those of smaller deadlines on its keys that keep theirs are
logged. It stands a rollback because only a transaction that was moved is rolled
back, and gives its keys up to whoever is then first. `OrderedAt` says the same
of the commands.

Model-checked only: `EveryTxnLogged` (liveness is out of the prover's reach,
as are ENABLED and recursion).

## 4. Replication within a shard

### 4.1 Correspondence

`ReplicatedLog` is what the rest of the system may rely on: the leader executes
commands (`ExecSpec`, `ExecCommit`, `ExecRollback`, `ExecDirect` are the
branches of `DetectiveExec`, in any sequence that `LeaderPreExecTd` can send),
each follower takes over the leader's log entry by entry (`Follow`) and counts
the speculative ids of entries it has (`CountSpec`). `TigaReplication` is how
the code does that.

| Model | Code |
|---|---|
| `LeaderExecTd` | `DetectiveExec`; a log id is the place in `log` |
| `LeaderCrossReplicaSyncTd` | what was logged since the last message, or only a new commit point, to all followers |
| `InterReplicaSync` | `onInterReplicaSync` up to its call of `ProcessInterReplicaSync`; with a gap the message is put aside |
| `RetryPending`, `NextPending` | `ProcessPendingInterReplicaSync`, called by `FollowerCrossReplicaSyncTd` and at the end of `onInterReplicaSync` |
| `SyncEntry`, `SyncSpecLogId`, `SyncDone` | `ProcessInterReplicaSync`: one turn of its first loop, one of its second, its end |
| `ReportSyncStatus`, `SyncStatus` | the report of `FollowerCrossReplicaSyncTd`, `onSyncStatus` |
| `ReceiveRequest` | the insertion into `cmdMap_` in `onNormalRequest` |

Granularity. `interReplicaSyncMtx_` is held while a message is processed:
`current[r]` is the message of its holder, and both threads that process
messages start only when it is free. Within the mutex each entry and each
speculative id is a step of its own, because the counters are atomics that an
inquiry, a report and the hash check read without the mutex. The handler keeps
the mutex over the messages put aside, so the next one becomes `current` in the
step that ends the one before. `pendingTigaInterReplicaSyncs_` is a map from
the first log id: a set in which no two messages have the same start.
The keys, hashes and results of an entry are left out.

A report that would not raise the leader's record is not sent in the model (it
changes nothing in `onSyncStatus`), and a follower has one report on its way at
a time; the message may be as old as one likes when it arrives. Sync messages
come in order, as RPCs of one connection do; the code that puts messages aside
is reached through requests that arrive late, and all of it is exercised.

### 4.2 Properties and runs

| Run | Question | Properties |
|---|---|---|
| `replication` | do late requests, half-processed messages and the two threads leave a follower with anything but a prefix of the log? | `TypeOK`, `SyncedIsPrefix`, `SpecCounterCovered`, `NothingLost`, `ReplicatedLogSpec` (refinement) |
| `commit_point` | section 3.7 of the technical report | `CommitPointReplicated`: **violated** |

`SyncedIsPrefix` says that a follower's log agrees with its leader's;
`SpecCounterCovered` that the second counter, which a coordinator compares with
the id of a speculative reply, is past an id only when the entry is in the
synced log; `NothingLost` is what can be said without fairness about progress:
a follower to which nothing is on its way has all that was sent and has counted
all it may. Together with the refinement they say that the protocol of pieces
is invisible.

Bounds. Three servers are the configuration of the repository's deployments and
the least with a majority; followers are symmetric (they differ by their id
only). Two transactions give two messages in any split, a message with two
entries of which the first or the second is missing, a commit-point message
between them, and a speculative id that is never logged as such (the second
transaction is executed speculatively, rolled back and executed again). The
transactions do not conflict, so that the leader's commands come in any order.
The system stops when all is logged and synced, so deadlock is not checked.
No fairness is assumed: the module states safety only.

### 4.3 What the violation says

With `replicaNum_` = 3, `tmp[replicaNum_ / 2 + 1]` is the highest of the three
sync points (`TigaReplica.cc:1406`). As soon as one follower reports any
progress, the leader's own log length becomes the commit point, although the
report asks for the sync points of f+1 servers. Followers take the commit point
over from sync messages. (With one or two servers there is no such element and
the read is undefined; the model assumes three or more, `ReplicaAssumption`.)
The followers' logs are not affected: no property above depends on the commit
point.

### 4.4 Proofs

* `TigaReplication_proofs`: `TypeCorrect`, `Spec => []TypeOK`.
* `TigaSyncedLog_proofs`: `FollowersFollow` (`Spec => []SyncedIsPrefix`),
  `SpeculationsCovered` (`Spec => []SpecCounterCovered`), `ImplementsLog`
  (`Spec => ReplicatedLogSpec`) and `NoPieceLost` (`Spec => []NothingLost`), for
  any number of servers and transactions.

They assume the named assumptions of `TigaReplication` only. `SyncedIsPrefix`
is not inductive: whether the next entry is the leader's next one depends on
what is in the messages. The invariant `IInv` (theorem `SyncInvariant`) has, for
each follower,

* `NetInv`: the messages on their way are pieces of the leader's log, each
  beginning where the one before it ends and the last one ending at
  `broadcastSynced`;
* `PendingInv`: the messages put aside are such pieces too, disjoint, and end
  before the next message on its way begins;
* `IdleInv`, `WorkInv`: while none is worked on, none is put aside that could be
  processed to its end; the one worked on is the lowest, and its entries up to
  the present one are in the log. With it, an entry taken over is the next one;
* `SpecIdInv`: a noted speculative id is that of a synced entry, or of the very
  entry whose request is missing. In the second case the loop that counts the ids
  is not reached, because `ProcessInterReplicaSync` returns before it;

and, for the leader, that speculative ids are not given out twice and that a
logged transaction gets no new one (`SpecInv`). There is one lemma per action
for the follower and one for the logs. The refinement follows: `SyncEntry` is
`Follow` or a stutter, `SyncSpecLogId` is `CountSpec`, all other steps of a
follower stutter.

`NothingLost` needs more (`NInv`): that what was received and is not synced is in
a message put aside or worked on (`HeldInv`), that only the message worked on may
be synced in part (`OthersInv`), and that an entry whose speculative id has been
counted is in no message that is still to be processed (`CountedInv`, which rests
on each transaction being logged once, `OnceInv`). The last is why a message that
is begun again does not note a counted id a second time: such an id would be the
lowest of those noted and would block the counter for good (`NotedInv`).

## 5. The slow path of one shard

### 5.1 Correspondence

`TigaSlowPath` puts the leader's replies, the inquiries and the coordinator's
slow path on top of the log of a shard, which is `ReplicatedLog` (`INSTANCE`):
what it may rely on is what `TigaReplication` has been shown to implement.

| Model | Code |
|---|---|
| `LeaderExecTd`, `QueueReply` | `DetectiveExec` with the status of the reply and `toReplyQu_` |
| `PickReply`, `SendFirst`, `SendSecond` | the first loop of `LeaderReplyTd`: the status is read; the reply filled in and sent, with the request's own handler or that of a reconciliation request, or put into `pendingEntriesToCommitReply_` |
| `CommitReply` | its second loop: a reconciliation request finds the second reply waiting, or waits for it |
| `Reconcile` | `IssueReconcliationRequest`, once another shard's leader has answered with a higher deadline |
| `Inquire`, `UpdateSyncStatus` | `onInquireServerSyncStatus`, one step per counter, and what the coordinator makes of the answer |
| `SlowCommit`, `Replicated` | the second half of `isTxnCommitted` |

Granularity. `LeaderReplyTd` and `LeaderExecTd` share the entry: a reply is two
steps, so that the execution may roll back, or execute for good, between the
read of the status and that of the log ids. The two counters of a follower are
atomics read one after the other, and each is a step. A coordinator's inquiries
to a server run on the server's thread pool (`run_async`, `TigaService.h:63-76`)
and may overlap; they are taken one after another here. `UpdateSyncStatus`
ignores an answer with no larger log id than it has, and of two that overlap each
still holds two values that the follower's counters have reached, so what they are
evidence of is the same. The queue to `LeaderReplyTd` keeps its order (one producer);
reconciliation requests come from any coordinator and are a set. The other
shards are an environment that answers with the agreed deadline.

### 5.2 Properties and runs

| Run | Question | Properties |
|---|---|---|
| `slow_path` | is what a coordinator commits replicated, and its result the logged one? | `TypeOK`, `NoReplyLost`, `SlowCommitDurable`, `ResultStands` |
| `slow_confirm` | Appendix E of the technical report | `EveryTxnConfirmed`: **violated** |

`SlowCommitDurable` and `ResultStands` are action properties, about the step that
commits. The first is not obvious because the coordinator may compare a
speculative id, which is no place in a log and is given before it is known
whether the speculation stands. The second says that the speculative
result is returned only if it stood. `NoReplyLost` is about the two maps of
`LeaderReplyTd` in which a request and a second reply wait for each other.

Both have the condition `Told`: every follower that is counted has answered an
inquiry. The constructor of `GlobalInfo` does not set `currentSyncedSpecLogIds_`
(`TigaCoordinator.cc:364-380`, and `TigaClient.cc:294` is a plain `new`), so
until then the speculative id of a reply is compared with what was in memory. The
constant `FirstSpecSynced` has the values it may hold: {0, 2} in `slow_path`,
memory that comes from the system and memory that was in use (2 is as large as
any speculative id of the run). Without `Told`, TLC finds both properties
violated in that run: a transaction is taken for replicated that only the leader
has, or the result of a speculation is returned that is then rolled back. With
{0} alone they hold without it. `slow_confirm` has {0}, so that its violation is
not due to that memory.

Bounds. Three servers, followers symmetric; two transactions, one of which
another shard raises, so that it is rolled back and replied to twice, while the
other keeps its deadline; they do not conflict, so commands come in any order.
The violation needs one transaction.

Fairness (`slow_confirm` only). Weak fairness of each thread's loop, of
`UpdateSyncStatus` and the inquiries (the daemon repeats them), and of the
followers' progress, which `TigaReplication` has.

### 5.3 What the violation says

`UpdateSyncStatus` takes both counters over only if the first has grown
(`TigaCoordinator.cc:943-949`). An answer that is read between the two steps of
a follower's sync thread is taken over with the new log id and the old
speculative id; later answers have the same log id and are ignored. If the
leader's reply was a speculative one, which has no log id, the transaction is
not confirmed until something else is logged on the shard.

### 5.4 Proofs

`TigaSlowPath_proofs`: `SlowPathTypeCorrect`, `SecondReplyNotLost`
(`Spec => []NoReplyLost`), `SlowCommitsAreDurable` (`Spec => SlowCommitDurable`)
and `ResultsStand` (`Spec => ResultStands`), for any number of servers and
transactions and any `FirstSpecSynced`. The invariant `IInv` (theorem `RepliesInvariant`) says

* of the log (`LogInv`, `SpecInv`): a transaction is logged once, followers have
  a prefix, and a follower has counted a speculative id only if it has its entry;
* of each transaction (`ReplyInv`): only an entry that has been executed for good
  is queued twice (`QueueInv`), so a second reply is always one of that
  execution; a reply with the local deadline is of a speculation that stands if
  that deadline is the agreed one (`PickedInv`, `RepliesInv`); one that is not
  the last is followed by the last (`SecondInv`), and one that was dropped has
  been asked for again (`AskedInv`).

`InquiryInv` (theorem `SyncPointsInvariant`) adds that no counter that an inquiry
has read, and none that was taken over with a log id above 0, is ahead of the
follower it is of; of a speculative counter without such a log id it says
nothing. Committing then needs a follower that has the entry (at least three
servers, `QuorumAssumption`), so the leader has logged it and the status of its
execution is final (lemma `SlowCommits`).

## 6. The coordinator

### 6.1 Correspondence

| Model | Code |
|---|---|
| `TakeReply` | `OnFastReply` and the daemon's `UpdateQuorumSet` |
| `AddToQuorumSet`, `NewQuorumSet`, `Take` | the same, with the cases of newer and older views |
| `ShardCommitted`, `ValidFast`, `ValidSlow`, `Newer`, `Older` | `isTxnCommitted`, fast and slow path |
| `isNonSerializable`, `Lower`, `WithoutLower`, `ReconciliationRequests` | `isNonSerializable`, `IssueReconcliationRequest` |
| `TakeReconciled` | the callback of a reconciliation request, which enqueues without a phase check |
| `CheckQuorum` | the daemon's pass over the quorum sets |
| `Inquiry`, `UpdateSyncStatus` | the inquiry thread and `UpdateSyncStatus` |
| `Finish` | `Finish` and the launch of the client's next request |

The servers are an environment that is allowed more than they do: each answers a
request once, in any view it has been in since the launch, with any hash and
any deadline; sync points only grow within a view. So the properties do not
depend on what 3 to 5 show of the servers. The hash of a leader's reply stands
for the deadline it executed at; `NoHash` is the reply of a follower that
carries none (`hasHash_` = 0), which counts with the leader's. The global view
and the shard's view are one number, as the configuration manager makes them.

Granularity. `viewMtx_` and the daemon's loop make one reply, one pass over a
quorum set and one sync status each a step. A reply in `replyQu_` is one not
yet taken. `committedIds` and the phases of a request are kept, since a reply
may be taken long after its request is finished.

### 6.2 Properties and runs

| Run | Question | Properties |
|---|---|---|
| `coordinator` | two requests, two shards, replies of two views, both daemons: is each committed once, as itself, at one deadline, from one view? | `TypeOK`, `CommittedAtOneDeadline`, `FinishesRequestInProcess`, `RepliesOfOneView` |
| `fast_quorum` | section 3.4 of the technical report | `FastQuorumAgrees`: **violated** |

Bounds. Two shards are the least with different deadlines; a second request on
one of them the least with a reply that is late for the first; two views the
least with a change between replies, and the change may come before, between
and after any of them, on each server separately. Two replicas per shard keep
the instance small: leader 0 in view 0 and leader 1 in view 1, with one other
server to disagree; a majority of three with one dissenter is in `fast_quorum`.
Two deadlines are a lower and a higher one. The client stops after its last
request, so deadlock is not checked. Liveness is not: progress of a coordinator
rests on the servers, of which this module says little; 5 has it for one shard.

### 6.3 What the violation says

A reply whose hash differs counts towards the super quorum if the server has
synced up to the reply's log id (`TigaCoordinator.cc:843`). A follower's reply
has no log id (`TigaReplica.cc:1099`), so the test is `>= 0`. The fast path then
commits with any three replies: in the run, follower 1 has the leader's hash and
follower 2 does not, where a super quorum of three servers needs all three. What
a majority has not synced can be lost in a view change.

### 6.4 Proofs

`TigaCoordinator_proofs`: `CoordinatorTypeCorrect`, `CommitsAtOneDeadline`,
`FinishesOwnRequest`, `CountsOneView`, for any shards, replicas, requests, hashes,
views and failed servers. The invariant (theorem `CoordinatorInvariant`) has
`OnlyRunning` (only the request in process has a quorum set) and
`EarlierCommitted`, from which late replies are dropped; and
`LeftSerializable`: no quorum set is *left* with different deadlines of all
leaders. It is why `CheckQuorum` may commit without asking `isNonSerializable`:
`UpdateQuorumSet` erases the lower ones in the step that completes them, and
what happens to a set otherwise only takes replies away (lemma
`FewerSerializable` and those around it).

## 7. View change

### 7.1 Correspondence

| Model | Code |
|---|---|
| `LeaderExec`, `FollowerExec`, `InterReplicaSync`, `Commit` | normal operation, as the layers above have it, in view 0 |
| `Kill`, `AllCommitted`, `Fail`, `Prepare`, `NewGView` | `ConfigManagerAction`, `onFailSignal`, `ActivateFailure` |
| `EnterViewChange`, `FailingViewChange` | `FailureRecovery` in `STATUS_CLEAN_BEFORE_VIEWCHANGE` and `STATUS_VIEWCHANGE`; `SendViewChange` |
| `CollectLogs`, `StateTransfer`, `RebuildLogs` | `CheckVCQuorum`, `CollectLogs`, `onStateTransfer`, `RebuildLogs` |
| `AnswerVerifyReq`, `LeaderFinalize` | `ConfirmLogWithOtherLeaders`, `SendCrossShardVerifyReplyTo`, `LeaderFinalizeRecoveredLogs`, `BroadcastStartView` |
| `FollowerFinalize` | `FollowerFinalizeRecoveredLogs` |

There is one view change: `killed_` is not reset, so the configuration manager
fails one server and starts view 1. All servers were in view 0 last, so
`lastNormalView_` is the same everywhere and is left out. The two statuses of a
server that enters the view are one step (no other thread runs then: they have
been told to stop and are waited for), and so are `STATUS_VIEWCHANGE_LOG_READY`
and the broadcast of the verification requests. Messages are delayed by
handling them late. `LeaderFinalize` uses whichever answers have come (`come`): it
does not wait for them. A coordinator commits only on what it has learnt before
the view change.

A transaction is a number, its place in the order of the deadlines. A leader logs
its transactions in any order (`MayExecute`): `AtTopofExecSequencer` orders them
per key only, so one that waits for another shard is logged after a later one with
other keys. Conflicts are not in this module, so orders that 3 excludes for
conflicting transactions are among those that are checked here.

The failure of the victim is two steps. `ActivateFailure` waits until all that is
logged is committed (`AllCommitted`), then calls `failCb_` and sets
`STATUS_FAILING` (`Fail`); the leader's threads go on until they see that status,
so more may be logged after the test, and by a pass that has begun even after the
status is set (`LeaderExec`).

The `viewId_` of a state transfer request, and of a reply with entries, is
never assigned (`TigaReplicaFR.cc:755-770`, `875-898`); what it holds is a choice
(`Indeterminate`). `recovery` has {0, 1}: the view of the receiver or another, so a
server that is asked may send no entries, and its reply may be dropped, or taken for
another server's. The two violation runs have {1}, with which every reply has its
entries and is taken, so that their violations are not due to that memory.

The configuration manager's leader waits for `size() + 1 >= replicaNum_ / 2`
replies to its prepare messages, for none with three servers. `NewGView` waits for
none with any number, which allows more than the code with four servers or more; the
replies change nothing else.

### 7.2 Properties and runs

| Run | Question | Properties |
|---|---|---|
| `recovery` | what do the new logs have, whatever the unassigned view ids hold? | `TypeOK`, `NormalAfterAllRebuilt`, `SyncedSurvives`, `SlowCommitsStay`, `StartViewContinuesLog` |
| `view_change` | Lemma C.1 of the technical report | `CommittedSurvives`: **violated** |
| `one_log` | step 5 of section 4 of the technical report | `OneLogAgain`: **violated** |

`SyncedSurvives`: a log that the new leader has rebuilt as long as the highest sync
point of the quorum has what a majority of the shard's servers has synced. The
condition is needed: when the reply of the server with that sync point is empty or
dropped, the new leader goes on with its own, shorter log, and what a majority had
synced may be missing in it. `SlowCommitsStay` is what is left of it in every case: what a
majority had synced when a coordinator committed it by that majority's sync points
stays in the logs of *a* majority, the failed server counted, although followers cut
their logs off where the StartView message begins. It is not enough for the
promise of the slow path, which is that the new leader has it.
`StartViewContinuesLog` is the assertion of `FollowerFinalizeRecoveredLogs` that
the message does not begin beyond the follower's log. `NormalAfterAllRebuilt`: no
server goes back to normal operation while the log of a shard has not been put
together from those of its servers (its leader may still be adding the answers of
other shards, as the code does not wait for them).

What `view_change` shows. `ClearContext`, in the first status, empties
`unSyncedEntries_` (`TigaReplicaFR.cc:531-534`); `BuildUnSyncedLogList`, in the
second, reads it. What servers have executed but not synced is therefore in no
message, and a transaction that was committed on the fast path, while only the
failed leader had it in its log, is gone. The failed leader stops only when its
commit point has reached its log, which does not prevent it: more may be logged
after the test, and the commit point is too high (4.3). The count of the unsynced
entries in `RebuildLogs` is never reached with an entry, so this run says nothing
of it.

What `one_log` shows. `LeaderFinalizeRecoveredLogs` takes the whole log through a
map that is ordered by deadline (436-449), and `BroadcastStartView` sends each
follower what is beyond its sync point, by position (556-573). If the old log was
not in the order of deadlines, the new leader's log is another one from some
position on, and a follower that had synced beyond it keeps the old order: here
the new leader has t1, t2 and a follower t2, t1.

Bounds. Two shards of three servers; a transaction on both and one of the
shard whose leader fails: the first is what another shard's answer may add, and
what may be logged after the second. In `recovery` the two are distributed over
the servers' logs and sync points in every way, so that the new leader's log may be
shorter than, as long as or longer than the others', and the answers of the other
shard may come before or after it finishes. With three servers, the lengths that a
follower reports and that its StartView message begins with are the same, so no log
is cut off; that needs five servers, of which one is alive and not in the quorum,
and is in the theorems (7.3), which are for any number. The failure is that
of the code (a fixed server). `recovery` has a view, `ReadAgain`, which takes
states for the same that differ only in what neither an action nor an invariant of
the run reads any more (replies, requests and answers that have been used, what a
server of the new view has executed); each is listed in `MCTigaViewChange`. Without
it the run has six times as many states and ends the same. Nothing happens after the new view has begun, so the
deadlock check is off; liveness is not stated: `CheckVCQuorum` waits for all servers
of a shard, so that the view change does not end if one of them is silent.

### 7.3 Proofs

`TigaViewChange_proofs`, for any numbers of shards and replicas, any transactions
and any `Indeterminate`:

* `NormalAfterRebuilt` (`Spec => []NormalAfterAllRebuilt`). A leader finishes
  when it has *answered* as many shards as there are others; the invariant
  `IInv` says what a request is evidence of: whoever sent it has rebuilt its
  log.
* `ViewChangeTypeCorrect` (`Spec => []TypeOK`) and `StartViewsFit`
  (`Spec => []StartViewContinuesLog`). The invariant `TInv` ties a ViewChange
  message to the log of its sender while the recovery lasts (`MessagesInv`), and
  counts: a server that is asked is heard once at most (`AskedInv`), so a leader
  that has heard as many as it has asked waits for none, and no reply comes when
  messages are not true any more.
* `SyncedIsRecovered` (`Spec => []SyncedSurvives`) and `SlowCommitsRemain`
  (`Spec => []SlowCommitsStay`).

The last two rest on `DInv`. `OldLogs`: until the recovery of a shard is finished,
all its logs are beginnings of the old leader's, whatever order that is in.
`TransferInv`: what the new leader has received from the server with the highest
sync point is nothing, or what that server's log has beyond its own, so its log
becomes that one or stays as it is (lemma `RebuiltIs`). `KeptInv`: what a follower
has of the confirmed transactions is in the part of its log that a StartView
message lets it keep. The servers that are asked, with the new leader, meet every
majority (`AskedMeetMajority`), although one is left out because it fails, and the
one with the highest sync point has what any of them has, as all logs are
beginnings of one: this gives `SyncedSurvives`. For `SlowCommitsStay` it gives that
a confirmed transaction is not beyond the highest sync point of the quorum, which
is the first place where a follower's log is cut off (`SentIsBeyond`), so whoever
has it keeps it (`HolderRemains`). Least and greatest elements of finite sets,
which the code finds with a loop, come from the library's theorems on well-founded
relations and on finite sets rather than from an induction; `ByDeadline`, a CHOOSE,
is shown to be the sorted sequence of its set.

What is not proved, because it does not hold, is that a recovered transaction
is taken over by the other shards: the answers may come after
`LeaderFinalize`.

## 8. What is proved and what is not

All theorems rest on the named assumptions of their modules only; memory that the
code reads before anything is assigned to it may hold any value (`FirstSpecSynced`,
`Indeterminate`). Liveness (`EveryTxnLogged`, `EveryTxnConfirmed`), ENABLED
and recursion are out of the prover's reach and stay with TLC; every invariant
and every safety action property of a passing run is proved, the two refinements
included.

## 9. Not modelled

* *Hashes* (1.2, 1.3): the incremental hash of a log prefix decides whether the
  fast path is taken. `TigaCoordinator` takes any hash from any server.
* `PreventiveExec` is another build of the executor.
* *Coordinator*: `Dispatch` and `OnDispatchReply` (a read that picks the
  operations before the launch), the estimates of one-way delays, which only
  move deadlines (any deadline is allowed in 3), the suspend signal, `Reset`.
* *Recovery*: `onCMCommit`, whose result nothing reads; normal operation of
  view 1; how coordinators resume; a second view change, which the code does not
  make; the loss of a whole shard.
* *Baselines* (1.6): systems of their own, to compare Tiga with. Their protocols
  share no state with Tiga's.
* Vendored code (`rrr`, `concurrentqueue.h`, `ncc`, `memdb`), which is nearly all
  of the repository's lines: the models take from it what it promises (requests
  in order per connection, at most once; FIFO per producer). State machines and
  generators are sequential code without protocol state.
