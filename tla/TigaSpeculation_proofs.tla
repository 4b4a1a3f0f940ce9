----------------------- MODULE TigaSpeculation_proofs -----------------------
(***************************************************************************)
(* What LeaderPreExecTd of TigaSequencer relies on, for any number of      *)
(* shards, transactions and keys: the statuses it finds are the ones it    *)
(* expects, a speculation keeps its keys to itself until it is committed   *)
(* or rolled back, and what keeps the deadline of its leader is logged in  *)
(* the order of these deadlines.                                           *)
(***************************************************************************)
EXTENDS TigaAgreement_proofs

USE DEF entryVars, holdVars, agreeVars, preExecVars

(* A transaction the leader has not released yet. *)
Fresh(s, t) ==
    \/ <<s, t>> \in requests
    \/ /\ agreeStatus[s][t] = "AGREE_INIT"
       /\ t \in toHoldAndRelease[s] \/ InHoldBuffer(s, t)

(* Where LeaderPreExecTd may find a transaction. *)
Checked(s, t) == \E i \in DOMAIN toExecCheck[s] : toExecCheck[s][i] = t
Waiting(s, t) == \E k \in Key : \E e \in execSequencers[s][k] : e[2] = t

(* A transaction is at one place only, with a status that fits it: what    *)
(* waits in the sequencers was never executed, or rolled back for good.    *)
PlaceOf(s, t) ==
    /\ Fresh(s, t) => ~ Checked(s, t)
    /\ Fresh(s, t) \/ Checked(s, t) =>
          /\ execStatus[s][t] = "EXEC_INIT"
          /\ ~ Waiting(s, t) /\ t \notin candidates[s]
    /\ Waiting(s, t) =>
          /\ t \notin candidates[s]
          /\ \/ execStatus[s][t] = "EXEC_INIT"
             \/ execStatus[s][t] = "EXEC_ROLLBACK" /\ Complete(s, t)
    /\ t \in candidates[s] =>
          \/ execStatus[s][t] \in {"EXEC_INIT", "EXEC_SPEC"}
          \/ execStatus[s][t] = "EXEC_ROLLBACK" /\ Complete(s, t)

CheckedOnce(s) ==
    \A i, j \in DOMAIN toExecCheck[s] : toExecCheck[s][i] = toExecCheck[s][j] => i = j

(* A candidate holds all of its keys, and nobody else holds one. *)
KeysHeld(s) ==
    /\ \A k \in Key : entriesInSpec[s][k] # None =>
          /\ entriesInSpec[s][k] \in candidates[s]
          /\ k \in LocalKeys(s, entriesInSpec[s][k])
    /\ \A t \in candidates[s] : \A k \in LocalKeys(s, t) : entriesInSpec[s][k] = t

(* The i-th command is a speculation that was ended later on. *)
Ended(s, i) ==
    \E m \in DOMAIN toExecQu[s] :
        /\ i <= m
        /\ toExecQu[s][m] \in {<<toExecQu[s][i][1], "EXEC_COMMITING">>,
                               <<toExecQu[s][i][1], "EXEC_ROLLBACK">>}

(* A speculation that was not ended is still a candidate. *)
StillOpen(s) ==
    \A i \in DOMAIN toExecQu[s] : toExecQu[s][i][2] = "EXEC_SPEC" =>
        \/ Ended(s, i)
        \/ /\ toExecQu[s][i][1] \in candidates[s]
           /\ execStatus[s][toExecQu[s][i][1]] = "EXEC_SPEC"

IsolatedAt(s) ==
    \A i, j \in DOMAIN toExecQu[s] :
        /\ i < j
        /\ toExecQu[s][i][2] = "EXEC_SPEC"
        /\ Conflict(s, toExecQu[s][i][1], toExecQu[s][j][1])
        => \E m \in i..j : toExecQu[s][m] \in
               {<<toExecQu[s][i][1], "EXEC_COMMITING">>,
                <<toExecQu[s][i][1], "EXEC_ROLLBACK">>}

PreExecInv(s) ==
    /\ \A t \in Txn : PlaceOf(s, t)
    /\ CheckedOnce(s) /\ KeysHeld(s) /\ StillOpen(s) /\ IsolatedAt(s)

(* A leader that waits for the others stands at the agreed deadline. *)
ConfirmingOf(s, t) ==
    agreeStatus[s][t] = "AGREE_CONFIRMING" => ddls[s][t][s] = agreedDdlRank[s][t]

SInv ==
    /\ \A s \in Shard : PreExecInv(s)
    /\ \A s \in Shard, t \in Txn : ConfirmingOf(s, t)

-----------------------------------------------------------------------------
(* The steps of the other threads of a leader.                             *)

(* An agreement is not taken back, and nothing is released twice. *)
Kept(s, t) ==
    /\ Complete(s, t) => Complete(s, t)'
    /\ Fresh(s, t)' => Fresh(s, t)

(* What LeaderPreExecTd of leader s works on does not change. *)
SameAtLeader(s) ==
    /\ execStatus'[s] = execStatus[s] /\ toExecCheck'[s] = toExecCheck[s]
    /\ execSequencers'[s] = execSequencers[s] /\ entriesInSpec'[s] = entriesInSpec[s]
    /\ candidates'[s] = candidates[s] /\ toExecQu'[s] = toExecQu[s]

(* A step elsewhere, or of another thread that releases nothing. *)
LEMMA PreExecKept ==
  ASSUME NEW s \in Shard, PreExecInv(s), SameAtLeader(s), \A t \in Txn : Kept(s, t)
  PROVE  PreExecInv(s)'
  <1>1. ASSUME NEW t \in Txn PROVE PlaceOf(s, t)'
    <2>1. Checked(s, t)' <=> Checked(s, t)
      BY DEF Checked, SameAtLeader
    <2>2. Waiting(s, t)' <=> Waiting(s, t)
      BY DEF Waiting, SameAtLeader
    <2> QED BY <2>1, <2>2 DEF PreExecInv, PlaceOf, Kept, SameAtLeader
  <1>2. CheckedOnce(s)' /\ KeysHeld(s)'
    BY DEF PreExecInv, CheckedOnce, KeysHeld, SameAtLeader
  <1>3. StillOpen(s)'
    BY DEF PreExecInv, StillOpen, Ended, SameAtLeader
  <1>4. IsolatedAt(s)'
    BY DEF PreExecInv, IsolatedAt, Conflict, SameAtLeader
  <1> QED BY <1>1, <1>2, <1>3, <1>4 DEF PreExecInv

(* A step of another thread that releases t at leader s. *)
LEMMA PreExecReleased ==
  ASSUME TypeOK, NEW s \in Shard, PreExecInv(s), UNCHANGED <<execStatus, preExecVars>>,
         NEW t \in Txn, toExecCheck'[s] = Append(toExecCheck[s], t),
         Fresh(s, t), ~ Fresh(s, t)', \A u \in Txn : Kept(s, u)
  PROVE  PreExecInv(s)'
  <1> DEFINE q == toExecCheck[s]
             n == Len(q)
  <1>1. /\ n \in Nat /\ DOMAIN q = 1..n /\ DOMAIN toExecCheck'[s] = 1..(n + 1)
        /\ toExecCheck'[s][n + 1] = t
        /\ \A i \in 1..n : toExecCheck'[s][i] = q[i]
    <2>1. q \in Seq(Txn)
      BY DEF TypeOK
    <2> QED BY <2>1
  <1> HIDE DEF q, n
  <1>2. ASSUME NEW u \in Txn PROVE Checked(s, u)' <=> Checked(s, u) \/ u = t
    <2>1. Checked(s, u) <=> \E i \in 1..n : q[i] = u
      BY <1>1 DEF Checked, q
    <2>2. Checked(s, u)' <=> \E i \in 1..(n + 1) : toExecCheck'[s][i] = u
      BY <1>1 DEF Checked
    <2>3. \A i \in 1..(n + 1) : i = n + 1 \/ i \in 1..n
      BY <1>1
    <2>4. n + 1 \in 1..(n + 1) /\ 1..n \subseteq 1..(n + 1)
      BY <1>1
    <2> QED BY <1>1, <2>1, <2>2, <2>3, <2>4
  <1>3. PlaceOf(s, t) /\ ~ Checked(s, t)
    BY DEF PreExecInv, PlaceOf
  <1>4. ASSUME NEW u \in Txn PROVE PlaceOf(s, u)'
    <2>1. Waiting(s, u)' <=> Waiting(s, u)
      BY DEF Waiting
    <2>2. PlaceOf(s, u) /\ Kept(s, u)
      BY DEF PreExecInv
    <2>3. CASE u = t
      BY <1>3, <2>1, <2>2, <2>3 DEF PlaceOf, Kept
    <2>4. CASE u # t
      BY <1>2, <2>1, <2>2, <2>4 DEF PlaceOf, Kept
    <2> QED BY <2>3, <2>4
  <1>5. CheckedOnce(s)'
    <2>1. \A i, j \in 1..n : q[i] = q[j] => i = j
      BY <1>1 DEF PreExecInv, CheckedOnce, q
    <2>2. \A i \in 1..n : q[i] # t
      BY <1>1, <1>3 DEF Checked, q
    <2>3. \A i \in 1..(n + 1) : i = n + 1 \/ i \in 1..n
      BY <1>1
    <2> QED BY <1>1, <2>1, <2>2, <2>3 DEF CheckedOnce
  <1>6. KeysHeld(s)' /\ StillOpen(s)' /\ IsolatedAt(s)'
    BY DEF PreExecInv, KeysHeld, StillOpen, IsolatedAt, Ended, Conflict
  <1> QED BY <1>4, <1>5, <1>6 DEF PreExecInv

(* A step that concerns t at leader s keeps the others where they are. *)
LEMMA KeptElsewhere ==
  ASSUME NEW s \in Shard, NEW t \in Txn, OnlyAt(s, t),
         NEW r \in Shard, NEW u \in Txn, <<r, u>> # <<s, t>>
  PROVE  /\ Kept(r, u)
         /\ UNCHANGED ddls => (ConfirmingOf(r, u) => ConfirmingOf(r, u)')
  <1>1. InHoldBuffer(r, u)' <=> InHoldBuffer(r, u)
    BY DEF OnlyAt, InHoldBuffer
  <1> QED BY <1>1 DEF OnlyAt, Kept, Complete, Fresh, ConfirmingOf

(* Such a step keeps the invariant when it releases nothing. *)
LEMMA OnlyAtKeeps ==
  ASSUME SInv, NEW s \in Shard, NEW t \in Txn, OnlyAt(s, t), Kept(s, t),
         UNCHANGED <<execStatus, toExecCheck, preExecVars, ddls>>, ConfirmingOf(s, t)'
  PROVE  SInv'
  <1>1. ASSUME NEW r \in Shard, NEW u \in Txn PROVE Kept(r, u) /\ ConfirmingOf(r, u)'
    <2>1. CASE <<r, u>> = <<s, t>>
      BY <2>1
    <2>2. CASE <<r, u>> # <<s, t>>
      BY <2>2, KeptElsewhere DEF SInv
    <2> QED BY <2>1, <2>2
  <1>2. ASSUME NEW r \in Shard PROVE PreExecInv(r)'
    BY <1>1, PreExecKept DEF SInv, SameAtLeader
  <1> QED BY <1>1, <1>2 DEF SInv

(* It keeps it when it releases t. *)
LEMMA OnlyAtReleases ==
  ASSUME TypeOK, SInv, NEW s \in Shard, NEW t \in Txn, OnlyAt(s, t), Kept(s, t),
         UNCHANGED <<execStatus, preExecVars, ddls>>, ConfirmingOf(s, t)',
         toExecCheck' = [toExecCheck EXCEPT ![s] = Append(@, t)],
         Fresh(s, t), ~ Fresh(s, t)'
  PROVE  SInv'
  <1>1. ASSUME NEW r \in Shard, NEW u \in Txn PROVE Kept(r, u) /\ ConfirmingOf(r, u)'
    <2>1. CASE <<r, u>> = <<s, t>>
      BY <2>1
    <2>2. CASE <<r, u>> # <<s, t>>
      BY <2>2, KeptElsewhere DEF SInv
    <2> QED BY <2>1, <2>2
  <1>2. ASSUME NEW r \in Shard PROVE PreExecInv(r)'
    <2>1. toExecCheck \in [Shard -> Seq(Txn)]
      BY DEF TypeOK
    <2>2. CASE r = s
      <3>1. toExecCheck'[s] = Append(toExecCheck[s], t)
        BY <2>1
      <3> QED BY <1>1, <2>2, <3>1, PreExecReleased DEF SInv
    <2>3. CASE r # s
      <3>1. toExecCheck'[r] = toExecCheck[r]
        BY <2>1, <2>3
      <3> QED BY <1>1, <3>1, PreExecKept DEF SInv, SameAtLeader
    <2> QED BY <2>2, <2>3
  <1> QED BY <1>1, <1>2 DEF SInv

(* A request that arrives concerns one entry. *)
LEMMA OnlyAtReceive ==
  ASSUME TypeOK, NEW s \in Shard, NEW t \in Txn, ReceiveRequest(s, t)
  PROVE  OnlyAt(s, t) /\ agreeStatus'[s][t] = "AGREE_INIT" /\ t \in toHoldAndRelease'[s]
  <1>1. PICK rank :
          /\ localDdlRank' = [localDdlRank EXCEPT ![s][t] = rank]
          /\ requests' = requests \ {<<s, t>>}
          /\ agreeStatus' = [agreeStatus EXCEPT ![s][t] = "AGREE_INIT"]
          /\ toHoldAndRelease' = [toHoldAndRelease EXCEPT ![s] = @ \cup {t}]
          /\ UNCHANGED <<agreedDdlRank, holdBuffer, toDdlSync>>
    BY DEF ReceiveRequest
  <1>2. /\ localDdlRank \in [Shard -> [Txn -> Nat]]
        /\ agreeStatus \in [Shard -> [Txn -> AgreeStatus]]
        /\ toHoldAndRelease \in [Shard -> SUBSET Txn]
    BY DEF TypeOK
  <1> QED BY <1>1, <1>2 DEF OnlyAt

(* It is fresh before and after: onNormalRequest. *)
LEMMA SReceiveRequest ==
  ASSUME TypeOK, IInv, SInv, NEW s \in Shard, NEW t \in Txn, ReceiveRequest(s, t)
  PROVE  SInv'
  <1>1. agreeStatus[s][t] = "AGREE_NONE" /\ <<s, t>> \in requests
    BY DEF ReceiveRequest, IInv, LeaderInv, QueueOf
  <1>2. OnlyAt(s, t) /\ agreeStatus'[s][t] = "AGREE_INIT"
    BY OnlyAtReceive
  <1>3. Kept(s, t) /\ ConfirmingOf(s, t)'
    BY <1>1, <1>2 DEF Kept, Complete, Fresh, ConfirmingOf
  <1>4. UNCHANGED <<execStatus, toExecCheck, preExecVars, ddls>>
    BY DEF ReceiveRequest
  <1> QED BY <1>2, <1>3, <1>4, OnlyAtKeeps

(* So does entering the hold buffer, with the local deadline or the agreed one. *)
LEMMA OnlyAtHold ==
  ASSUME TypeOK, NEW s \in Shard, NEW t \in Txn, HoldNew(s, t) \/ HoldFlushing(s, t)
  PROVE  OnlyAt(s, t)
  <1>1. PICK rank, next :
          /\ localDdlRank' = [localDdlRank EXCEPT ![s][t] = next]
          /\ holdBuffer' = [holdBuffer EXCEPT ![s] = @ \cup {<<rank, t>>}]
          /\ toHoldAndRelease' = [toHoldAndRelease EXCEPT ![s] = @ \ {t}]
    <2>1. localDdlRank = [localDdlRank EXCEPT ![s][t] = localDdlRank[s][t]]
      BY DEF TypeOK
    <2> QED BY <2>1 DEF HoldNew, HoldFlushing
  <1>2. UNCHANGED <<requests, agreedDdlRank, agreeStatus, toDdlSync>>
    BY DEF HoldNew, HoldFlushing
  <1>3. /\ localDdlRank \in [Shard -> [Txn -> Nat]]
        /\ toHoldAndRelease \in [Shard -> SUBSET Txn]
        /\ holdBuffer \in [Shard -> SUBSET (Nat \X Txn)]
    BY DEF TypeOK
  <1> QED BY <1>1, <1>2, <1>3 DEF OnlyAt

(* It releases nothing. *)
LEMMA SHold ==
  ASSUME TypeOK, IInv, SInv, NEW s \in Shard, NEW t \in Txn,
         HoldNew(s, t) \/ HoldFlushing(s, t)
  PROVE  SInv'
  <1>1. /\ t \in toHoldAndRelease[s]
        /\ UNCHANGED <<requests, agreedDdlRank, agreeStatus, ddls,
                       execStatus, toExecCheck, preExecVars>>
    BY DEF HoldNew, HoldFlushing
  <1>2. Kept(s, t) /\ ConfirmingOf(s, t)'
    BY <1>1 DEF Kept, Complete, Fresh, SInv, ConfirmingOf
  <1> QED BY <1>1, <1>2, OnlyAtHold, OnlyAtKeeps

(* So does leaving it. *)
LEMMA OnlyAtRelease ==
  ASSUME TypeOK, IInv, NEW s \in Shard, NEW e \in holdBuffer[s], NEW t, t = e[2],
         ReleaseFlushing(s, e) \/ ReleaseSingleShard(s, e) \/ ReleaseMultiShard(s, e)
  PROVE  /\ OnlyAt(s, t) /\ LeaveHoldBuffer(s, e)
         /\ t \in Txn /\ s \in Participants[t] /\ InHoldBuffer(s, t)
         /\ agreeStatus[s][t] \in {"AGREE_INIT", "AGREE_FLUSHING"} /\ ~ Fresh(s, t)'
         /\ UNCHANGED <<requests, localDdlRank, ddls, execStatus, preExecVars>>
         /\ \/ /\ agreeStatus[s][t] = "AGREE_FLUSHING"
               /\ UNCHANGED <<agreedDdlRank, agreeStatus, toExecCheck>>
            \/ /\ agreeStatus[s][t] = "AGREE_INIT"
               /\ toExecCheck' = [toExecCheck EXCEPT ![s] = Append(@, t)]
               /\ \/ UNCHANGED <<agreedDdlRank, agreeStatus>>
                  \/ /\ agreeStatus'[s][t] = "AGREE_COMPLETE"
                     /\ agreedDdlRank'[s][t] = localDdlRank[s][t]
  <1>1. LeaveHoldBuffer(s, e)
    BY DEF ReleaseFlushing, ReleaseSingleShard, ReleaseMultiShard
  <1>2. /\ t \in Txn /\ s \in Participants[t] /\ QueueOf(s, t) /\ OnItsWay(s, t)
        /\ t \notin toHoldAndRelease[s] /\ ~ InHoldBuffer(s, t)'
        /\ \A r \in Shard : \A f : (f \in holdBuffer'[r]) <=>
                                   (f \in holdBuffer[r] /\ <<r, f>> # <<s, e>>)
        /\ UNCHANGED <<requests, localDdlRank, toHoldAndRelease, ddls>>
    BY <1>1, Left
  <1>3. InHoldBuffer(s, t)
    BY DEF InHoldBuffer
  <1>4. agreeStatus[s][t] \in {"AGREE_INIT", "AGREE_FLUSHING"} /\ <<s, t>> \notin requests
    BY <1>2 DEF QueueOf
  <1>5. /\ toDdlSync \in [Shard -> SUBSET Txn]
        /\ agreedDdlRank \in [Shard -> [Txn -> Nat]]
        /\ agreeStatus \in [Shard -> [Txn -> AgreeStatus]]
    BY DEF TypeOK
  <1>6. UNCHANGED <<execStatus, preExecVars>>
    BY <1>1 DEF LeaveHoldBuffer
  <1>7. ~ Fresh(s, t)'
    BY <1>2, <1>4 DEF Fresh
  <1>8. CASE ReleaseFlushing(s, e)
    <2>1. /\ toDdlSync' = [toDdlSync EXCEPT ![s] = @ \cup {t}]
          /\ agreeStatus[s][t] = "AGREE_FLUSHING"
          /\ UNCHANGED <<agreedDdlRank, agreeStatus, toExecCheck>>
      BY <1>8 DEF ReleaseFlushing
    <2>2. OnlyAt(s, t)
      BY <1>2, <1>5, <2>1 DEF OnlyAt
    <2> QED BY <1>1, <1>2, <1>3, <1>4, <1>6, <1>7, <2>1, <2>2
  <1>9. CASE ReleaseSingleShard(s, e)
    <2>1. /\ agreedDdlRank' = [agreedDdlRank EXCEPT ![s][t] = localDdlRank[s][t]]
          /\ agreeStatus' = [agreeStatus EXCEPT ![s][t] = "AGREE_COMPLETE"]
          /\ agreeStatus[s][t] # "AGREE_FLUSHING"
          /\ toExecCheck' = [toExecCheck EXCEPT ![s] = Append(@, t)]
          /\ UNCHANGED toDdlSync
      BY <1>9 DEF ReleaseSingleShard
    <2>2. OnlyAt(s, t)
      BY <1>2, <1>5, <2>1 DEF OnlyAt
    <2>3. agreeStatus'[s][t] = "AGREE_COMPLETE" /\ agreedDdlRank'[s][t] = localDdlRank[s][t]
      BY <1>2, <1>5, <2>1
    <2> QED BY <1>1, <1>2, <1>3, <1>4, <1>6, <1>7, <2>1, <2>2, <2>3
  <1>10. CASE ReleaseMultiShard(s, e)
    <2>1. /\ toDdlSync' = [toDdlSync EXCEPT ![s] = @ \cup {t}]
          /\ agreeStatus[s][t] # "AGREE_FLUSHING"
          /\ toExecCheck' = [toExecCheck EXCEPT ![s] = Append(@, t)]
          /\ UNCHANGED <<agreedDdlRank, agreeStatus>>
      BY <1>10 DEF ReleaseMultiShard
    <2>2. OnlyAt(s, t)
      BY <1>2, <1>5, <2>1 DEF OnlyAt
    <2> QED BY <1>1, <1>2, <1>3, <1>4, <1>6, <1>7, <2>1, <2>2
  <1> QED BY <1>8, <1>9, <1>10

(* A transaction is released to LeaderPreExecTd when it leaves the hold    *)
(* buffer for the first time.                                              *)
LEMMA SRelease ==
  ASSUME TypeOK, IInv, SInv, NEW s \in Shard, NEW e \in holdBuffer[s],
         ReleaseFlushing(s, e) \/ ReleaseSingleShard(s, e) \/ ReleaseMultiShard(s, e)
  PROVE  SInv'
  <1>1. PICK t : t = e[2]
    OBVIOUS
  <1>2. /\ OnlyAt(s, t) /\ t \in Txn /\ InHoldBuffer(s, t)
        /\ agreeStatus[s][t] \in {"AGREE_INIT", "AGREE_FLUSHING"} /\ ~ Fresh(s, t)'
        /\ UNCHANGED <<ddls, execStatus, preExecVars>>
        /\ \/ /\ agreeStatus[s][t] = "AGREE_FLUSHING"
              /\ UNCHANGED <<agreedDdlRank, agreeStatus, toExecCheck>>
           \/ /\ agreeStatus[s][t] = "AGREE_INIT"
              /\ toExecCheck' = [toExecCheck EXCEPT ![s] = Append(@, t)]
              /\ \/ UNCHANGED <<agreedDdlRank, agreeStatus>>
                 \/ agreeStatus'[s][t] = "AGREE_COMPLETE"
    BY <1>1, OnlyAtRelease
  <1>3. Kept(s, t) /\ ConfirmingOf(s, t)'
    BY <1>2 DEF Kept, Complete, ConfirmingOf
  <1>4. CASE UNCHANGED toExecCheck
    BY <1>2, <1>3, <1>4, OnlyAtKeeps
  <1>5. CASE /\ agreeStatus[s][t] = "AGREE_INIT"
             /\ toExecCheck' = [toExecCheck EXCEPT ![s] = Append(@, t)]
    <2>1. Fresh(s, t)
      BY <1>2, <1>5 DEF Fresh
    <2> QED BY <1>2, <1>3, <1>5, <2>1, OnlyAtReleases
  <1> QED BY <1>2, <1>4, <1>5

(* A leader that stands at the agreed deadline stays there, whoever's      *)
(* deadline goes on record: UpdateDeadlineRecord.                          *)
LEMMA ConfirmingUpdate ==
  ASSUME TypeOK, TypeOK', IInv, Steady, NEW s \in Shard, NEW t \in Txn,
         NEW from \in Shard, NEW ddl \in Nat, NEW phase \in {1, 2},
         phases[s][t][from] < phase, s \in Participants[t],
         UpdateDeadlineRecord(s, t, from, ddl, phase),
         StatusOf(s, t)', ConfirmingOf(s, t),
         from = s => agreeStatus[s][t] # "AGREE_CONFIRMING"
  PROVE  ConfirmingOf(s, t)'
  <1> SUFFICES ASSUME agreeStatus'[s][t] = "AGREE_CONFIRMING"
               PROVE  ddls'[s][t][s] = agreedDdlRank'[s][t]
    BY DEF ConfirmingOf
  <1> DEFINE d == [ddls[s][t] EXCEPT ![from] = ddl]
             ph == [phases[s][t] EXCEPT ![from] = phase]
  <1>1. /\ ddls \in [Shard -> [Txn -> [Shard -> Nat]]]
        /\ agreedDdlRank \in [Shard -> [Txn -> Nat]]
        /\ agreeStatus \in [Shard -> [Txn -> AgreeStatus]]
        /\ phases[s][t][from] \in 0..2
    <2>1. phases \in [Shard -> [Txn -> [Shard -> 0..2]]]
      BY DEF TypeOK
    <2>2. phases[s][t][from] \in 0..2
      BY <2>1
    <2> QED BY <2>2 DEF TypeOK
  <1>2. /\ ddls' = [ddls EXCEPT ![s][t] = d]
        /\ IF \A p \in Participants[t] : ph[p] # 0
           THEN Conclude(s, t, d)
           ELSE UNCHANGED <<agreedDdlRank, agreeStatus, toHoldAndRelease>>
    <2>1. ~ (phases[s][t][from] >= phase)
      BY <1>1
    <2> QED BY <2>1 DEF UpdateDeadlineRecord
  <1>3. /\ ddls'[s][t] = d
        /\ from # s => d[s] = ddls[s][t][s]
    <2>1. ddls[s][t] \in [Shard -> Nat]
      BY <1>1
    <2>2. from # s => d[s] = ddls[s][t][s]
      BY <2>1
    <2> HIDE DEF d
    <2> QED BY <1>1, <1>2, <2>2
  <1> HIDE DEF d, ph
  <1>4. agreeStatus[s][t] = "AGREE_CONFIRMING" => from # s /\ d[s] = agreedDdlRank[s][t]
    BY <1>3 DEF ConfirmingOf
  <1>5. CASE UNCHANGED <<agreedDdlRank, agreeStatus>>
    BY <1>3, <1>4, <1>5
  <1>6. CASE Conclude(s, t, d)
    <2>1. PICK top \in {d[p] : p \in Participants[t]} :
            /\ agreedDdlRank' = [agreedDdlRank EXCEPT ![s][t] = top]
            /\ \/ agreeStatus' = [agreeStatus EXCEPT ![s][t] = "AGREE_COMPLETE"]
               \/ d[s] = top
               \/ agreeStatus' = [agreeStatus EXCEPT ![s][t] = "AGREE_FLUSHING"]
               \/ UNCHANGED agreeStatus
      BY <1>6 DEF Conclude
    <2>2. agreedDdlRank'[s][t] = top
      BY <1>1, <2>1
    <2>3. CASE d[s] = top
      BY <1>3, <2>2, <2>3
    <2>4. CASE UNCHANGED agreeStatus
      <3>1. agreeStatus[s][t] = "AGREE_CONFIRMING"
        BY <2>4
      <3>2. StatusOf(s, t)
        BY DEF IInv, LeaderInv
      <3>3. AllProposed(t) /\ HighestProposal(t, agreedDdlRank[s][t])
        BY <3>1, <3>2 DEF StatusOf, Concluded
      <3>4. PICK before \in Nat : before = agreedDdlRank[s][t]
        BY <1>1
      <3>5. HighestProposal(t, before)'
        BY <3>3, <3>4, StaysTrue
      <3>6. HighestProposal(t, agreedDdlRank[s][t])'
        BY DEF StatusOf, Concluded
      <3>7. agreedDdlRank'[s][t] = before
        <4>1. \A p \in Participants[t] : localDdlRank'[p][t] \in Nat
          BY DEF Participants, TypeOK
        <4>2. PICK p \in Participants[t] : localDdlRank'[p][t] = before
          BY <3>5 DEF HighestProposal
        <4>3. PICK r \in Participants[t] : localDdlRank'[r][t] = agreedDdlRank'[s][t]
          BY <3>6 DEF HighestProposal
        <4>4. localDdlRank'[p][t] <= agreedDdlRank'[s][t] /\ localDdlRank'[r][t] <= before
          BY <3>5, <3>6 DEF HighestProposal
        <4> QED BY <4>1, <4>2, <4>3, <4>4
      <3> QED BY <1>3, <1>4, <3>1, <3>4, <3>7
    <2>5. CASE \/ agreeStatus' = [agreeStatus EXCEPT ![s][t] = "AGREE_COMPLETE"]
               \/ agreeStatus' = [agreeStatus EXCEPT ![s][t] = "AGREE_FLUSHING"]
      BY <1>1, <2>5
    <2> QED BY <2>1, <2>3, <2>4, <2>5
  <1> QED BY <1>2, <1>5, <1>6

(* An update that keeps a completed agreement keeps the invariant. *)
LEMMA UpdatedAtKeeps ==
  ASSUME TypeOK, SInv, NEW s \in Shard, NEW t \in Txn, UpdatedAt(s, t), Outcome(s, t),
         UNCHANGED <<requests, holdBuffer, execStatus, toExecCheck, preExecVars>>,
         Complete(s, t) => Complete(s, t)', ConfirmingOf(s, t)'
  PROVE  SInv'
  <1>1. ASSUME NEW r \in Shard, NEW u \in Txn PROVE Kept(r, u) /\ ConfirmingOf(r, u)'
    <2>1. InHoldBuffer(r, u)' <=> InHoldBuffer(r, u)
      BY DEF InHoldBuffer
    <2>2. toHoldAndRelease \in [Shard -> SUBSET Txn]
      BY DEF TypeOK
    <2>3. CASE <<r, u>> = <<s, t>>
      BY <2>1, <2>3 DEF Outcome, Kept, Fresh
    <2>4. CASE <<r, u>> # <<s, t>>
      <3>1. u \in toHoldAndRelease'[r] <=> u \in toHoldAndRelease[r]
        BY <2>2, <2>4 DEF Outcome
      <3>2. /\ ddls'[r][u] = ddls[r][u] /\ agreeStatus'[r][u] = agreeStatus[r][u]
            /\ agreedDdlRank'[r][u] = agreedDdlRank[r][u]
        BY <2>4 DEF UpdatedAt
      <3> QED BY <2>1, <3>1, <3>2 DEF Kept, Fresh, Complete, ConfirmingOf, SInv
    <2> QED BY <2>3, <2>4
  <1>2. ASSUME NEW r \in Shard PROVE PreExecInv(r)'
    BY <1>1, PreExecKept DEF SInv, SameAtLeader
  <1> QED BY <1>1, <1>2 DEF SInv

(* The leader's own deadline goes on record. *)
LEMMA SDdlSyncLocal ==
  ASSUME TypeOK, TypeOK', IInv, SInv, NEW s \in Shard, NEW t \in Txn, NEW phase \in {1, 2},
         DdlSyncLocal(s, t, phase)
  PROVE  SInv'
  <1>1. /\ s \in Participants[t]
        /\ phase = 1 => agreeStatus[s][t] = "AGREE_INIT" /\ phases[s][t][s] = 0
        /\ phase = 2 => agreeStatus[s][t] = "AGREE_FLUSHING" /\ phases[s][t][s] = 1
        /\ Steady /\ StatusOf(s, t)' /\ UpdatedAt(s, t) /\ Outcome(s, t)
    BY LocalUpdate
  <1>2. PICK ddl \in Nat : UpdateDeadlineRecord(s, t, s, ddl, phase)
    <2>1. localDdlRank[s][t] \in Nat /\ agreedDdlRank[s][t] \in Nat
      BY DEF TypeOK
    <2> QED BY <2>1 DEF DdlSyncLocal
  <1>3. /\ ~ Complete(s, t) /\ agreeStatus[s][t] # "AGREE_CONFIRMING"
        /\ phases[s][t][s] < phase
    BY <1>1 DEF Complete
  <1>4. ConfirmingOf(s, t)'
    BY <1>1, <1>2, <1>3, ConfirmingUpdate DEF SInv
  <1>5. UNCHANGED <<requests, holdBuffer, execStatus, toExecCheck, preExecVars>>
    BY DEF DdlSyncLocal
  <1> QED BY <1>1, <1>3, <1>4, <1>5, UpdatedAtKeeps

(* The deadline of another leader does. *)
LEMMA SDdlSyncRemote ==
  ASSUME TypeOK, TypeOK', IInv, SInv, NEW m \in ddlNet, DdlSyncRemote(m)
  PROVE  SInv'
  <1>1. PICK s \in Shard, t \in Txn : s = m.to /\ t = m.txn
    BY DEF TypeOK, Message
  <1>2. PICK from \in Shard, ddl \in Nat, phase \in {1, 2} :
            from = m.from /\ ddl = m.ddl /\ phase = m.phase
    BY DEF TypeOK, Message
  <1>3. UNCHANGED <<requests, holdBuffer, execStatus, toExecCheck, preExecVars>>
    BY DEF DdlSyncRemote
  <1>4. CASE phases[s][t][from] >= phase
    <2>1. UNCHANGED <<ddls, phases, agreedDdlRank, agreeStatus, toHoldAndRelease>>
      BY <1>1, <1>2, <1>4 DEF DdlSyncRemote, UpdateDeadlineRecord
    <2>2. \A r \in Shard, u \in Txn : Kept(r, u) /\ (ConfirmingOf(r, u) => ConfirmingOf(r, u)')
      BY <1>3, <2>1 DEF Kept, Complete, Fresh, InHoldBuffer, ConfirmingOf
    <2>3. ASSUME NEW r \in Shard PROVE PreExecInv(r)'
      BY <1>3, <2>2, PreExecKept DEF SInv, SameAtLeader
    <2> QED BY <2>2, <2>3 DEF SInv
  <1>5. CASE phases[s][t][from] < phase
    <2>1. /\ s \in Participants[t] /\ Participants[t] # {s} /\ from # s
          /\ Steady /\ StatusOf(s, t)' /\ UpdatedAt(s, t) /\ Outcome(s, t)
      BY <1>1, <1>2, <1>5, RemoteUpdate
    <2>2. UpdateDeadlineRecord(s, t, from, ddl, phase)
      BY <1>1, <1>2 DEF DdlSyncRemote
    <2>3. ConfirmingOf(s, t)'
      BY <1>5, <2>1, <2>2, ConfirmingUpdate DEF SInv
    <2>4. Complete(s, t) => Complete(s, t)'
      BY <1>1, <1>2, <1>5, CompleteStays
    <2> QED BY <1>3, <2>1, <2>3, <2>4, UpdatedAtKeeps
  <1>6. phase \in {1, 2} /\ phases[s][t][from] \in 0..2
    <2>1. phases \in [Shard -> [Txn -> [Shard -> 0..2]]]
      BY DEF TypeOK
    <2> QED BY <2>1
  <1> QED BY <1>4, <1>5, <1>6

-----------------------------------------------------------------------------
(* The steps of LeaderPreExecTd.                                           *)

(* The order of a sequencer is strict: it has one first entry. *)
LEMMA OneFirst ==
  ASSUME NEW buffer \in SUBSET (Nat \X Txn), NEW e, NEW f, IsFirst(e, buffer), IsFirst(f, buffer)
  PROVE  e = f
  <1> SUFFICES ASSUME e # f PROVE FALSE
    OBVIOUS
  <1>1. Before(e, f) /\ Before(f, e)
    BY DEF IsFirst
  <1>2. e \in Nat \X Txn /\ f \in Nat \X Txn
    BY DEF IsFirst
  <1>3. /\ e[1] \in Nat /\ e[2] \in Nat /\ f[1] \in Nat /\ f[2] \in Nat
    BY <1>2, TxnAssumption
  <1> QED BY <1>1, <1>3 DEF Before

(* A step of LeaderPreExecTd leaves the agreement alone. *)
LEMMA NothingMoves ==
  ASSUME UNCHANGED <<requests, agreeStatus, holdVars>>
  PROVE  \A r \in Shard, u \in Txn : Kept(r, u) /\ (Fresh(r, u)' <=> Fresh(r, u))
  BY DEF Kept, Complete, Fresh, InHoldBuffer

(* The keys that t gives up go to transactions that wait for them and are  *)
(* first on all of theirs: no two of these share a key (AdvanceSpecExec).  *)
LEMMA GivesUp ==
  ASSUME TypeOK, NEW s \in Shard, NEW t \in candidates[s], KeysHeld(s),
         NEW sequencers \in [Key -> SUBSET (Nat \X Txn)], GiveUpKeys(s, t, sequencers)
  PROVE  /\ KeysHeld(s)'
         /\ \A r \in Shard : r # s =>
               /\ execSequencers'[r] = execSequencers[r]
               /\ entriesInSpec'[r] = entriesInSpec[r]
               /\ candidates'[r] = candidates[r]
         /\ \E next \in SUBSET Txn :
               /\ candidates'[s] = (candidates[s] \ {t}) \cup next
               /\ execSequencers'[s] = Without(sequencers, next)
               /\ \A u \in next : /\ \E k \in Key : \E e \in sequencers[k] : e[2] = u
                                 /\ AtTopofExecSequencer(sequencers, s, u)
  <1> DEFINE freed == [k \in Key |-> IF k \in LocalKeys(s, t) THEN None
                                    ELSE entriesInSpec[s][k]]
             next == {u \in Txn : /\ LocalKeys(s, u) \cap LocalKeys(s, t) # {}
                                  /\ AtTopofExecSequencer(sequencers, s, u)
                                  /\ CanSpecExec(freed, s, u)}
             taken(k) == {u \in next : k \in LocalKeys(s, u)}
             inSpec == [k \in Key |-> IF taken(k) = {} THEN freed[k]
                                      ELSE CHOOSE u \in taken(k) : TRUE]
  <1>1. /\ execSequencers' = [execSequencers EXCEPT ![s] = Without(sequencers, next)]
        /\ entriesInSpec' = [entriesInSpec EXCEPT ![s] = inSpec]
        /\ candidates' = [candidates EXCEPT ![s] = (@ \ {t}) \cup next]
    BY DEF GiveUpKeys
  <1>2. /\ t \in Txn /\ next \subseteq Txn
        /\ \A u \in Txn : LocalKeys(s, u) \subseteq Key
        /\ candidates[s] \subseteq Txn
    BY KeysAssumption DEF TypeOK, LocalKeys
  <1>3. ASSUME NEW u \in next
        PROVE  /\ \A k \in LocalKeys(s, u) :
                     freed[k] = None /\ \E e \in sequencers[k] : e[2] = u /\ IsFirst(e, sequencers[k])
               /\ \E k \in LocalKeys(s, u) : k \in Key
               /\ AtTopofExecSequencer(sequencers, s, u)
    BY <1>2 DEF AtTopofExecSequencer, CanSpecExec
  <1>4. ASSUME NEW u \in next, NEW v \in next, NEW k \in LocalKeys(s, u), k \in LocalKeys(s, v)
        PROVE  u = v
    <2>1. k \in Key
      BY <1>2
    <2>2. PICK e \in sequencers[k] : e[2] = u /\ IsFirst(e, sequencers[k])
      BY <1>3
    <2>3. PICK f \in sequencers[k] : f[2] = v /\ IsFirst(f, sequencers[k])
      BY <1>3, <1>4
    <2>4. sequencers[k] \in SUBSET (Nat \X Txn)
      BY <2>1
    <2>5. e = f
      BY <2>2, <2>3, <2>4, OneFirst
    <2> QED BY <2>2, <2>3, <2>5
  <1>5. \A k \in Key : freed[k] = IF k \in LocalKeys(s, t) THEN None ELSE entriesInSpec[s][k]
    OBVIOUS
  <1> HIDE DEF freed, next
  <1>6. ASSUME NEW k \in Key, NEW u \in next, k \in LocalKeys(s, u) PROVE inSpec[k] = u
    <2>1. u \in taken(k)
      BY <1>6
    <2>2. \A v \in taken(k) : v = u
      BY <1>4, <1>6
    <2> QED BY <2>1, <2>2
  <1>7. ASSUME NEW k \in Key, \A u \in next : k \notin LocalKeys(s, u) PROVE inSpec[k] = freed[k]
    BY <1>7
  <1> HIDE DEF inSpec, taken
  <1>8. /\ execSequencers'[s] = Without(sequencers, next)
        /\ entriesInSpec'[s] = inSpec
        /\ candidates'[s] = (candidates[s] \ {t}) \cup next
    BY <1>1 DEF TypeOK
  <1>9. ASSUME NEW k \in Key, inSpec[k] # None
        PROVE  inSpec[k] \in candidates'[s] /\ k \in LocalKeys(s, inSpec[k])
    <2>1. CASE \E u \in next : k \in LocalKeys(s, u)
      BY <1>6, <1>8, <2>1
    <2>2. CASE \A u \in next : k \notin LocalKeys(s, u)
      <3>1. inSpec[k] = freed[k]
        BY <1>7, <2>2
      <3>2. k \notin LocalKeys(s, t) /\ inSpec[k] = entriesInSpec[s][k]
        BY <1>5, <1>9, <3>1
      <3> QED BY <1>8, <1>9, <3>2 DEF KeysHeld
    <2> QED BY <2>1, <2>2
  <1>10. ASSUME NEW u \in candidates'[s], NEW k \in LocalKeys(s, u) PROVE inSpec[k] = u
    <2>1. u \in Txn /\ k \in Key
      BY <1>2, <1>8
    <2>2. CASE u \in next
      BY <1>6, <2>1, <2>2
    <2>3. CASE u \in candidates[s] /\ u # t
      <3>1. entriesInSpec[s][k] = u
        BY <2>3 DEF KeysHeld
      <3>2. k \notin LocalKeys(s, t)
        BY <2>3, <3>1 DEF KeysHeld
      <3>3. freed[k] = u /\ u # None
        BY <1>5, <2>1, <3>1, <3>2, TxnAssumption
      <3>4. \A v \in next : k \notin LocalKeys(s, v)
        BY <1>3, <3>3
      <3> QED BY <1>7, <2>1, <3>3, <3>4
    <2> QED BY <1>8, <2>2, <2>3
  <1>11. KeysHeld(s)'
    BY <1>8, <1>9, <1>10 DEF KeysHeld, LocalKeys
  <1>12. \A r \in Shard : r # s =>
            /\ execSequencers'[r] = execSequencers[r]
            /\ entriesInSpec'[r] = entriesInSpec[r]
            /\ candidates'[r] = candidates[r]
    BY <1>1 DEF TypeOK
  <1> QED BY <1>2, <1>3, <1>8, <1>11, <1>12

(* Handing out a command for a candidate t: no speculation of a conflicting*)
(* transaction is open, for that one would hold a key of t; and none of t  *)
(* is left open without t being a candidate.                               *)
LEMMA Commanded ==
  ASSUME TypeOK, NEW s \in Shard, NEW t \in candidates[s], PreExecInv(s),
         NEW cmd \in ExecCommand, Command(s, t, cmd),
         execStatus[s][t] = "EXEC_SPEC" => cmd \in {"EXEC_COMMITING", "EXEC_ROLLBACK"},
         cmd = "EXEC_SPEC" => t \in candidates'[s],
         candidates[s] \ {t} \subseteq candidates'[s]
  PROVE  StillOpen(s)' /\ IsolatedAt(s)'
  <1> DEFINE q == toExecQu[s]
             n == Len(q)
  <1>1. /\ t \in Txn /\ candidates[s] \subseteq Txn
        /\ q \in Seq(Txn \X ExecCommand)
    BY DEF TypeOK
  <1>2. toExecQu'[s] = Append(q, <<t, cmd>>)
    BY DEF Command, TypeOK
  <1>3. /\ n \in Nat /\ DOMAIN q = 1..n /\ DOMAIN toExecQu'[s] = 1..(n + 1)
        /\ toExecQu'[s][n + 1] = <<t, cmd>>
        /\ \A i \in 1..n : toExecQu'[s][i] = q[i]
    BY <1>1, <1>2
  <1>4. /\ execStatus'[s][t] = cmd
        /\ \A u \in Txn \ {t} : execStatus'[s][u] = execStatus[s][u]
    <2>1. execStatus \in [Shard -> [Txn -> ExecStatus]]
      BY DEF TypeOK
    <2> QED BY <1>1, <2>1 DEF Command
  <1>5. \A i \in 1..n : q[i][1] \in Txn
    BY <1>1
  <1> HIDE DEF q, n
  <1>6. /\ n + 1 \in 1..(n + 1) /\ 1..n \subseteq 1..(n + 1)
        /\ \A i \in 1..(n + 1) : i = n + 1 \/ i \in 1..n
        /\ \A i \in 1..n : i <= n + 1
    BY <1>3
  <1>7. ASSUME NEW i \in 1..n, Ended(s, i)
        PROVE  \E m \in 1..n : /\ i <= m
                               /\ q[m] \in {<<q[i][1], "EXEC_COMMITING">>,
                                            <<q[i][1], "EXEC_ROLLBACK">>}
    BY <1>3, <1>7 DEF Ended, q
  <1>8. ASSUME NEW i \in 1..n, Ended(s, i) PROVE Ended(s, i)'
    <2>1. PICK m \in 1..n : /\ i <= m
                            /\ q[m] \in {<<q[i][1], "EXEC_COMMITING">>,
                                         <<q[i][1], "EXEC_ROLLBACK">>}
      BY <1>7, <1>8
    <2> QED BY <1>3, <1>6, <2>1 DEF Ended
  <1>9. ASSUME NEW i \in 1..n, q[i][2] = "EXEC_SPEC", ~ Ended(s, i)
        PROVE  q[i][1] \in candidates[s] /\ execStatus[s][q[i][1]] = "EXEC_SPEC"
    BY <1>3, <1>9 DEF PreExecInv, StillOpen, q
  <1>10. StillOpen(s)'
    <2> SUFFICES ASSUME NEW i \in 1..(n + 1), toExecQu'[s][i][2] = "EXEC_SPEC", ~ Ended(s, i)'
                 PROVE  /\ toExecQu'[s][i][1] \in candidates'[s]
                        /\ execStatus'[s][toExecQu'[s][i][1]] = "EXEC_SPEC"
      BY <1>3 DEF StillOpen
    <2>1. CASE i = n + 1
      <3>1. toExecQu'[s][i] = <<t, cmd>>
        BY <1>3, <2>1
      <3>2. cmd = "EXEC_SPEC"
        BY <3>1
      <3> QED BY <1>4, <3>1, <3>2
    <2>2. CASE i \in 1..n
      <3>1. toExecQu'[s][i] = q[i]
        BY <1>3, <2>2
      <3>2. q[i][1] \in candidates[s] /\ execStatus[s][q[i][1]] = "EXEC_SPEC"
        BY <1>8, <1>9, <2>2, <3>1
      <3>3. q[i][1] # t
        <4> SUFFICES ASSUME q[i][1] = t PROVE FALSE
          OBVIOUS
        <4>1. cmd \in {"EXEC_COMMITING", "EXEC_ROLLBACK"}
          BY <3>2
        <4>2. Ended(s, i)'
          BY <1>3, <1>6, <2>2, <3>1, <4>1 DEF Ended
        <4> QED BY <4>2
      <3> QED BY <1>4, <1>5, <2>2, <3>1, <3>2, <3>3
    <2> QED BY <1>6, <2>1, <2>2
  <1>11. IsolatedAt(s)'
    <2> SUFFICES ASSUME NEW i \in 1..(n + 1), NEW j \in 1..(n + 1), i < j,
                        toExecQu'[s][i][2] = "EXEC_SPEC",
                        Conflict(s, toExecQu'[s][i][1], toExecQu'[s][j][1])
                 PROVE  \E m \in i..j : toExecQu'[s][m] \in
                           {<<toExecQu'[s][i][1], "EXEC_COMMITING">>,
                            <<toExecQu'[s][i][1], "EXEC_ROLLBACK">>}
      BY <1>3 DEF IsolatedAt, Conflict, LocalKeys
    <2>1. i \in 1..n
      BY <1>3
    <2>2. toExecQu'[s][i] = q[i]
      BY <1>3, <2>1
    <2>3. CASE j \in 1..n
      <3>1. toExecQu'[s][j] = q[j]
        BY <1>3, <2>3
      <3>2. PICK m \in i..j : q[m] \in {<<q[i][1], "EXEC_COMMITING">>,
                                        <<q[i][1], "EXEC_ROLLBACK">>}
        BY <1>3, <2>1, <2>2, <2>3, <3>1 DEF PreExecInv, IsolatedAt, q
      <3>3. m \in 1..n
        BY <1>3, <2>1, <2>3
      <3> QED BY <1>3, <2>2, <3>2, <3>3
    <2>4. CASE j = n + 1
      <3>1. toExecQu'[s][j] = <<t, cmd>>
        BY <1>3, <2>4
      <3>2. Conflict(s, q[i][1], t)
        BY <2>2, <3>1
      <3>3. Ended(s, i)
        <4> SUFFICES ASSUME ~ Ended(s, i) PROVE FALSE
          OBVIOUS
        <4>1. q[i][1] \in candidates[s]
          BY <1>9, <2>1, <2>2
        <4>2. PICK k \in LocalKeys(s, q[i][1]) : k \in LocalKeys(s, t)
          BY <3>2 DEF Conflict
        <4>3. entriesInSpec[s][k] = q[i][1] /\ entriesInSpec[s][k] = t
          BY <4>1, <4>2 DEF PreExecInv, KeysHeld
        <4> QED BY <3>2, <4>3 DEF Conflict
      <3>4. PICK m \in 1..n : /\ i <= m
                              /\ q[m] \in {<<q[i][1], "EXEC_COMMITING">>,
                                           <<q[i][1], "EXEC_ROLLBACK">>}
        BY <1>7, <2>1, <3>3
      <3>5. m \in i..j /\ toExecQu'[s][m] = q[m]
        BY <1>3, <2>1, <2>4, <3>4
      <3> QED BY <2>2, <3>4, <3>5
    <2> QED BY <1>6, <2>3, <2>4
  <1> QED BY <1>10, <1>11

(* A command that ends the stay of t: it is logged, or goes back into the  *)
(* sequencers at the agreed deadline.                                      *)
LEMMA SCommandEnds ==
  ASSUME TypeOK, SInv, NEW s \in Shard, NEW t \in candidates[s],
         NEW cmd \in {"EXEC_DIRECT", "EXEC_COMMITING", "EXEC_ROLLBACK"},
         Command(s, t, cmd),
         cmd = "EXEC_DIRECT" => execStatus[s][t] # "EXEC_SPEC",
         cmd = "EXEC_ROLLBACK" => Complete(s, t),
         NEW sequencers \in [Key -> SUBSET (Nat \X Txn)], GiveUpKeys(s, t, sequencers),
         \A k \in Key : \A e \in sequencers[k] :
             e \in execSequencers[s][k] \/ (e[2] = t /\ cmd = "EXEC_ROLLBACK")
  PROVE  SInv'
  <1>1. PreExecInv(s)
    BY DEF SInv
  <1>2. t \in Txn /\ candidates[s] \subseteq Txn /\ cmd \in ExecCommand
    BY DEF TypeOK, ExecCommand, ExecStatus
  <1>3. /\ KeysHeld(s)'
        /\ \A r \in Shard : r # s =>
              /\ execSequencers'[r] = execSequencers[r]
              /\ entriesInSpec'[r] = entriesInSpec[r]
              /\ candidates'[r] = candidates[r]
    BY <1>1, GivesUp DEF PreExecInv
  <1>4. PICK next \in SUBSET Txn :
          /\ candidates'[s] = (candidates[s] \ {t}) \cup next
          /\ execSequencers'[s] = Without(sequencers, next)
          /\ \A u \in next : \E k \in Key : \E e \in sequencers[k] : e[2] = u
    BY <1>1, GivesUp DEF PreExecInv
  <1>5. /\ execStatus'[s][t] = cmd
        /\ \A u \in Txn \ {t} : execStatus'[s][u] = execStatus[s][u]
        /\ \A r \in Shard : r # s => execStatus'[r] = execStatus[r] /\ toExecQu'[r] = toExecQu[r]
    <2>1. /\ execStatus \in [Shard -> [Txn -> ExecStatus]]
          /\ toExecQu \in [Shard -> Seq(Txn \X ExecCommand)]
      BY DEF TypeOK
    <2>2. /\ execStatus' = [execStatus EXCEPT ![s][t] = cmd]
          /\ toExecQu' = [toExecQu EXCEPT ![s] = Append(@, <<t, cmd>>)]
      BY DEF Command
    <2>3. \A r \in Shard : r # s => toExecQu'[r] = toExecQu[r]
      BY <2>1, <2>2
    <2> QED BY <1>2, <2>1, <2>2, <2>3
  <1>6. /\ UNCHANGED <<requests, agreedDdlRank, agreeStatus, holdVars, ddls, toExecCheck>>
        /\ \A r \in Shard, u \in Txn : Kept(r, u) /\ (Fresh(r, u)' <=> Fresh(r, u))
    BY NothingMoves DEF Command
  <1>7. ASSUME NEW u \in Txn PROVE PlaceOf(s, u)'
    <2>1. PlaceOf(s, u)
      BY <1>1 DEF PreExecInv
    <2>2. /\ Checked(s, u)' <=> Checked(s, u)
          /\ Complete(s, u)' <=> Complete(s, u)
          /\ Fresh(s, u)' <=> Fresh(s, u)
      BY <1>6 DEF Checked, Complete
    <2>3. ASSUME NEW k \in Key, NEW e \in sequencers[k], e[2] = u
          PROVE  Waiting(s, u) \/ (u = t /\ cmd = "EXEC_ROLLBACK")
      BY <2>3 DEF Waiting
    <2>4. Waiting(s, u)' => /\ u \notin next
                            /\ Waiting(s, u) \/ (u = t /\ cmd = "EXEC_ROLLBACK")
      BY <1>4, <2>3 DEF Waiting, Without
    <2>5. u \in next => Waiting(s, u) \/ (u = t /\ cmd = "EXEC_ROLLBACK")
      BY <1>4, <2>3
    <2>6. CASE u = t
      BY <1>4, <1>5, <2>1, <2>2, <2>4, <2>5, <2>6 DEF PlaceOf
    <2>7. CASE u # t
      BY <1>4, <1>5, <2>1, <2>2, <2>4, <2>5, <2>7 DEF PlaceOf
    <2> QED BY <2>6, <2>7
  <1>8. StillOpen(s)' /\ IsolatedAt(s)'
    <2>1. execStatus[s][t] = "EXEC_SPEC" => cmd \in {"EXEC_COMMITING", "EXEC_ROLLBACK"}
      OBVIOUS
    <2> QED BY <1>1, <1>2, <1>4, <2>1, Commanded
  <1>9. PreExecInv(s)'
    <2>1. CheckedOnce(s)'
      BY <1>1, <1>6 DEF PreExecInv, CheckedOnce
    <2> QED BY <1>3, <1>7, <1>8, <2>1 DEF PreExecInv
  <1>10. ASSUME NEW r \in Shard, r # s PROVE PreExecInv(r)'
    <2>1. SameAtLeader(r)
      BY <1>3, <1>5, <1>6, <1>10 DEF SameAtLeader
    <2> QED BY <1>6, <2>1, PreExecKept DEF SInv
  <1>11. \A r \in Shard, u \in Txn : ConfirmingOf(r, u)'
    BY <1>6 DEF SInv, ConfirmingOf
  <1> QED BY <1>9, <1>10, <1>11 DEF SInv

(* A speculation keeps its place and its keys. *)
LEMMA SCommandSpec ==
  ASSUME TypeOK, SInv, NEW s \in Shard, NEW t \in candidates[s], CommandSpec(s, t)
  PROVE  SInv'
  <1>1. PreExecInv(s)
    BY DEF SInv
  <1>2. t \in Txn /\ candidates[s] \subseteq Txn /\ "EXEC_SPEC" \in ExecCommand
    BY DEF TypeOK, ExecCommand, ExecStatus
  <1>3. /\ Command(s, t, "EXEC_SPEC") /\ execStatus[s][t] = "EXEC_INIT"
        /\ UNCHANGED <<execSequencers, entriesInSpec, candidates>>
    BY DEF CommandSpec
  <1>4. /\ execStatus'[s][t] = "EXEC_SPEC"
        /\ \A u \in Txn \ {t} : execStatus'[s][u] = execStatus[s][u]
        /\ \A r \in Shard : r # s => execStatus'[r] = execStatus[r] /\ toExecQu'[r] = toExecQu[r]
    <2>1. /\ execStatus \in [Shard -> [Txn -> ExecStatus]]
          /\ toExecQu \in [Shard -> Seq(Txn \X ExecCommand)]
      BY DEF TypeOK
    <2>2. /\ execStatus' = [execStatus EXCEPT ![s][t] = "EXEC_SPEC"]
          /\ toExecQu' = [toExecQu EXCEPT ![s] = Append(@, <<t, "EXEC_SPEC">>)]
      BY <1>3 DEF Command
    <2>3. \A r \in Shard : r # s => toExecQu'[r] = toExecQu[r]
      BY <2>1, <2>2
    <2> QED BY <1>2, <2>1, <2>2, <2>3
  <1>5. /\ UNCHANGED <<requests, agreedDdlRank, agreeStatus, holdVars, ddls, toExecCheck>>
        /\ \A r \in Shard, u \in Txn : Kept(r, u) /\ (Fresh(r, u)' <=> Fresh(r, u))
    BY <1>3, NothingMoves DEF Command
  <1>6. ASSUME NEW u \in Txn PROVE PlaceOf(s, u)'
    <2>1. PlaceOf(s, u)
      BY <1>1 DEF PreExecInv
    <2>2. /\ Checked(s, u)' <=> Checked(s, u)
          /\ Waiting(s, u)' <=> Waiting(s, u)
          /\ Complete(s, u)' <=> Complete(s, u)
          /\ Fresh(s, u)' <=> Fresh(s, u)
      BY <1>3, <1>5 DEF Checked, Waiting, Complete
    <2>3. CASE u = t
      BY <1>3, <1>4, <2>1, <2>2, <2>3 DEF PlaceOf
    <2>4. CASE u # t
      BY <1>3, <1>4, <2>1, <2>2, <2>4 DEF PlaceOf
    <2> QED BY <2>3, <2>4
  <1>7. StillOpen(s)' /\ IsolatedAt(s)'
    BY <1>1, <1>2, <1>3, Commanded
  <1>8. PreExecInv(s)'
    <2>1. CheckedOnce(s)' /\ KeysHeld(s)'
      BY <1>1, <1>3, <1>5 DEF PreExecInv, CheckedOnce, KeysHeld
    <2> QED BY <1>6, <1>7, <2>1 DEF PreExecInv
  <1>9. ASSUME NEW r \in Shard, r # s PROVE PreExecInv(r)'
    <2>1. SameAtLeader(r)
      BY <1>3, <1>4, <1>5, <1>9 DEF SameAtLeader
    <2> QED BY <1>5, <2>1, PreExecKept DEF SInv
  <1>10. \A r \in Shard, u \in Txn : ConfirmingOf(r, u)'
    BY <1>5 DEF SInv, ConfirmingOf
  <1> QED BY <1>8, <1>9, <1>10 DEF SInv

(* The sequencers of s once t has entered them. *)
Entered(s, t) ==
    [k \in Key |-> IF k \in LocalKeys(s, t)
                   THEN execSequencers[s][k] \cup {<<localDdlRank[s][t], t>>}
                   ELSE execSequencers[s][k]]

(* A released transaction t moves on to the sequencers, or straight to the *)
(* candidates.                                                             *)
Admits(s, t, sequencers) ==
    /\ t \in Txn /\ 1 \in DOMAIN toExecCheck[s] /\ toExecCheck[s][1] = t
    /\ sequencers \in [Key -> SUBSET (Nat \X Txn)]
    /\ \A u \in Txn : Checked(s, u)' <=> Checked(s, u) /\ u # t
    /\ \A i \in DOMAIN toExecCheck'[s] :
          /\ i \in Nat /\ i + 1 \in DOMAIN toExecCheck[s]
          /\ toExecCheck'[s][i] = toExecCheck[s][i + 1]
    /\ \A i \in DOMAIN toExecCheck[s] : i = 1 \/ 1 < i
    /\ \/ /\ AtTopofExecSequencer(sequencers, s, t)
          /\ CanSpecExec(entriesInSpec[s], s, t)
          /\ execSequencers'[s] = Without(sequencers, {t})
          /\ \A k \in Key : entriesInSpec'[s][k] =
                IF k \in LocalKeys(s, t) THEN t ELSE entriesInSpec[s][k]
          /\ candidates'[s] = candidates[s] \cup {t}
       \/ /\ ~ (/\ AtTopofExecSequencer(sequencers, s, t)
                /\ CanSpecExec(entriesInSpec[s], s, t))
          /\ execSequencers'[s] = sequencers
          /\ entriesInSpec'[s] = entriesInSpec[s] /\ candidates'[s] = candidates[s]
    /\ \A r \in Shard : r # s => SameAtLeader(r)
    /\ UNCHANGED <<requests, entryVars, holdVars, ddls, toExecQu>>

(* This is what Admit does. *)
LEMMA AdmitStep ==
  ASSUME TypeOK, NEW s \in Shard, CheckedOnce(s), Admit(s),
         NEW t, t = Head(toExecCheck[s]), NEW sequencers, sequencers = Entered(s, t)
  PROVE  Admits(s, t, sequencers)
  <1> DEFINE q == toExecCheck[s]
             n == Len(q)
  <1>1. /\ toExecCheck \in [Shard -> Seq(Txn)] /\ candidates \in [Shard -> SUBSET Txn]
        /\ execSequencers \in [Shard -> [Key -> SUBSET (Nat \X Txn)]]
        /\ entriesInSpec \in [Shard -> [Key -> Txn \cup {None}]]
        /\ localDdlRank \in [Shard -> [Txn -> Nat]]
    BY DEF TypeOK
  <1>2. /\ toExecCheck' = [toExecCheck EXCEPT ![s] = Tail(@)] /\ q # <<>>
        /\ UNCHANGED <<requests, entryVars, holdVars, ddls, toExecQu>>
    BY DEF Admit
  <1>3. \/ /\ AtTopofExecSequencer(sequencers, s, t)
           /\ CanSpecExec(entriesInSpec[s], s, t)
           /\ execSequencers' = [execSequencers EXCEPT ![s] = Without(sequencers, {t})]
           /\ entriesInSpec' = [entriesInSpec EXCEPT ![s] =
                  [k \in Key |-> IF k \in LocalKeys(s, t) THEN t ELSE @[k]]]
           /\ candidates' = [candidates EXCEPT ![s] = @ \cup {t}]
        \/ /\ ~ (/\ AtTopofExecSequencer(sequencers, s, t)
                 /\ CanSpecExec(entriesInSpec[s], s, t))
           /\ execSequencers' = [execSequencers EXCEPT ![s] = sequencers]
           /\ UNCHANGED <<entriesInSpec, candidates>>
    BY DEF Admit, Entered
  <1>4. /\ n \in Nat /\ n # 0 /\ t \in Txn /\ t = q[1]
        /\ DOMAIN q = 1..n /\ DOMAIN Tail(q) = 1..(n - 1)
        /\ \A i \in 1..(n - 1) : Tail(q)[i] = q[i + 1]
    BY <1>1, <1>2
  <1>5. toExecCheck'[s] = Tail(q) /\ \A r \in Shard : r # s => toExecCheck'[r] = toExecCheck[r]
    BY <1>1, <1>2
  <1>6. sequencers \in [Key -> SUBSET (Nat \X Txn)]
    BY <1>1, <1>4 DEF Entered
  <1> HIDE DEF q, n
  <1>7. \/ /\ AtTopofExecSequencer(sequencers, s, t)
           /\ CanSpecExec(entriesInSpec[s], s, t)
           /\ execSequencers'[s] = Without(sequencers, {t})
           /\ \A k \in Key : entriesInSpec'[s][k] =
                 IF k \in LocalKeys(s, t) THEN t ELSE entriesInSpec[s][k]
           /\ candidates'[s] = candidates[s] \cup {t}
        \/ /\ ~ (/\ AtTopofExecSequencer(sequencers, s, t)
                 /\ CanSpecExec(entriesInSpec[s], s, t))
           /\ execSequencers'[s] = sequencers
           /\ entriesInSpec'[s] = entriesInSpec[s] /\ candidates'[s] = candidates[s]
    <2>1. CASE /\ AtTopofExecSequencer(sequencers, s, t)
               /\ CanSpecExec(entriesInSpec[s], s, t)
      <3>1. /\ execSequencers' = [execSequencers EXCEPT ![s] = Without(sequencers, {t})]
            /\ entriesInSpec' = [entriesInSpec EXCEPT ![s] =
                   [k \in Key |-> IF k \in LocalKeys(s, t) THEN t ELSE @[k]]]
            /\ candidates' = [candidates EXCEPT ![s] = @ \cup {t}]
        BY <1>3, <2>1
      <3>2. execSequencers'[s] = Without(sequencers, {t}) /\ candidates'[s] = candidates[s] \cup {t}
        BY <1>1, <3>1
      <3>3. \A k \in Key : entriesInSpec'[s][k] =
               IF k \in LocalKeys(s, t) THEN t ELSE entriesInSpec[s][k]
        BY <1>1, <3>1
      <3> QED BY <2>1, <3>2, <3>3
    <2>2. CASE ~ (/\ AtTopofExecSequencer(sequencers, s, t)
                  /\ CanSpecExec(entriesInSpec[s], s, t))
      <3>1. /\ execSequencers' = [execSequencers EXCEPT ![s] = sequencers]
            /\ UNCHANGED <<entriesInSpec, candidates>>
        BY <1>3, <2>2
      <3> QED BY <1>1, <2>2, <3>1
    <2> QED BY <2>1, <2>2
  <1>8. \A r \in Shard : r # s => SameAtLeader(r)
    <2>1. \A r \in Shard : r # s => /\ execSequencers'[r] = execSequencers[r]
                                    /\ entriesInSpec'[r] = entriesInSpec[r]
                                    /\ candidates'[r] = candidates[r]
      BY <1>1, <1>3
    <2> QED BY <1>2, <1>5, <2>1 DEF SameAtLeader
  <1>9. ASSUME NEW u \in Txn PROVE Checked(s, u)' <=> Checked(s, u) /\ u # t
    <2>1. Checked(s, u) <=> \E i \in 1..n : q[i] = u
      BY <1>4 DEF Checked, q
    <2>2. Checked(s, u)' <=> \E i \in 1..(n - 1) : q[i + 1] = u
      BY <1>4, <1>5 DEF Checked
    <2>3. /\ \A i \in 1..n : i = 1 \/ (i - 1 \in 1..(n - 1) /\ (i - 1) + 1 = i)
          /\ \A i \in 1..(n - 1) : i + 1 \in 1..n /\ i + 1 # 1
          /\ 1 \in 1..n
      BY <1>4
    <2>4. \A i \in 1..n : q[i] = q[1] => i = 1
      BY <1>4, <2>3 DEF CheckedOnce, q
    <2> QED BY <1>4, <2>1, <2>2, <2>3, <2>4
  <1>10. /\ 1 \in 1..n /\ \A i \in 1..n : i = 1 \/ 1 < i
         /\ \A i \in 1..(n - 1) : i \in Nat /\ i + 1 \in 1..n
    BY <1>4
  <1>11. /\ 1 \in DOMAIN toExecCheck[s] /\ toExecCheck[s][1] = t
         /\ \A i \in DOMAIN toExecCheck[s] : i = 1 \/ 1 < i
         /\ \A i \in DOMAIN toExecCheck'[s] :
               /\ i \in Nat /\ i + 1 \in DOMAIN toExecCheck[s]
               /\ toExecCheck'[s][i] = toExecCheck[s][i + 1]
    BY <1>4, <1>5, <1>10 DEF q
  <1> QED BY <1>2, <1>4, <1>6, <1>7, <1>8, <1>9, <1>11 DEF Admits

(* What waits in the sequencers after the admission of t. *)
LEMMA AdmitWaits ==
  ASSUME NEW s \in Shard, NEW t \in Txn, NEW sequencers, sequencers = Entered(s, t),
         execSequencers'[s] \in {sequencers, Without(sequencers, {t})}
  PROVE  /\ \A k \in Key : \A e :
               /\ e \in execSequencers'[s][k] =>
                     e \in execSequencers[s][k] \/ e = <<localDdlRank[s][t], t>>
               /\ e \in execSequencers[s][k] /\ e[2] # t => e \in execSequencers'[s][k]
         /\ execSequencers'[s] = Without(sequencers, {t}) => ~ Waiting(s, t)'
  <1>1. /\ \A k \in Key : \A e : e \in sequencers[k] =>
              e \in execSequencers[s][k] \/ e = <<localDdlRank[s][t], t>>
        /\ \A k \in Key : \A e : e \in execSequencers[s][k] => e \in sequencers[k]
    BY DEF Entered
  <1>2. \A k \in Key : Without(sequencers, {t})[k] = {e \in sequencers[k] : e[2] # t}
    BY DEF Without
  <1>3. CASE execSequencers'[s] = sequencers /\ sequencers # Without(sequencers, {t})
    BY <1>1, <1>3
  <1>4. CASE execSequencers'[s] = Without(sequencers, {t})
    <2>1. ~ Waiting(s, t)'
      BY <1>2, <1>4 DEF Waiting
    <2> QED BY <1>1, <1>2, <1>4, <2>1
  <1> QED BY <1>3, <1>4

(* The admission of t keeps the invariant: it takes keys that nobody holds. *)
LEMMA SAdmit ==
  ASSUME TypeOK, SInv, NEW s \in Shard, Admit(s)
  PROVE  SInv'
  <1>1. PICK t : t = Head(toExecCheck[s])
    OBVIOUS
  <1>2. PICK sequencers : sequencers = Entered(s, t)
    OBVIOUS
  <1>3. PreExecInv(s)
    BY DEF SInv
  <1>4. Admits(s, t, sequencers)
    BY <1>1, <1>2, <1>3, AdmitStep DEF PreExecInv
  <1>5. /\ t \in Txn /\ 1 \in DOMAIN toExecCheck[s] /\ toExecCheck[s][1] = t
        /\ \A u \in Txn : Checked(s, u)' <=> Checked(s, u) /\ u # t
        /\ \A i \in DOMAIN toExecCheck'[s] :
              /\ i \in Nat /\ i + 1 \in DOMAIN toExecCheck[s]
              /\ toExecCheck'[s][i] = toExecCheck[s][i + 1]
        /\ \A r \in Shard : r # s => SameAtLeader(r)
        /\ UNCHANGED <<requests, localDdlRank, agreedDdlRank, agreeStatus, execStatus>>
        /\ UNCHANGED <<toHoldAndRelease, holdBuffer, lastReleased, ddls, toExecQu>>
    BY <1>4 DEF Admits, entryVars, holdVars
  <1>6. \/ /\ CanSpecExec(entriesInSpec[s], s, t)
           /\ execSequencers'[s] = Without(sequencers, {t})
           /\ \A k \in Key : entriesInSpec'[s][k] =
                 IF k \in LocalKeys(s, t) THEN t ELSE entriesInSpec[s][k]
           /\ candidates'[s] = candidates[s] \cup {t}
        \/ /\ execSequencers'[s] = sequencers
           /\ entriesInSpec'[s] = entriesInSpec[s] /\ candidates'[s] = candidates[s]
    BY <1>4 DEF Admits
  <1>7. KeysHeld(s)'
    <2>1. KeysHeld(s)
      BY <1>3 DEF PreExecInv
    <2>2. CASE entriesInSpec'[s] = entriesInSpec[s] /\ candidates'[s] = candidates[s]
      BY <2>1, <2>2 DEF KeysHeld
    <2>3. CASE /\ CanSpecExec(entriesInSpec[s], s, t)
               /\ \A k \in Key : entriesInSpec'[s][k] =
                     IF k \in LocalKeys(s, t) THEN t ELSE entriesInSpec[s][k]
               /\ candidates'[s] = candidates[s] \cup {t}
      <3>1. \A u \in candidates[s] \cup {t} : LocalKeys(s, u) \subseteq Key
        BY <1>5, KeysAssumption DEF LocalKeys, TypeOK
      <3>2. \A u \in candidates[s] : \A k \in LocalKeys(s, u) : u # None /\ entriesInSpec[s][k] = u
        BY <2>1, TxnAssumption DEF KeysHeld, TypeOK
      <3>3. \A u \in candidates[s] : \A k \in LocalKeys(s, u) : k \notin LocalKeys(s, t)
        BY <2>3, <3>2 DEF CanSpecExec
      <3> QED BY <2>1, <2>3, <3>1, <3>2, <3>3 DEF KeysHeld, LocalKeys
    <2> QED BY <1>6, <2>2, <2>3
  <1>8. CheckedOnce(s)'
    <2>1. CheckedOnce(s)
      BY <1>3 DEF PreExecInv
    <2>2. \A i, j \in DOMAIN toExecCheck'[s] : i + 1 = j + 1 => i = j
      BY <1>5
    <2> QED BY <1>5, <2>1, <2>2 DEF CheckedOnce
  <1>9. \A r \in Shard, u \in Txn : Kept(r, u) /\ (Fresh(r, u)' <=> Fresh(r, u))
    BY <1>5, NothingMoves
  <1>10. Checked(s, t)
    BY <1>5 DEF Checked
  <1>11. /\ \A u \in Txn : u # t => (u \in candidates'[s] <=> u \in candidates[s])
         /\ candidates[s] \subseteq candidates'[s]
         /\ t \in candidates'[s] => t \in candidates[s] \/ ~ Waiting(s, t)'
         /\ \A u \in Txn : u # t => (Waiting(s, u)' => Waiting(s, u))
    <2>1. execSequencers'[s] \in {sequencers, Without(sequencers, {t})}
      BY <1>6
    <2>2. t \in Txn
      BY <1>5
    <2>3. /\ \A k \in Key : \A e :
                /\ e \in execSequencers'[s][k] =>
                      e \in execSequencers[s][k] \/ e = <<localDdlRank[s][t], t>>
                /\ e \in execSequencers[s][k] /\ e[2] # t => e \in execSequencers'[s][k]
          /\ execSequencers'[s] = Without(sequencers, {t}) => ~ Waiting(s, t)'
      BY <1>2, <2>1, <2>2, AdmitWaits
    <2>4. \A k \in Key : \A e : e \in execSequencers'[s][k] =>
                                  e \in execSequencers[s][k] \/ e[2] = t
      BY <2>3
    <2>5. \A u \in Txn : u # t => (Waiting(s, u)' => Waiting(s, u))
      BY <2>4 DEF Waiting
    <2> QED BY <1>6, <2>3, <2>5
  <1>12. ASSUME NEW u \in Txn PROVE PlaceOf(s, u)'
    <2>1. PlaceOf(s, u)
      BY <1>3 DEF PreExecInv
    <2>2. /\ Complete(s, u)' <=> Complete(s, u)
          /\ Fresh(s, u)' <=> Fresh(s, u)
          /\ execStatus'[s][u] = execStatus[s][u]
          /\ Checked(s, u)' <=> Checked(s, u) /\ u # t
      BY <1>5, <1>9 DEF Complete
    <2>3. CASE u = t
      <3>1. u \in candidates'[s] => u \in candidates[s] \/ ~ Waiting(s, u)'
        BY <1>11, <2>3
      <3>2. /\ Checked(s, u) /\ ~ Fresh(s, u)
            /\ execStatus[s][u] = "EXEC_INIT" /\ u \notin candidates[s]
        BY <1>10, <2>1, <2>3 DEF PlaceOf
      <3> QED BY <2>2, <2>3, <3>1, <3>2 DEF PlaceOf
    <2>4. CASE u # t
      BY <1>11, <2>1, <2>2, <2>4 DEF PlaceOf
    <2> QED BY <2>3, <2>4
  <1>13. StillOpen(s)' /\ IsolatedAt(s)'
    <2>1. StillOpen(s)'
      BY <1>3, <1>5, <1>11 DEF PreExecInv, StillOpen, Ended
    <2> QED BY <1>3, <1>5, <2>1 DEF PreExecInv, IsolatedAt, Conflict
  <1>14. PreExecInv(s)'
    BY <1>7, <1>8, <1>12, <1>13 DEF PreExecInv
  <1>15. \A r \in Shard : r # s => PreExecInv(r)'
    BY <1>5, <1>9, PreExecKept DEF SInv
  <1>16. \A r \in Shard, u \in Txn : ConfirmingOf(r, u)'
    BY <1>5 DEF SInv, ConfirmingOf
  <1> QED BY <1>14, <1>15, <1>16 DEF SInv

(* Each of the four commands keeps the invariant. *)
LEMMA SCommand ==
  ASSUME TypeOK, SInv, NEW s \in Shard, NEW t \in candidates[s],
         CommandDirect(s, t) \/ CommandSpec(s, t) \/ CommandCommit(s, t) \/ CommandRollback(s, t)
  PROVE  SInv'
  <1>1. execSequencers[s] \in [Key -> SUBSET (Nat \X Txn)]
    BY DEF TypeOK
  <1>2. CASE CommandDirect(s, t)
    BY <1>1, <1>2, SCommandEnds DEF CommandDirect
  <1>3. CASE CommandSpec(s, t)
    BY <1>3, SCommandSpec
  <1>4. CASE CommandCommit(s, t)
    BY <1>1, <1>4, SCommandEnds DEF CommandCommit
  <1>5. CASE CommandRollback(s, t)
    <2> DEFINE sequencers == [k \in Key |->
                   IF k \in LocalKeys(s, t)
                   THEN execSequencers[s][k] \cup {<<agreedDdlRank[s][t], t>>}
                   ELSE execSequencers[s][k]]
    <2>1. /\ Complete(s, t) /\ Command(s, t, "EXEC_ROLLBACK")
          /\ GiveUpKeys(s, t, sequencers)
      BY <1>5 DEF CommandRollback, Complete
    <2>2. t \in Txn /\ agreedDdlRank[s][t] \in Nat
      BY DEF TypeOK
    <2>3. sequencers \in [Key -> SUBSET (Nat \X Txn)]
      BY <1>1, <2>2
    <2>4. \A k \in Key : \A e \in sequencers[k] : e \in execSequencers[s][k] \/ e[2] = t
      OBVIOUS
    <2> HIDE DEF sequencers
    <2> QED BY <2>1, <2>3, <2>4, SCommandEnds
  <1> QED BY <1>2, <1>3, <1>4, <1>5

-----------------------------------------------------------------------------
(* At the start nothing was released and nothing is executed. *)
LEMMA SInit == Init => SInv
  <1> SUFFICES ASSUME Init PROVE SInv
    OBVIOUS
  <1>1. ASSUME NEW s \in Shard PROVE PreExecInv(s)
    <2>1. /\ toExecCheck[s] = <<>> /\ toExecQu[s] = <<>> /\ candidates[s] = {}
          /\ \A k \in Key : execSequencers[s][k] = {} /\ entriesInSpec[s][k] = None
          /\ \A t \in Txn : execStatus[s][t] = "EXEC_INIT"
      BY DEF Init
    <2>2. \A t \in Txn : ~ Checked(s, t) /\ ~ Waiting(s, t)
      BY <2>1 DEF Checked, Waiting
    <2> QED BY <2>1, <2>2 DEF PreExecInv, PlaceOf, CheckedOnce, KeysHeld, StillOpen, IsolatedAt
  <1>2. \A s \in Shard, t \in Txn : ConfirmingOf(s, t)
    BY DEF Init, ConfirmingOf
  <1> QED BY <1>1, <1>2 DEF SInv

(* Every step of every thread keeps the invariant. *)
LEMMA SNext == TypeOK /\ IInv /\ TypeOK' /\ SInv /\ [Next]_vars => SInv'
  <1> SUFFICES ASSUME TypeOK, IInv, TypeOK', SInv, [Next]_vars PROVE SInv'
    OBVIOUS
  <1>1. ASSUME NEW s \in Shard, NEW t \in Txn, ReceiveRequest(s, t) PROVE SInv'
    BY <1>1, SReceiveRequest
  <1>2. ASSUME NEW s \in Shard, HoldReleaseTd(s) PROVE SInv'
    <2>1. ASSUME NEW t \in toHoldAndRelease[s], HoldNew(s, t) \/ HoldFlushing(s, t)
          PROVE  SInv'
      <3>1. t \in Txn
        BY DEF TypeOK
      <3> QED BY <2>1, <3>1, SHold
    <2> QED BY <1>2, <2>1, SRelease DEF HoldReleaseTd
  <1>3. ASSUME NEW s \in Shard, LeaderDdlSyncTd(s) PROVE SInv'
    <2>1. ASSUME NEW t \in toDdlSync[s], NEW phase \in {1, 2}, DdlSyncLocal(s, t, phase)
          PROVE  SInv'
      <3>1. t \in Txn
        BY DEF TypeOK
      <3> QED BY <2>1, <3>1, SDdlSyncLocal
    <2> QED BY <1>3, <2>1, SDdlSyncRemote DEF LeaderDdlSyncTd
  <1>4. ASSUME NEW s \in Shard, LeaderPreExecTd(s) PROVE SInv'
    BY <1>4, SAdmit, SCommand DEF LeaderPreExecTd
  <1>5. CASE UNCHANGED vars
    <2>1. /\ UNCHANGED <<requests, agreeStatus, holdVars>>
          /\ UNCHANGED <<agreedDdlRank, ddls, execStatus, toExecCheck, preExecVars>>
      BY <1>5 DEF vars
    <2>2. \A r \in Shard, u \in Txn : Kept(r, u)
      BY <2>1, NothingMoves
    <2>3. ASSUME NEW r \in Shard PROVE PreExecInv(r)'
      BY <2>1, <2>2, PreExecKept DEF SInv, SameAtLeader
    <2>4. \A r \in Shard, u \in Txn : ConfirmingOf(r, u)'
      BY <2>1 DEF SInv, ConfirmingOf
    <2> QED BY <2>3, <2>4 DEF SInv
  <1> QED BY <1>1, <1>2, <1>3, <1>4, <1>5 DEF Next

LEMMA SInvHolds == Spec => []SInv
  BY SInit, SNext, TypeCorrect, InvariantHolds, PTL DEF Spec

(* The statuses the three threads find are the ones their assertions and   *)
(* branches expect (LeaderDdlSyncTd, UpdateDeadlineRecord, LeaderPreExecTd *)
(* and its candidateEntries).                                              *)
THEOREM StatusesExpected == Spec => []NoUnexpectedStatus
  <1>1. TypeOK /\ IInv /\ SInv => NoUnexpectedStatus
    <2> SUFFICES ASSUME TypeOK, IInv, SInv PROVE NoUnexpectedStatus
      OBVIOUS
    <2>1. \A s \in Shard : toDdlSync[s] \subseteq Txn /\ candidates[s] \subseteq Txn
      BY DEF TypeOK
    <2>2. \A s \in Shard : \A t \in toDdlSync[s] :
             agreeStatus[s][t] \in {"AGREE_INIT", "AGREE_FLUSHING"}
      BY <2>1 DEF IInv, LeaderInv, QueueOf, OnItsWay
    <2>3. \A s \in Shard : \A t \in candidates[s] : PlaceOf(s, t)
      BY <2>1 DEF SInv, PreExecInv
    <2> QED BY <2>2, <2>3 DEF SInv, ConfirmingOf, PlaceOf, NoUnexpectedStatus
  <1> QED BY <1>1, SInvHolds, TypeCorrect, InvariantHolds, PTL

(* While the keys of a speculation are held nobody else on them is handed  *)
(* to the executing thread, whatever LeaderPreExecTd admits in between.    *)
THEOREM SpeculationIsolated == Spec => []SpecIsolated
  <1>1. SInv => SpecIsolated
    BY DEF SInv, PreExecInv, IsolatedAt, SpecIsolated
  <1> QED BY <1>1, SInvHolds, PTL
-----------------------------------------------------------------------------
(* The order in which a leader logs.                                       *)

(* Leader s has released t to LeaderPreExecTd. *)
Released(s, t) == agreeStatus[s][t] # "AGREE_NONE" /\ ~ Fresh(s, t)

(* t waits for its local deadline, its first time in the hold buffer. *)
Held(s, t) == agreeStatus[s][t] = "AGREE_INIT" /\ InHoldBuffer(s, t)

Local(s, t) == <<localDdlRank[s][t], t>>

(* The agreement has moved t to a later deadline than its local one. *)
Moved(s, t) == Complete(s, t) /\ localDdlRank[s][t] # agreedDdlRank[s][t]

(* What is held comes, on each key, after everything that was released.    *)
HoldOrder(s) ==
    /\ \A e \in holdBuffer[s] :
          agreeStatus[s][e[2]] = "AGREE_INIT" => e = Local(s, e[2])
    /\ \A t \in Txn : Released(s, t) =>
          \A k \in LocalKeys(s, t) : localDdlRank[s][t] <= lastReleased[s][k]
    /\ \A t, u \in Txn : Released(s, t) /\ Held(s, u) /\ Conflict(s, t, u) =>
          Before(Local(s, t), Local(s, u))

(* LeaderPreExecTd takes what was released in the order of the deadlines.  *)
CheckOrder(s) ==
    /\ \A i, j \in DOMAIN toExecCheck[s], t, u \in Txn :
          /\ i < j /\ toExecCheck[s][i] = t /\ toExecCheck[s][j] = u
          /\ Conflict(s, t, u)
          => Before(Local(s, t), Local(s, u))
    /\ \A t, u \in Txn :
          Checked(s, t) /\ Released(s, u) /\ ~ Checked(s, u) /\ Conflict(s, t, u) =>
              Before(Local(s, u), Local(s, t))

(* A released transaction is where LeaderPreExecTd finds it until it is    *)
(* logged; it waits on all of its keys, at the local deadline until it was *)
(* moved.                                                                  *)
StageOf(s, t) ==
    /\ Released(s, t) <=> Checked(s, t) \/ Waiting(s, t) \/ t \in candidates[s] \/ Logged(s, t)
    /\ Released(s, t) => LocalKeys(s, t) # {}
    /\ Waiting(s, t) =>
          \A k \in LocalKeys(s, t) : \E e \in execSequencers[s][k] : e[2] = t
    /\ execStatus[s][t] = "EXEC_INIT" =>
          \A k \in Key : \A e \in execSequencers[s][k] : e[2] = t => e = Local(s, t)
    /\ execStatus[s][t] = "EXEC_ROLLBACK" => Moved(s, t)
    /\ Logged(s, t) => Complete(s, t)

(* Before a transaction that keeps its deadline may be executed, those of  *)
(* smaller deadlines on its keys that keep theirs are logged.              *)
LoggedFirst(s) ==
    \A t, u \in Txn :
        /\ Conflict(s, t, u) /\ Before(Local(s, t), Local(s, u))
        /\ Released(s, t) /\ ~ Moved(s, t)
        /\ u \in candidates[s] \/ Logged(s, u)
        /\ ~ Moved(s, u)
        => Logged(s, t)

OrderedAt(s) ==
    /\ \A i \in DOMAIN toExecQu[s], t \in Txn :
          toExecQu[s][i] \in {<<t, "EXEC_COMMITING">>, <<t, "EXEC_DIRECT">>} => Logged(s, t)
    /\ \A t, u \in Txn :
          /\ Conflict(s, t, u)
          /\ ~ Moved(s, t) /\ ~ Moved(s, u)
          /\ LoggedBefore(s, t, u)
          => Before(Local(s, t), Local(s, u))

ExecOrder(s) ==
    /\ CheckOrder(s)
    /\ \A t \in Txn : StageOf(s, t)
    /\ LoggedFirst(s) /\ OrderedAt(s)

OInv == \A s \in Shard : HoldOrder(s) /\ ExecOrder(s)

-----------------------------------------------------------------------------
(* The deadlines of a leader are totally ordered. *)
LEMMA BeforeOrder ==
  ASSUME NEW a \in Nat, NEW b \in Nat, NEW t \in Txn, NEW u \in Txn
  PROVE  /\ t # u => Before(<<a, t>>, <<b, u>>) \/ Before(<<b, u>>, <<a, t>>)
         /\ ~ (Before(<<a, t>>, <<b, u>>) /\ Before(<<b, u>>, <<a, t>>))
  <1>1. t \in Nat /\ u \in Nat
    BY TxnAssumption
  <1>2. /\ Before(<<a, t>>, <<b, u>>) <=> a < b \/ (a = b /\ t < u)
        /\ Before(<<b, u>>, <<a, t>>) <=> b < a \/ (b = a /\ u < t)
    BY DEF Before
  <1> QED BY <1>1, <1>2

(* What LeaderPreExecTd relies on does not change for t: what was released *)
(* keeps its local deadline, and a completed agreement is final.           *)
ExecSees(s, t) ==
    /\ Released(s, t)' <=> Released(s, t)
    /\ Released(s, t) \/ Complete(s, t) => localDdlRank'[s][t] = localDdlRank[s][t]
    /\ Complete(s, t) => Complete(s, t)' /\ agreedDdlRank'[s][t] = agreedDdlRank[s][t]

LEMMA MovedStays ==
  ASSUME NEW s, NEW t, ExecSees(s, t), Moved(s, t)
  PROVE  Moved(s, t)'
  BY DEF ExecSees, Moved

LEMMA ExecKept ==
  ASSUME TypeOK, NEW s \in Shard, ExecOrder(s), SameAtLeader(s),
         \A t \in Txn : ExecSees(s, t)
  PROVE  ExecOrder(s)'
  <1>1. ASSUME NEW t \in Txn
        PROVE  /\ Released(s, t)' <=> Released(s, t)
               /\ Released(s, t) => Local(s, t)' = Local(s, t)
               /\ Moved(s, t) => Moved(s, t)'
               /\ Checked(s, t)' <=> Checked(s, t)
               /\ Waiting(s, t)' <=> Waiting(s, t)
               /\ Logged(s, t)' <=> Logged(s, t)
               /\ Complete(s, t) => Complete(s, t)'
    <2>1. ExecSees(s, t)
      OBVIOUS
    <2>2. Released(s, t) => Local(s, t)' = Local(s, t)
      BY <2>1 DEF ExecSees, Local
    <2>3. /\ Checked(s, t)' <=> Checked(s, t)
          /\ Waiting(s, t)' <=> Waiting(s, t)
          /\ Logged(s, t)' <=> Logged(s, t)
      BY DEF SameAtLeader, Checked, Waiting, Logged
    <2> QED BY <2>1, <2>2, <2>3, MovedStays DEF ExecSees
  <1>2. ASSUME NEW t \in Txn
        PROVE  /\ StageOf(s, t)
               /\ Checked(s, t) \/ Waiting(s, t) \/ t \in candidates[s] \/ Logged(s, t)
                    => Released(s, t)
    BY DEF ExecOrder, StageOf
  <1>3. CheckOrder(s)'
    <2>1. CheckOrder(s)
      BY DEF ExecOrder
    <2>2. toExecCheck'[s] = toExecCheck[s]
      BY DEF SameAtLeader
    <2>3. ASSUME NEW i \in DOMAIN toExecCheck[s], NEW j \in DOMAIN toExecCheck[s],
                 NEW t \in Txn, NEW u \in Txn, i < j,
                 toExecCheck[s][i] = t, toExecCheck[s][j] = u, Conflict(s, t, u)
          PROVE  Before(Local(s, t), Local(s, u))'
      <3>1. Checked(s, t) /\ Checked(s, u)
        BY <2>3 DEF Checked
      <3>2. Local(s, t)' = Local(s, t) /\ Local(s, u)' = Local(s, u)
        BY <1>1, <1>2, <3>1
      <3>3. Before(Local(s, t), Local(s, u))
        BY <2>1, <2>3 DEF CheckOrder
      <3> QED BY <3>2, <3>3 DEF Before
    <2>4. ASSUME NEW t \in Txn, NEW u \in Txn, Checked(s, t)', Released(s, u)', ~ Checked(s, u)',
                 Conflict(s, t, u)
          PROVE  Before(Local(s, u), Local(s, t))'
      <3>1. Before(Local(s, u), Local(s, t))
        BY <1>1, <2>1, <2>4 DEF CheckOrder
      <3> QED BY <1>1, <1>2, <2>4, <3>1 DEF Before
    <2> QED BY <2>2, <2>3, <2>4 DEF CheckOrder, Conflict, LocalKeys, Before
  <1>4. ASSUME NEW t \in Txn PROVE StageOf(s, t)'
    <2>1. /\ execStatus'[s] = execStatus[s] /\ execSequencers'[s] = execSequencers[s]
          /\ candidates'[s] = candidates[s]
      BY DEF SameAtLeader
    <2>2. ASSUME NEW k \in Key, NEW e \in execSequencers[s][k], e[2] = t
          PROVE  Waiting(s, t)
      BY <2>2 DEF Waiting
    <2> QED BY <1>1, <1>2, <2>1, <2>2 DEF StageOf, LocalKeys
  <1>5. LoggedFirst(s)'
    <2> SUFFICES ASSUME NEW t \in Txn, NEW u \in Txn,
                        Conflict(s, t, u), Before(Local(s, t), Local(s, u))',
                        Released(s, t)', ~ Moved(s, t)',
                        u \in candidates'[s] \/ Logged(s, u)', ~ Moved(s, u)'
                 PROVE  Logged(s, t)'
      BY DEF LoggedFirst, Conflict, LocalKeys
    <2>1. Local(s, t)' = Local(s, t) /\ Local(s, u)' = Local(s, u)
      BY <1>1, <1>2 DEF SameAtLeader
    <2>2. Before(Local(s, t), Local(s, u))
      BY <2>1 DEF Before
    <2>3. u \in candidates[s] \/ Logged(s, u)
      BY <1>1 DEF SameAtLeader
    <2> QED BY <1>1, <2>2, <2>3 DEF ExecOrder, LoggedFirst
  <1>6. OrderedAt(s)'
    <2>1. OrderedAt(s) /\ toExecQu'[s] = toExecQu[s]
      BY DEF ExecOrder, SameAtLeader
    <2>2. ASSUME NEW t \in Txn, NEW u \in Txn, Conflict(s, t, u),
                 ~ Moved(s, t)', ~ Moved(s, u)', LoggedBefore(s, t, u)'
          PROVE  Before(Local(s, t), Local(s, u))'
      <3>1. LoggedBefore(s, t, u)
        BY <2>1, <2>2 DEF LoggedBefore
      <3>2. Before(Local(s, t), Local(s, u))
        BY <1>1, <2>1, <2>2, <3>1 DEF OrderedAt
      <3>3. Logged(s, t) /\ Logged(s, u)
        BY <2>1, <3>1 DEF OrderedAt, LoggedBefore
      <3>4. Local(s, t)' = Local(s, t) /\ Local(s, u)' = Local(s, u)
        BY <1>1, <1>2, <3>3
      <3> QED BY <3>2, <3>4 DEF Before
    <2> QED BY <1>1, <2>1, <2>2 DEF OrderedAt, Conflict, LocalKeys
  <1> QED BY <1>3, <1>4, <1>5, <1>6 DEF ExecOrder

(* The hold buffer of s gets nobody who waits for its local deadline. *)
HoldSees(s) ==
    /\ \A k \in Key : lastReleased[s][k] <= lastReleased'[s][k]
    /\ \A e \in holdBuffer'[s] : agreeStatus'[s][e[2]] = "AGREE_INIT" =>
          /\ e \in holdBuffer[s] /\ agreeStatus[s][e[2]] = "AGREE_INIT"
          /\ localDdlRank'[s][e[2]] = localDdlRank[s][e[2]]

LEMMA HoldKept ==
  ASSUME TypeOK, TypeOK', NEW s \in Shard, HoldOrder(s), HoldSees(s),
         \A t \in Txn : ExecSees(s, t)
  PROVE  HoldOrder(s)'
  <1>1. /\ lastReleased \in [Shard -> [Key -> Nat]] /\ lastReleased' \in [Shard -> [Key -> Nat]]
        /\ localDdlRank \in [Shard -> [Txn -> Nat]]
        /\ \A t \in Txn : LocalKeys(s, t) \subseteq Key
    BY KeysAssumption DEF TypeOK, LocalKeys
  <1>2. ASSUME NEW t \in Txn, Released(s, t)'
        PROVE  Released(s, t) /\ localDdlRank'[s][t] = localDdlRank[s][t]
    BY <1>2 DEF ExecSees
  <1>3. ASSUME NEW t \in Txn, Held(s, t)'
        PROVE  Held(s, t) /\ localDdlRank'[s][t] = localDdlRank[s][t]
    BY <1>3 DEF HoldSees, Held, InHoldBuffer
  <1>4. \A e \in holdBuffer'[s] : agreeStatus'[s][e[2]] = "AGREE_INIT" => e = Local(s, e[2])'
    BY DEF HoldSees, HoldOrder, Local
  <1>5. ASSUME NEW t \in Txn, Released(s, t)', NEW k \in LocalKeys(s, t)
        PROVE  localDdlRank'[s][t] <= lastReleased'[s][k]
    <2>1. localDdlRank[s][t] <= lastReleased[s][k]
      BY <1>2, <1>5 DEF HoldOrder
    <2>2. lastReleased[s][k] <= lastReleased'[s][k] /\ k \in Key
      BY <1>1 DEF HoldSees
    <2>3. /\ localDdlRank[s][t] \in Nat /\ lastReleased[s][k] \in Nat
          /\ lastReleased'[s][k] \in Nat
      BY <1>1, <2>2
    <2> QED BY <1>2, <1>5, <2>1, <2>2, <2>3
  <1>6. ASSUME NEW t \in Txn, NEW u \in Txn, Released(s, t)', Held(s, u)', Conflict(s, t, u)
        PROVE  Before(Local(s, t), Local(s, u))'
    <2>1. Before(Local(s, t), Local(s, u))
      BY <1>2, <1>3, <1>6 DEF HoldOrder
    <2> QED BY <1>2, <1>3, <1>6, <2>1 DEF Before, Local
  <1> QED BY <1>4, <1>5, <1>6 DEF HoldOrder, Conflict, LocalKeys

(* A new transaction is raised above all that was released on its keys. *)
LEMMA HoldRaised ==
  ASSUME TypeOK, IInv, NEW s \in Shard, NEW t \in Txn, HoldOrder(s), HoldNew(s, t),
         ~ Released(s, t)', \A u \in Txn : u # t => ExecSees(s, u)
  PROVE  HoldOrder(s)'
  <1>1. /\ lastReleased \in [Shard -> [Key -> Nat]]
        /\ localDdlRank \in [Shard -> [Txn -> Nat]]
        /\ holdBuffer \in [Shard -> SUBSET (Nat \X Txn)]
        /\ \A u \in Txn : LocalKeys(s, u) \subseteq Key
    BY KeysAssumption DEF TypeOK, LocalKeys
  <1>2. PICK last, rank :
          /\ last \in {lastReleased[s][k] : k \in LocalKeys(s, t)}
          /\ \A k \in LocalKeys(s, t) : lastReleased[s][k] <= last
          /\ rank = IF localDdlRank[s][t] > last THEN localDdlRank[s][t] ELSE last + 1
          /\ localDdlRank' = [localDdlRank EXCEPT ![s][t] = rank]
          /\ holdBuffer' = [holdBuffer EXCEPT ![s] = @ \cup {<<rank, t>>}]
    BY DEF HoldNew
  <1>3. t \in toHoldAndRelease[s] /\ UNCHANGED <<lastReleased, agreeStatus>>
    BY DEF HoldNew
  <1>4. last \in Nat /\ localDdlRank[s][t] \in Nat
    BY <1>1, <1>2
  <1>5. rank \in Nat /\ last < rank
    BY <1>2, <1>4
  <1>6. ~ InHoldBuffer(s, t)
    BY <1>3 DEF IInv, LeaderInv, QueueOf
  <1>7. /\ localDdlRank'[s][t] = rank
        /\ \A u \in Txn : u # t => localDdlRank'[s][u] = localDdlRank[s][u]
        /\ holdBuffer'[s] = holdBuffer[s] \cup {<<rank, t>>}
    BY <1>1, <1>2
  <1>8. \A e \in holdBuffer[s] : e[2] # t /\ e[2] \in Txn
    BY <1>1, <1>6 DEF InHoldBuffer
  <1>9. \A e \in holdBuffer'[s] : agreeStatus'[s][e[2]] = "AGREE_INIT" => e = Local(s, e[2])'
    BY <1>3, <1>7, <1>8 DEF HoldOrder, Local
  <1>10. ASSUME NEW u \in Txn, Released(s, u)'
         PROVE  u # t /\ Released(s, u) /\ localDdlRank'[s][u] = localDdlRank[s][u]
    BY <1>7, <1>10 DEF ExecSees
  <1>11. ASSUME NEW u \in Txn, NEW v \in Txn, Released(s, u)', Held(s, v)', Conflict(s, u, v)
         PROVE  Before(Local(s, u), Local(s, v))'
    <2>1. CASE v = t
      <3>1. PICK k \in LocalKeys(s, u) : k \in LocalKeys(s, t)
        BY <1>11, <2>1 DEF Conflict
      <3>2. localDdlRank[s][u] <= lastReleased[s][k] /\ lastReleased[s][k] <= last
        BY <1>2, <1>10, <1>11, <3>1 DEF HoldOrder
      <3>3. localDdlRank[s][u] \in Nat /\ lastReleased[s][k] \in Nat
        BY <1>1, <3>1
      <3>4. localDdlRank[s][u] < rank
        BY <1>4, <1>5, <3>2, <3>3
      <3> QED BY <1>7, <1>10, <1>11, <2>1, <3>4 DEF Before, Local
    <2>2. CASE v # t
      <3>1. Held(s, v)
        BY <1>3, <1>7, <1>11, <2>2 DEF Held, InHoldBuffer
      <3>2. Before(Local(s, u), Local(s, v))
        BY <1>10, <1>11, <3>1 DEF HoldOrder
      <3> QED BY <1>7, <1>10, <1>11, <2>2, <3>2 DEF Before, Local
    <2> QED BY <2>1, <2>2
  <1>12. \A u \in Txn : Released(s, u)' =>
            \A k \in LocalKeys(s, u) : localDdlRank'[s][u] <= lastReleased'[s][k]
    BY <1>3, <1>10 DEF HoldOrder
  <1> QED BY <1>9, <1>11, <1>12 DEF HoldOrder, Conflict, LocalKeys

(* The first of the hold buffer is released: nobody who stays is before it. *)
LEMMA HoldReleased ==
  ASSUME TypeOK, TypeOK', IInv, NEW s \in Shard, NEW e \in holdBuffer[s], NEW t \in Txn,
         t = e[2], HoldOrder(s), LeaveHoldBuffer(s, e), agreeStatus[s][t] = "AGREE_INIT",
         \A u \in Txn : u # t => ExecSees(s, u) /\ agreeStatus'[s][u] = agreeStatus[s][u]
  PROVE  HoldOrder(s)'
  <1>1. /\ lastReleased \in [Shard -> [Key -> Nat]] /\ lastReleased' \in [Shard -> [Key -> Nat]]
        /\ localDdlRank \in [Shard -> [Txn -> Nat]]
        /\ holdBuffer \in [Shard -> SUBSET (Nat \X Txn)]
        /\ \A u \in Txn : LocalKeys(s, u) \subseteq Key
    <2>1. lastReleased' \in [Shard -> [Key -> Nat]]
      BY DEF TypeOK
    <2>2. /\ lastReleased \in [Shard -> [Key -> Nat]]
          /\ localDdlRank \in [Shard -> [Txn -> Nat]]
          /\ holdBuffer \in [Shard -> SUBSET (Nat \X Txn)]
      BY DEF TypeOK
    <2> QED BY <2>1, <2>2, KeysAssumption DEF LocalKeys
  <1>2. /\ UNCHANGED localDdlRank /\ IsFirst(e, holdBuffer[s])
        /\ holdBuffer'[s] = holdBuffer[s] \ {e}
        /\ \A k \in Key : lastReleased'[s][k] =
              IF k \in LocalKeys(s, t) /\ lastReleased[s][k] < localDdlRank[s][t]
              THEN localDdlRank[s][t] ELSE lastReleased[s][k]
    BY <1>1 DEF LeaveHoldBuffer
  <1>3. e = Local(s, t)
    BY DEF HoldOrder
  <1>4. \A f \in holdBuffer'[s] : f \in holdBuffer[s] /\ f # e /\ f[2] # t /\ f[2] \in Txn
    <2>1. \A f \in holdBuffer[s] : f[2] = t => f = e
      BY DEF IInv, LeaderInv, QueueOf
    <2> QED BY <1>1, <1>2, <2>1
  <1>5. ASSUME NEW k \in Key
        PROVE  /\ lastReleased[s][k] <= lastReleased'[s][k]
               /\ k \in LocalKeys(s, t) => localDdlRank[s][t] <= lastReleased'[s][k]
    <2>1. localDdlRank[s][t] \in Nat /\ lastReleased[s][k] \in Nat
      BY <1>1
    <2> QED BY <1>2, <2>1
  <1>6. \A f \in holdBuffer'[s] : agreeStatus'[s][f[2]] = "AGREE_INIT" => f = Local(s, f[2])'
    BY <1>2, <1>4 DEF HoldOrder, Local
  <1>7. ASSUME NEW u \in Txn, Released(s, u)', NEW k \in LocalKeys(s, u)
        PROVE  localDdlRank'[s][u] <= lastReleased'[s][k]
    <2>1. k \in Key
      BY <1>1
    <2>2. CASE u = t
      BY <1>2, <1>5, <1>7, <2>1, <2>2
    <2>3. CASE u # t
      <3>1. localDdlRank[s][u] <= lastReleased[s][k]
        BY <1>7, <2>3 DEF HoldOrder, ExecSees
      <3>2. /\ localDdlRank[s][u] \in Nat /\ lastReleased[s][k] \in Nat
            /\ lastReleased'[s][k] \in Nat
        BY <1>1, <2>1
      <3> QED BY <1>2, <1>5, <2>1, <3>1, <3>2
    <2> QED BY <2>2, <2>3
  <1>8. ASSUME NEW u \in Txn, NEW v \in Txn, Released(s, u)', Held(s, v)', Conflict(s, u, v)
        PROVE  Before(Local(s, u), Local(s, v))'
    <2>1. PICK f \in holdBuffer'[s] : f[2] = v
      BY <1>8 DEF Held, InHoldBuffer
    <2>2. v # t /\ f \in holdBuffer[s] /\ f # e /\ agreeStatus[s][v] = "AGREE_INIT"
      BY <1>4, <1>8, <2>1 DEF Held
    <2>3. f = Local(s, v) /\ Held(s, v)
      BY <2>1, <2>2 DEF HoldOrder, Held, InHoldBuffer
    <2>4. CASE u = t
      BY <1>2, <1>3, <2>2, <2>3, <2>4 DEF IsFirst, Local
    <2>5. CASE u # t
      <3>1. Released(s, u)
        BY <1>8, <2>5 DEF ExecSees
      <3>2. Before(Local(s, u), Local(s, v))
        BY <1>8, <2>3, <3>1 DEF HoldOrder
      <3> QED BY <1>2, <3>2 DEF Before, Local
    <2> QED BY <2>4, <2>5
  <1> QED BY <1>6, <1>7, <1>8 DEF HoldOrder, Conflict, LocalKeys

(* A step that concerns t at leader s moves no other entry. *)
LEMMA SeesElsewhere ==
  ASSUME IInv, NEW s \in Shard, NEW t \in Txn, OnlyAt(s, t),
         NEW r \in Shard, NEW u \in Txn, <<r, u>> # <<s, t>>
  PROVE  ExecSees(r, u)
  <1>1. /\ localDdlRank'[r][u] = localDdlRank[r][u]
        /\ agreedDdlRank'[r][u] = agreedDdlRank[r][u]
        /\ agreeStatus'[r][u] = agreeStatus[r][u]
        /\ <<r, u>> \in requests' => <<r, u>> \in requests
        /\ (u \in toHoldAndRelease'[r]) <=> (u \in toHoldAndRelease[r])
        /\ InHoldBuffer(r, u)' <=> InHoldBuffer(r, u)
    BY DEF OnlyAt, InHoldBuffer
  <1>2. <<r, u>> \in requests => agreeStatus[r][u] = "AGREE_NONE"
    BY DEF IInv, LeaderInv, QueueOf
  <1>3. Released(r, u)' <=> Released(r, u)
    BY <1>1, <1>2 DEF Released, Fresh
  <1> QED BY <1>1, <1>3 DEF ExecSees, Complete

(* The other leaders are not concerned. *)
LEMMA OrderElsewhere ==
  ASSUME TypeOK, TypeOK', IInv, OInv, NEW s \in Shard, NEW t \in Txn, OnlyAt(s, t),
         NEW r \in Shard, r # s, SameAtLeader(r), lastReleased'[r] = lastReleased[r]
  PROVE  HoldOrder(r)' /\ ExecOrder(r)'
  <1>1. \A u \in Txn : ExecSees(r, u)
    BY SeesElsewhere
  <1>2. HoldSees(r)
    <2>1. holdBuffer'[r] \in SUBSET (Nat \X Txn)
      BY DEF TypeOK
    <2>2. lastReleased[r] \in [Key -> Nat]
      BY DEF TypeOK
    <2>3. ASSUME NEW e \in holdBuffer'[r]
          PROVE  /\ e \in holdBuffer[r] /\ agreeStatus'[r][e[2]] = agreeStatus[r][e[2]]
                 /\ localDdlRank'[r][e[2]] = localDdlRank[r][e[2]]
      <3>1. e[2] \in Txn
        BY <2>1
      <3> QED BY <3>1 DEF OnlyAt
    <2>4. \A k \in Key : lastReleased[r][k] <= lastReleased[r][k]
      BY <2>2
    <2> QED BY <2>3, <2>4 DEF HoldSees
  <1>3. HoldOrder(r)'
    BY <1>1, <1>2, HoldKept DEF OInv
  <1> QED BY <1>1, <1>3, ExecKept DEF OInv

(* A step of the agreement on t at leader s keeps the order when it        *)
(* releases nothing.                                                       *)
LEMMA OrderOnlyAt ==
  ASSUME TypeOK, TypeOK', IInv, OInv, NEW s \in Shard, NEW t \in Txn, OnlyAt(s, t),
         UNCHANGED <<execStatus, toExecCheck, preExecVars>>, ExecSees(s, t),
         HoldSees(s) \/ HoldOrder(s)',
         \A r \in Shard : r # s => lastReleased'[r] = lastReleased[r]
  PROVE  OInv'
  <1>1. \A u \in Txn : ExecSees(s, u)
    BY SeesElsewhere
  <1>2. HoldOrder(s)'
    BY <1>1, HoldKept DEF OInv
  <1>3. ExecOrder(s)'
    BY <1>1, ExecKept DEF OInv, SameAtLeader
  <1>4. ASSUME NEW r \in Shard, r # s PROVE HoldOrder(r)' /\ ExecOrder(r)'
    BY <1>4, OrderElsewhere DEF SameAtLeader
  <1> QED BY <1>2, <1>3, <1>4 DEF OInv

(* A request arrives: it is not released. *)
LEMMA OReceiveRequest ==
  ASSUME TypeOK, TypeOK', IInv, OInv, NEW s \in Shard, NEW t \in Txn, ReceiveRequest(s, t)
  PROVE  OInv'
  <1>1. /\ <<s, t>> \in requests /\ agreeStatus[s][t] = "AGREE_NONE"
        /\ ~ InHoldBuffer(s, t)
        /\ UNCHANGED <<holdBuffer, lastReleased, execStatus, toExecCheck, preExecVars>>
    BY DEF ReceiveRequest, IInv, LeaderInv, QueueOf, OnItsWay
  <1>2. OnlyAt(s, t) /\ agreeStatus'[s][t] = "AGREE_INIT" /\ t \in toHoldAndRelease'[s]
    BY OnlyAtReceive
  <1>3. ExecSees(s, t)
    BY <1>1, <1>2 DEF ExecSees, Released, Fresh, Complete
  <1>4. HoldSees(s)
    <2>1. holdBuffer[s] \in SUBSET (Nat \X Txn) /\ lastReleased[s] \in [Key -> Nat]
      BY DEF TypeOK
    <2>2. \A e \in holdBuffer[s] : e[2] \in Txn /\ e[2] # t
      BY <1>1, <2>1 DEF InHoldBuffer
    <2>3. \A k \in Key : lastReleased[s][k] <= lastReleased[s][k]
      BY <2>1
    <2> QED BY <1>1, <1>2, <2>2, <2>3 DEF HoldSees, OnlyAt
  <1> QED BY <1>1, <1>2, <1>3, <1>4, OrderOnlyAt

(* It enters the hold buffer, above all that was released; or it was       *)
(* released before and waits for the agreed deadline.                      *)
LEMMA OHold ==
  ASSUME TypeOK, TypeOK', IInv, OInv, NEW s \in Shard, NEW t \in Txn,
         HoldNew(s, t) \/ HoldFlushing(s, t)
  PROVE  OInv'
  <1>1. /\ t \in toHoldAndRelease[s] /\ OnlyAt(s, t)
        /\ UNCHANGED <<requests, agreedDdlRank, agreeStatus, lastReleased,
                       execStatus, toExecCheck, preExecVars>>
    BY OnlyAtHold DEF HoldNew, HoldFlushing
  <1>2. /\ agreeStatus[s][t] \in {"AGREE_INIT", "AGREE_FLUSHING"}
        /\ <<s, t>> \notin requests /\ ~ InHoldBuffer(s, t)
    BY <1>1 DEF IInv, LeaderInv, QueueOf, OnItsWay
  <1>3. CASE HoldNew(s, t)
    <2>1. agreeStatus[s][t] = "AGREE_INIT"
      BY <1>2, <1>3 DEF HoldNew
    <2>2. \E rank : <<rank, t>> \in holdBuffer'[s]
      <3>1. \E rank : holdBuffer' = [holdBuffer EXCEPT ![s] = @ \cup {<<rank, t>>}]
        BY <1>3 DEF HoldNew
      <3>2. holdBuffer \in [Shard -> SUBSET (Nat \X Txn)]
        BY DEF TypeOK
      <3> QED BY <3>1, <3>2
    <2>3. InHoldBuffer(s, t)'
      BY <2>2 DEF InHoldBuffer
    <2>4. ~ Released(s, t) /\ ~ Released(s, t)' /\ ~ Complete(s, t)
      BY <1>1, <2>1, <2>3 DEF Released, Fresh, Complete
    <2>5. ExecSees(s, t)
      BY <2>4 DEF ExecSees
    <2>6. HoldOrder(s)'
      BY <1>1, <1>3, <2>4, SeesElsewhere, HoldRaised DEF OInv
    <2> QED BY <1>1, <2>5, <2>6, OrderOnlyAt
  <1>4. CASE HoldFlushing(s, t)
    <2>1. /\ agreeStatus[s][t] = "AGREE_FLUSHING" /\ UNCHANGED localDdlRank
          /\ holdBuffer' = [holdBuffer EXCEPT ![s] = @ \cup {<<agreedDdlRank[s][t], t>>}]
      BY <1>4 DEF HoldFlushing
    <2>2. ExecSees(s, t)
      BY <1>1, <1>2, <2>1 DEF ExecSees, Released, Fresh, Complete
    <2>3. HoldSees(s)
      <3>1. holdBuffer'[s] = holdBuffer[s] \cup {<<agreedDdlRank[s][t], t>>}
        BY <2>1 DEF TypeOK
      <3>2. \A k \in Key : lastReleased[s][k] <= lastReleased[s][k]
        BY DEF TypeOK
      <3> QED BY <1>1, <2>1, <3>1, <3>2 DEF HoldSees
    <2> QED BY <1>1, <2>2, <2>3, OrderOnlyAt
  <1> QED BY <1>3, <1>4

(* The release of t to LeaderPreExecTd, when it leaves the hold buffer for *)
(* the first time: its deadline is the highest that was released on its    *)
(* keys.                                                                   *)
LEMMA ExecReleased ==
  ASSUME TypeOK, TypeOK', NEW s \in Shard, PreExecInv(s), HoldOrder(s), ExecOrder(s),
         NEW t \in Txn, s \in Participants[t], Fresh(s, t), Held(s, t),
         toExecCheck'[s] = Append(toExecCheck[s], t),
         UNCHANGED <<localDdlRank, execStatus, preExecVars>>,
         Released(s, t)', ~ Moved(s, t)',
         \A u \in Txn : u # t => ExecSees(s, u)
  PROVE  ExecOrder(s)'
  <1> DEFINE q == toExecCheck[s]
             n == Len(q)
  <1>1. /\ n \in Nat /\ DOMAIN q = 1..n /\ DOMAIN toExecCheck'[s] = 1..(n + 1)
        /\ toExecCheck'[s][n + 1] = t
        /\ \A i \in 1..n : toExecCheck'[s][i] = q[i]
    <2>1. q \in Seq(Txn)
      BY DEF TypeOK
    <2> QED BY <2>1
  <1>2. \A u \in Txn : localDdlRank[s][u] \in Nat
    BY DEF TypeOK
  <1> HIDE DEF q, n
  <1>3. \A i \in 1..(n + 1) : i = n + 1 \/ i \in 1..n
    BY <1>1
  <1>4. ASSUME NEW u \in Txn PROVE Checked(s, u)' <=> Checked(s, u) \/ u = t
    <2>1. Checked(s, u) <=> \E i \in 1..n : q[i] = u
      BY <1>1 DEF Checked, q
    <2>2. Checked(s, u)' <=> \E i \in 1..(n + 1) : toExecCheck'[s][i] = u
      BY <1>1 DEF Checked
    <2>3. n + 1 \in 1..(n + 1) /\ 1..n \subseteq 1..(n + 1)
      BY <1>1
    <2> QED BY <1>1, <1>3, <2>1, <2>2, <2>3
  <1>5. /\ ~ Released(s, t) /\ ~ Checked(s, t) /\ ~ Waiting(s, t)
        /\ t \notin candidates[s] /\ ~ Logged(s, t) /\ execStatus[s][t] = "EXEC_INIT"
    <2>1. PlaceOf(s, t)
      BY DEF PreExecInv
    <2> QED BY <2>1 DEF PlaceOf, Released, Logged
  <1>6. ASSUME NEW u \in Txn
        PROVE  /\ Released(s, u)' <=> Released(s, u) \/ u = t
               /\ Local(s, u)' = Local(s, u)
               /\ Waiting(s, u)' <=> Waiting(s, u)
               /\ Logged(s, u)' <=> Logged(s, u)
               /\ u # t => (Moved(s, u) => Moved(s, u)') /\ (Complete(s, u) => Complete(s, u)')
    <2>1. u # t => ExecSees(s, u)
      OBVIOUS
    <2> QED BY <1>5, <2>1, MovedStays DEF ExecSees, Local, Waiting, Logged
  <1>7. ASSUME NEW u \in Txn
        PROVE  /\ StageOf(s, u)
               /\ Checked(s, u) \/ Waiting(s, u) \/ u \in candidates[s] \/ Logged(s, u)
                    => Released(s, u)
    BY DEF ExecOrder, StageOf
  <1>8. ASSUME NEW u \in Txn, Released(s, u), Conflict(s, u, t)
        PROVE  Before(Local(s, u), Local(s, t))
    BY <1>8 DEF HoldOrder
  <1>9. CheckOrder(s)'
    <2>1. CheckOrder(s)
      BY DEF ExecOrder
    <2>2. ASSUME NEW i \in 1..(n + 1), NEW j \in 1..(n + 1), NEW u \in Txn, NEW v \in Txn,
                 i < j, toExecCheck'[s][i] = u, toExecCheck'[s][j] = v, Conflict(s, u, v)
          PROVE  Before(Local(s, u), Local(s, v))
      <3>1. i \in 1..n
        BY <1>1, <2>2
      <3>2. q[i] = u /\ Checked(s, u)
        BY <1>1, <2>2, <3>1 DEF Checked, q
      <3>3. CASE j \in 1..n
        BY <1>1, <2>1, <2>2, <3>1, <3>3 DEF CheckOrder, q
      <3>4. CASE j = n + 1
        BY <1>1, <1>7, <1>8, <2>2, <3>2, <3>4
      <3> QED BY <1>3, <3>3, <3>4
    <2>3. ASSUME NEW u \in Txn, NEW v \in Txn, Checked(s, u)', Released(s, v)', ~ Checked(s, v)',
                 Conflict(s, u, v)
          PROVE  Before(Local(s, v), Local(s, u))
      <3>1. v # t /\ Released(s, v) /\ ~ Checked(s, v)
        BY <1>4, <1>6, <2>3
      <3>2. CASE u = t
        <4>1. Conflict(s, v, t)
          BY <2>3, <3>2 DEF Conflict
        <4> QED BY <1>8, <3>1, <3>2, <4>1
      <3>3. CASE u # t
        BY <1>4, <2>1, <2>3, <3>1, <3>3 DEF CheckOrder
      <3> QED BY <3>2, <3>3
    <2> QED BY <1>1, <2>2, <2>3 DEF CheckOrder, Conflict, LocalKeys, Local
  <1>10. ASSUME NEW u \in Txn PROVE StageOf(s, u)'
    <2>1. CASE u = t
      <3>1. LocalKeys(s, t) # {}
        BY DEF Participants, LocalKeys
      <3>2. \A k \in Key : \A e \in execSequencers[s][k] : e[2] # t
        BY <1>5 DEF Waiting
      <3> QED BY <1>4, <1>5, <1>6, <2>1, <3>1, <3>2 DEF StageOf, LocalKeys
    <2>2. CASE u # t
      BY <1>4, <1>6, <1>7, <2>2 DEF StageOf, LocalKeys
    <2> QED BY <2>1, <2>2
  <1>11. LoggedFirst(s)'
    <2> SUFFICES ASSUME NEW u \in Txn, NEW v \in Txn,
                        Conflict(s, u, v), Before(Local(s, u), Local(s, v))',
                        Released(s, u)', ~ Moved(s, u)',
                        v \in candidates'[s] \/ Logged(s, v)', ~ Moved(s, v)'
                 PROVE  Logged(s, u)'
      BY DEF LoggedFirst, Conflict, LocalKeys
    <2>1. v # t /\ (v \in candidates[s] \/ Logged(s, v)) /\ Released(s, v)
      BY <1>5, <1>6, <1>7
    <2>2. Before(Local(s, u), Local(s, v))
      BY <1>6 DEF Before
    <2>3. CASE u = t
      <3>1. Before(Local(s, v), Local(s, t))
        BY <1>8, <2>1, <2>3 DEF Conflict
      <3> QED BY <1>2, <2>2, <2>3, <3>1, BeforeOrder DEF Local
    <2>4. CASE u # t
      BY <1>6, <2>1, <2>2, <2>4 DEF ExecOrder, LoggedFirst
    <2> QED BY <2>3, <2>4
  <1>12. OrderedAt(s)'
    <2>1. OrderedAt(s)
      BY DEF ExecOrder
    <2>2. ASSUME NEW u \in Txn, NEW v \in Txn, Conflict(s, u, v),
                 ~ Moved(s, u)', ~ Moved(s, v)', LoggedBefore(s, u, v)
          PROVE  Before(Local(s, u), Local(s, v))
      <3>1. Logged(s, u) /\ Logged(s, v)
        BY <2>1, <2>2 DEF OrderedAt, LoggedBefore
      <3>2. u # t /\ v # t
        BY <1>5, <3>1
      <3> QED BY <1>6, <2>1, <2>2, <3>2 DEF OrderedAt
    <2> QED BY <1>6, <2>1, <2>2 DEF OrderedAt, LoggedBefore, Conflict, LocalKeys, Local
  <1> QED BY <1>9, <1>10, <1>11, <1>12 DEF ExecOrder

LEMMA ORelease ==
  ASSUME TypeOK, TypeOK', IInv, SInv, OInv, NEW s \in Shard, NEW e \in holdBuffer[s],
         ReleaseFlushing(s, e) \/ ReleaseSingleShard(s, e) \/ ReleaseMultiShard(s, e)
  PROVE  OInv'
  <1>1. PICK t : t = e[2]
    OBVIOUS
  <1>2. /\ OnlyAt(s, t) /\ LeaveHoldBuffer(s, e)
        /\ t \in Txn /\ s \in Participants[t] /\ InHoldBuffer(s, t)
        /\ agreeStatus[s][t] \in {"AGREE_INIT", "AGREE_FLUSHING"} /\ ~ Fresh(s, t)'
        /\ UNCHANGED <<requests, localDdlRank, execStatus, preExecVars>>
        /\ \/ /\ agreeStatus[s][t] = "AGREE_FLUSHING"
              /\ UNCHANGED <<agreedDdlRank, agreeStatus, toExecCheck>>
           \/ /\ agreeStatus[s][t] = "AGREE_INIT"
              /\ toExecCheck' = [toExecCheck EXCEPT ![s] = Append(@, t)]
              /\ \/ UNCHANGED <<agreedDdlRank, agreeStatus>>
                 \/ /\ agreeStatus'[s][t] = "AGREE_COMPLETE"
                    /\ agreedDdlRank'[s][t] = localDdlRank[s][t]
    BY <1>1, OnlyAtRelease
  <1>3. /\ lastReleased \in [Shard -> [Key -> Nat]] /\ localDdlRank \in [Shard -> [Txn -> Nat]]
        /\ holdBuffer \in [Shard -> SUBSET (Nat \X Txn)]
    BY DEF TypeOK
  <1>4. /\ \A r \in Shard : r # s => lastReleased'[r] = lastReleased[r]
        /\ holdBuffer'[s] \subseteq holdBuffer[s]
        /\ \A k \in Key : lastReleased[s][k] <= lastReleased'[s][k]
    <2>1. /\ holdBuffer' = [holdBuffer EXCEPT ![s] = @ \ {e}]
          /\ lastReleased' = [lastReleased EXCEPT ![s] =
                [k \in Key |-> IF k \in LocalKeys(s, t) /\ @[k] < localDdlRank[s][t]
                               THEN localDdlRank[s][t] ELSE @[k]]]
      BY <1>1, <1>2 DEF LeaveHoldBuffer
    <2>2. \A k \in Key : lastReleased'[s][k] =
              IF k \in LocalKeys(s, t) /\ lastReleased[s][k] < localDdlRank[s][t]
              THEN localDdlRank[s][t] ELSE lastReleased[s][k]
      BY <1>3, <2>1
    <2>3. \A k \in Key : lastReleased[s][k] \in Nat /\ localDdlRank[s][t] \in Nat
      BY <1>2, <1>3
    <2> QED BY <1>3, <2>1, <2>2, <2>3
  <1>5. CASE /\ agreeStatus[s][t] = "AGREE_FLUSHING"
             /\ UNCHANGED <<agreedDdlRank, agreeStatus, toExecCheck>>
    <2>1. <<s, t>> \notin requests
      BY <1>2, <1>5 DEF IInv, LeaderInv, QueueOf
    <2>2. ExecSees(s, t)
      BY <1>2, <1>5, <2>1 DEF ExecSees, Released, Fresh, Complete
    <2>3. HoldSees(s)
      BY <1>2, <1>4, <1>5 DEF HoldSees
    <2> QED BY <1>2, <1>4, <1>5, <2>2, <2>3, OrderOnlyAt
  <1>6. CASE /\ agreeStatus[s][t] = "AGREE_INIT"
             /\ toExecCheck' = [toExecCheck EXCEPT ![s] = Append(@, t)]
             /\ \/ UNCHANGED <<agreedDdlRank, agreeStatus>>
                \/ /\ agreeStatus'[s][t] = "AGREE_COMPLETE"
                   /\ agreedDdlRank'[s][t] = localDdlRank[s][t]
    <2>1. \A u \in Txn : u # t => ExecSees(s, u) /\ agreeStatus'[s][u] = agreeStatus[s][u]
      <3>1. \A u \in Txn : u # t => ExecSees(s, u)
        BY <1>2, SeesElsewhere
      <3>2. \A u \in Txn : u # t => agreeStatus'[s][u] = agreeStatus[s][u]
        BY <1>2 DEF OnlyAt
      <3> QED BY <3>1, <3>2
    <2>2. HoldOrder(s)'
      BY <1>1, <1>2, <1>6, <2>1, HoldReleased DEF OInv
    <2>3. /\ Fresh(s, t) /\ Held(s, t) /\ Released(s, t)' /\ ~ Moved(s, t)'
      <3>1. Fresh(s, t) /\ Held(s, t)
        BY <1>2, <1>6 DEF Fresh, Held
      <3>2. /\ agreeStatus'[s][t] # "AGREE_NONE"
            /\ agreeStatus'[s][t] = "AGREE_COMPLETE" =>
                  agreedDdlRank'[s][t] = localDdlRank'[s][t]
        BY <1>2, <1>6
      <3> QED BY <1>2, <3>1, <3>2 DEF Released, Moved, Complete
    <2>4. /\ toExecCheck'[s] = Append(toExecCheck[s], t)
          /\ \A r \in Shard : r # s => toExecCheck'[r] = toExecCheck[r]
      <3>1. toExecCheck \in [Shard -> Seq(Txn)]
        BY DEF TypeOK
      <3> QED BY <1>6, <3>1
    <2>5. ExecOrder(s)'
      BY <1>2, <2>1, <2>3, <2>4, ExecReleased DEF OInv, SInv
    <2>6. ASSUME NEW r \in Shard, r # s PROVE HoldOrder(r)' /\ ExecOrder(r)'
      BY <1>2, <1>4, <2>4, <2>6, OrderElsewhere DEF SameAtLeader
    <2> QED BY <2>2, <2>5, <2>6 DEF OInv
  <1> QED BY <1>2, <1>5, <1>6

(* An update of the records of t at leader s, once its local deadline is   *)
(* out, keeps the order.                                                   *)
LEMMA OrderUpdatedAt ==
  ASSUME TypeOK, TypeOK', IInv, OInv, NEW s \in Shard, NEW t \in Txn,
         UpdatedAt(s, t), Outcome(s, t), StatusOf(s, t)',
         UNCHANGED <<requests, localDdlRank, holdBuffer, lastReleased,
                     execStatus, toExecCheck, preExecVars>>,
         Complete(s, t) => Complete(s, t)' /\ agreedDdlRank'[s][t] = agreedDdlRank[s][t],
         \/ agreeStatus'[s][t] = agreeStatus[s][t] /\ UNCHANGED toHoldAndRelease
         \/ /\ ~ Fresh(s, t) /\ agreeStatus[s][t] # "AGREE_NONE"
  PROVE  OInv'
  <1>1. /\ agreeStatus'[s][t] # agreeStatus[s][t] =>
              agreeStatus'[s][t] \in {"AGREE_COMPLETE", "AGREE_CONFIRMING", "AGREE_FLUSHING"}
        /\ \A r \in Shard, u \in Txn : <<r, u>> # <<s, t>> =>
              (u \in toHoldAndRelease'[r] <=> u \in toHoldAndRelease[r])
    <2>1. toHoldAndRelease \in [Shard -> SUBSET Txn]
      BY DEF TypeOK
    <2> QED BY <2>1 DEF Outcome
  <1>2. ASSUME NEW r \in Shard, NEW u \in Txn PROVE ExecSees(r, u)
    <2>1. InHoldBuffer(r, u)' <=> InHoldBuffer(r, u)
      BY DEF InHoldBuffer
    <2>2. CASE <<r, u>> = <<s, t>>
      <3>1. CASE agreeStatus'[s][t] = agreeStatus[s][t] /\ UNCHANGED toHoldAndRelease
        BY <2>1, <2>2, <3>1 DEF ExecSees, Released, Fresh
      <3>2. CASE ~ Fresh(s, t) /\ agreeStatus[s][t] # "AGREE_NONE"
        <4>1. Released(s, t)
          BY <3>2 DEF Released
        <4>2. Released(s, t)'
          BY <1>1, <2>1, <2>2, <3>2 DEF Released, Fresh, Outcome
        <4> QED BY <2>2, <4>1, <4>2 DEF ExecSees
      <3> QED BY <3>1, <3>2
    <2>3. CASE <<r, u>> # <<s, t>>
      <3>1. /\ agreeStatus'[r][u] = agreeStatus[r][u]
            /\ agreedDdlRank'[r][u] = agreedDdlRank[r][u]
        BY <2>3 DEF UpdatedAt
      <3> QED BY <1>1, <2>1, <2>3, <3>1 DEF ExecSees, Released, Fresh, Complete
    <2> QED BY <2>2, <2>3
  <1>3. ASSUME NEW r \in Shard PROVE HoldSees(r)
    <2>1. holdBuffer[r] \in SUBSET (Nat \X Txn) /\ lastReleased[r] \in [Key -> Nat]
      BY DEF TypeOK
    <2>2. ASSUME NEW e \in holdBuffer[r], agreeStatus'[r][e[2]] = "AGREE_INIT"
          PROVE  agreeStatus[r][e[2]] = "AGREE_INIT"
      <3>1. e[2] \in Txn
        BY <2>1
      <3> QED BY <1>1, <2>2, <3>1 DEF UpdatedAt
    <2>3. \A k \in Key : lastReleased[r][k] <= lastReleased[r][k]
      BY <2>1
    <2> QED BY <2>2, <2>3 DEF HoldSees
  <1>4. ASSUME NEW r \in Shard PROVE HoldOrder(r)' /\ ExecOrder(r)'
    <2>1. HoldOrder(r)'
      BY <1>2, <1>3, HoldKept DEF OInv
    <2>2. ExecOrder(r)'
      BY <1>2, ExecKept DEF OInv, SameAtLeader
    <2> QED BY <2>1, <2>2
  <1> QED BY <1>4 DEF OInv

LEMMA ODdlSyncLocal ==
  ASSUME TypeOK, TypeOK', IInv, OInv, NEW s \in Shard, NEW t \in Txn, NEW phase \in {1, 2},
         DdlSyncLocal(s, t, phase)
  PROVE  OInv'
  <1>1. /\ t \notin toHoldAndRelease[s] /\ ~ InHoldBuffer(s, t)
        /\ agreeStatus[s][t] \in {"AGREE_INIT", "AGREE_FLUSHING"}
        /\ StatusOf(s, t)' /\ UpdatedAt(s, t) /\ Outcome(s, t)
    BY LocalUpdate
  <1>2. <<s, t>> \notin requests
    BY <1>1 DEF IInv, LeaderInv, QueueOf
  <1>3. ~ Fresh(s, t) /\ agreeStatus[s][t] # "AGREE_NONE" /\ ~ Complete(s, t)
    BY <1>1, <1>2 DEF Fresh, Complete
  <1>4. UNCHANGED <<requests, localDdlRank, holdBuffer, lastReleased,
                    execStatus, toExecCheck, preExecVars>>
    BY DEF DdlSyncLocal
  <1> QED BY <1>1, <1>3, <1>4, OrderUpdatedAt

LEMMA ODdlSyncRemote ==
  ASSUME TypeOK, TypeOK', IInv, OInv, NEW m \in ddlNet, DdlSyncRemote(m)
  PROVE  OInv'
  <1>1. PICK s \in Shard, t \in Txn : s = m.to /\ t = m.txn
    BY DEF TypeOK, Message
  <1>2. /\ phases[s][t][m.from] \in 0..2 /\ m.phase \in {1, 2}
    <2>1. m.from \in Shard /\ m.phase \in {1, 2}
      BY DEF TypeOK, Message
    <2>2. phases \in [Shard -> [Txn -> [Shard -> 0..2]]]
      BY DEF TypeOK
    <2> QED BY <2>1, <2>2
  <1>3. UNCHANGED <<requests, localDdlRank, holdBuffer, lastReleased,
                    execStatus, toExecCheck, preExecVars>>
    BY DEF DdlSyncRemote
  <1>4. CASE phases[s][t][m.from] >= m.phase
    <2>1. UNCHANGED <<agreedDdlRank, agreeStatus, toHoldAndRelease>>
      BY <1>1, <1>4 DEF DdlSyncRemote, UpdateDeadlineRecord
    <2>2. \A r \in Shard : SameAtLeader(r) /\ \A u \in Txn : ExecSees(r, u)
      BY <1>3, <2>1 DEF SameAtLeader, ExecSees, Released, Fresh, InHoldBuffer, Complete
    <2>3. \A r \in Shard : HoldSees(r)
      <3>1. \A r \in Shard, k \in Key : lastReleased[r][k] <= lastReleased[r][k]
        BY DEF TypeOK
      <3> QED BY <1>3, <2>1, <3>1 DEF HoldSees
    <2>4. ASSUME NEW r \in Shard PROVE HoldOrder(r)'
      BY <2>2, <2>3, HoldKept DEF OInv
    <2>5. ASSUME NEW r \in Shard PROVE ExecOrder(r)'
      BY <2>2, ExecKept DEF OInv
    <2> QED BY <2>4, <2>5 DEF OInv
  <1>5. CASE phases[s][t][m.from] < m.phase
    <2>1. /\ StatusOf(s, t)' /\ UpdatedAt(s, t) /\ Outcome(s, t)
          /\ phases'[s][t][s] = phases[s][t][s]
      BY <1>1, <1>5, RemoteUpdate
    <2>2. Complete(s, t) => Complete(s, t)' /\ agreedDdlRank'[s][t] = agreedDdlRank[s][t]
      BY <1>1, <1>5, CompleteStays
    <2>3. \/ agreeStatus'[s][t] = agreeStatus[s][t] /\ UNCHANGED toHoldAndRelease
          \/ ~ Fresh(s, t) /\ agreeStatus[s][t] # "AGREE_NONE"
      <3>1. QueueOf(s, t) /\ PhaseOf(s, t)
        BY DEF IInv, LeaderInv
      <3>2. Outcome(s, t) =>
               \/ agreeStatus'[s][t] = agreeStatus[s][t] /\ UNCHANGED toHoldAndRelease
               \/ phases'[s][t][s] # 0
        BY DEF Outcome
      <3>3. CASE phases[s][t][s] # 0
        <4>1. agreeStatus[s][t] # "AGREE_NONE"
          BY <3>1, <3>3 DEF PhaseOf
        <4> QED BY <3>1, <3>3, <4>1 DEF QueueOf, OnItsWay, Fresh
      <3> QED BY <2>1, <3>2, <3>3
    <2> QED BY <1>3, <2>1, <2>2, <2>3, OrderUpdatedAt
  <1> QED BY <1>2, <1>4, <1>5

-----------------------------------------------------------------------------
(* Who is first on all of its keys comes before a conflicting transaction  *)
(* that waits for its local deadline.                                      *)
LEMMA FirstIsBefore ==
  ASSUME NEW s \in Shard, NEW t \in Txn, NEW u \in Txn, Conflict(s, t, u),
         NEW sequencers, AtTopofExecSequencer(sequencers, s, u),
         \A k \in Key : \A e \in sequencers[k] : e[2] = u => e = Local(s, u),
         \A k \in Key : execSequencers[s][k] \subseteq sequencers[k],
         Waiting(s, t), PlaceOf(s, t), StageOf(s, t), ~ Moved(s, t)
  PROVE  Before(Local(s, u), Local(s, t))
  <1>1. execStatus[s][t] = "EXEC_INIT"
    BY DEF PlaceOf, StageOf
  <1>2. PICK k \in Key : k \in LocalKeys(s, t) /\ k \in LocalKeys(s, u)
    BY KeysAssumption DEF Conflict, LocalKeys
  <1>3. PICK e \in execSequencers[s][k] : e[2] = t
    BY <1>2 DEF StageOf
  <1>4. e = Local(s, t) /\ e \in sequencers[k]
    BY <1>1, <1>3 DEF StageOf
  <1>5. PICK f \in sequencers[k] : f[2] = u /\ IsFirst(f, sequencers[k])
    BY <1>2 DEF AtTopofExecSequencer
  <1>6. f = Local(s, u)
    BY <1>5
  <1>7. e # f
    BY <1>3, <1>5 DEF Conflict
  <1> QED BY <1>4, <1>5, <1>6, <1>7 DEF IsFirst

(* A released transaction enters the sequencers, or becomes a candidate if *)
(* it is first on all of its keys: what was released before it and keeps   *)
(* its deadline is logged by then.                                         *)
LEMMA OAdmit ==
  ASSUME TypeOK, TypeOK', SInv, OInv, NEW s \in Shard, Admit(s)
  PROVE  OInv'
  <1>1. PICK t : t = Head(toExecCheck[s])
    OBVIOUS
  <1>2. PICK sequencers : sequencers = Entered(s, t)
    OBVIOUS
  <1>3. PreExecInv(s) /\ ExecOrder(s)
    BY DEF SInv, OInv
  <1>4. Admits(s, t, sequencers)
    BY <1>1, <1>2, <1>3, AdmitStep DEF PreExecInv
  <1>5. /\ t \in Txn /\ 1 \in DOMAIN toExecCheck[s] /\ toExecCheck[s][1] = t
        /\ \A u \in Txn : Checked(s, u)' <=> Checked(s, u) /\ u # t
        /\ \A i \in DOMAIN toExecCheck'[s] :
              /\ i \in Nat /\ i + 1 \in DOMAIN toExecCheck[s]
              /\ toExecCheck'[s][i] = toExecCheck[s][i + 1]
        /\ \A i \in DOMAIN toExecCheck[s] : i = 1 \/ 1 < i
        /\ \A r \in Shard : r # s => SameAtLeader(r)
        /\ UNCHANGED <<requests, localDdlRank, agreedDdlRank, agreeStatus, execStatus>>
        /\ UNCHANGED <<toHoldAndRelease, holdBuffer, lastReleased, toExecQu>>
    BY <1>4 DEF Admits
  <1>6. \/ /\ AtTopofExecSequencer(sequencers, s, t)
           /\ execSequencers'[s] = Without(sequencers, {t})
           /\ candidates'[s] = candidates[s] \cup {t}
        \/ execSequencers'[s] = sequencers /\ candidates'[s] = candidates[s]
    BY <1>4 DEF Admits
  <1>7. /\ \A k \in Key : \A e :
              /\ e \in execSequencers'[s][k] =>
                    e \in execSequencers[s][k] \/ e = Local(s, t)
              /\ e \in execSequencers[s][k] /\ e[2] # t => e \in execSequencers'[s][k]
        /\ execSequencers'[s] = Without(sequencers, {t}) => ~ Waiting(s, t)'
    <2>1. execSequencers'[s] \in {sequencers, Without(sequencers, {t})} /\ t \in Txn
      BY <1>5, <1>6
    <2>2. /\ \A k \in Key : \A e :
                /\ e \in execSequencers'[s][k] =>
                      e \in execSequencers[s][k] \/ e = <<localDdlRank[s][t], t>>
                /\ e \in execSequencers[s][k] /\ e[2] # t => e \in execSequencers'[s][k]
          /\ execSequencers'[s] = Without(sequencers, {t}) => ~ Waiting(s, t)'
      BY <1>2, <2>1, AdmitWaits
    <2> QED BY <2>2 DEF Local
  <1>8. /\ \A k \in Key : \A e \in sequencers[k] : e \in execSequencers[s][k] \/ e = Local(s, t)
        /\ \A k \in Key : execSequencers[s][k] \subseteq sequencers[k]
        /\ \A k \in Key : k \in LocalKeys(s, t) => Local(s, t) \in sequencers[k]
    BY <1>2 DEF Entered, Local
  <1>9. \A u \in Txn : LocalKeys(s, u) \subseteq Key
    BY KeysAssumption DEF LocalKeys
  <1>10. KeysHeld(s)'
    BY SAdmit DEF SInv, PreExecInv
  <1>11. ASSUME NEW u \in Txn
         PROVE  /\ StageOf(s, u) /\ PlaceOf(s, u)
                /\ Released(s, u)' <=> Released(s, u)
                /\ Moved(s, u)' <=> Moved(s, u)
                /\ Logged(s, u)' <=> Logged(s, u)
                /\ Complete(s, u)' <=> Complete(s, u)
                /\ Local(s, u)' = Local(s, u)
    <2>1. StageOf(s, u) /\ PlaceOf(s, u)
      BY <1>3 DEF ExecOrder, PreExecInv
    <2> QED BY <1>5, <2>1
            DEF Released, Fresh, InHoldBuffer, Moved, Complete, Logged, Local
  <1>12. /\ Checked(s, t) /\ Released(s, t) /\ ~ Waiting(s, t) /\ t \notin candidates[s]
         /\ ~ Logged(s, t) /\ execStatus[s][t] = "EXEC_INIT"
    <2>1. Checked(s, t)
      BY <1>5 DEF Checked
    <2> QED BY <1>5, <1>11, <2>1 DEF StageOf, PlaceOf, Logged
  <1>13. ASSUME NEW u \in Txn, Checked(s, u), u # t, Conflict(s, t, u)
         PROVE  Before(Local(s, t), Local(s, u))
    <2>1. PICK j \in DOMAIN toExecCheck[s] : toExecCheck[s][j] = u
      BY <1>13 DEF Checked
    <2>2. 1 < j
      BY <1>5, <1>13, <2>1
    <2>3. CheckOrder(s)
      BY <1>3 DEF ExecOrder
    <2> QED BY <1>5, <1>13, <2>1, <2>2, <2>3 DEF CheckOrder
  <1>14. CheckOrder(s)'
    <2>1. CheckOrder(s)
      BY <1>3 DEF ExecOrder
    <2>2. ASSUME NEW i \in DOMAIN toExecCheck'[s], NEW j \in DOMAIN toExecCheck'[s],
                 NEW u \in Txn, NEW v \in Txn,
                 i < j, toExecCheck'[s][i] = u, toExecCheck'[s][j] = v, Conflict(s, u, v)
          PROVE  Before(Local(s, u), Local(s, v))
      <3>1. i + 1 < j + 1
        BY <1>5, <2>2
      <3> QED BY <1>5, <2>1, <2>2, <3>1 DEF CheckOrder
    <2>3. ASSUME NEW u \in Txn, NEW v \in Txn, Checked(s, u)', Released(s, v)', ~ Checked(s, v)',
                 Conflict(s, u, v)
          PROVE  Before(Local(s, v), Local(s, u))
      <3>1. CASE v = t
        <4>1. Conflict(s, t, u)
          BY <2>3, <3>1 DEF Conflict
        <4> QED BY <1>5, <1>13, <2>3, <3>1, <4>1
      <3>2. CASE v # t
        BY <1>5, <1>11, <2>1, <2>3, <3>2 DEF CheckOrder
      <3> QED BY <3>1, <3>2
    <2> QED BY <1>5, <2>2, <2>3 DEF CheckOrder, Conflict, LocalKeys, Local
  <1>15. ASSUME NEW u \in Txn PROVE StageOf(s, u)'
    <2>1. CASE u = t
      <3>1. PICK k \in Key : k \in LocalKeys(s, t)
        BY <1>9, <1>11, <1>12, <1>5 DEF StageOf
      <3>2. Local(s, t)[2] = t
        BY DEF Local
      <3>3. CASE execSequencers'[s] = sequencers /\ candidates'[s] = candidates[s]
        <4>1. Waiting(s, t)'
          BY <1>8, <3>1, <3>2, <3>3 DEF Waiting
        <4>2. \A l \in LocalKeys(s, t) : \E e \in execSequencers'[s][l] : e[2] = t
          BY <1>5, <1>8, <1>9, <3>2, <3>3
        <4>3. \A l \in Key : \A e \in execSequencers'[s][l] : e[2] = t => e = Local(s, t)
          BY <1>8, <1>12, <3>3 DEF Waiting
        <4> QED BY <1>5, <1>11, <1>12, <2>1, <3>1, <4>1, <4>2, <4>3 DEF StageOf, LocalKeys
      <3>4. CASE t \in candidates'[s] /\ ~ Waiting(s, t)'
        <4>1. \A l \in Key : \A e \in execSequencers'[s][l] : e[2] # t
          BY <3>4 DEF Waiting
        <4> QED BY <1>5, <1>11, <1>12, <2>1, <3>1, <3>4, <4>1 DEF StageOf, LocalKeys
      <3> QED BY <1>6, <1>7, <3>3, <3>4
    <2>2. CASE u # t
      <3>1. /\ Checked(s, u)' <=> Checked(s, u)
            /\ u \in candidates'[s] <=> u \in candidates[s]
        BY <1>5, <1>6, <2>2
      <3>2. \A k \in Key : \A e : e[2] = u =>
               (e \in execSequencers'[s][k] <=> e \in execSequencers[s][k])
        BY <1>7, <2>2 DEF Local
      <3>3. Waiting(s, u)' <=> Waiting(s, u)
        BY <3>2 DEF Waiting
      <3> QED BY <1>5, <1>9, <1>11, <3>1, <3>2, <3>3 DEF StageOf, LocalKeys
    <2> QED BY <2>1, <2>2
  <1>16. LoggedFirst(s)'
    <2> SUFFICES ASSUME NEW u \in Txn, NEW v \in Txn,
                        Conflict(s, u, v), Before(Local(s, u), Local(s, v))',
                        Released(s, u)', ~ Moved(s, u)',
                        v \in candidates'[s] \/ Logged(s, v)', ~ Moved(s, v)', ~ Logged(s, u)'
                 PROVE  FALSE
      BY DEF LoggedFirst, Conflict, LocalKeys
    <2>1. /\ Before(Local(s, u), Local(s, v)) /\ Released(s, u)
          /\ ~ Moved(s, u) /\ ~ Moved(s, v) /\ ~ Logged(s, u)
      BY <1>11 DEF Before
    <2>2. ~ (v \in candidates[s] \/ Logged(s, v))
      BY <1>3, <2>1 DEF ExecOrder, LoggedFirst
    <2>3. v = t /\ t \in candidates'[s] /\ AtTopofExecSequencer(sequencers, s, t)
      BY <1>6, <1>11, <2>2
    <2>4. ~ Before(Local(s, t), Local(s, u))
      <3>1. localDdlRank[s][u] \in Nat /\ localDdlRank[s][t] \in Nat
        BY <1>5 DEF TypeOK
      <3> QED BY <1>5, <2>1, <2>3, <3>1, BeforeOrder DEF Local
    <2>5. CASE Checked(s, u)
      BY <1>13, <2>3, <2>4, <2>5 DEF Conflict
    <2>6. CASE u \in candidates[s]
      <3>1. u \in candidates'[s]
        BY <1>6, <2>6
      <3> QED BY <1>10, <2>3, <3>1 DEF KeysHeld, Conflict, LocalKeys
    <2>7. CASE Waiting(s, u)
      <3>1. \A k \in Key : \A e \in sequencers[k] : e[2] = t => e = Local(s, t)
        BY <1>8, <1>12 DEF Waiting
      <3> QED BY <1>5, <1>8, <1>11, <2>1, <2>3, <2>4, <2>7, <3>1, FirstIsBefore
    <2> QED BY <1>11, <2>1, <2>5, <2>6, <2>7 DEF StageOf
  <1>17. OrderedAt(s)'
    <2>1. OrderedAt(s)
      BY <1>3 DEF ExecOrder
    <2> QED BY <1>5, <1>11, <2>1 DEF OrderedAt, LoggedBefore, Conflict, LocalKeys, Before
  <1>18. \A r \in Shard, u \in Txn : ExecSees(r, u)
    BY <1>5 DEF ExecSees, Released, Fresh, InHoldBuffer, Complete
  <1>19. ASSUME NEW r \in Shard PROVE HoldOrder(r)'
    <2>1. \A k \in Key : lastReleased[r][k] <= lastReleased[r][k]
      BY DEF TypeOK
    <2>2. HoldSees(r)
      BY <1>5, <2>1 DEF HoldSees
    <2> QED BY <1>18, <2>2, HoldKept DEF OInv
  <1>20. ASSUME NEW r \in Shard PROVE ExecOrder(r)'
    <2>1. CASE r = s
      BY <1>14, <1>15, <1>16, <1>17, <2>1 DEF ExecOrder
    <2>2. CASE r # s
      BY <1>5, <1>18, <2>2, ExecKept DEF OInv
    <2> QED BY <2>1, <2>2
  <1> QED BY <1>19, <1>20 DEF OInv

(* A command for a candidate t does not come before that of a transaction  *)
(* of a smaller deadline: this one is logged already.                      *)
LEMMA OrderCommanded ==
  ASSUME TypeOK, NEW s \in Shard, NEW t \in candidates[s], PreExecInv(s), ExecOrder(s),
         NEW cmd \in ExecCommand, Command(s, t, cmd)
  PROVE  OrderedAt(s)'
  <1> DEFINE q == toExecQu[s]
             n == Len(q)
  <1>1. t \in Txn /\ q \in Seq(Txn \X ExecCommand)
    BY DEF TypeOK
  <1>2. toExecQu'[s] = Append(q, <<t, cmd>>)
    BY DEF Command, TypeOK
  <1>3. /\ n \in Nat /\ DOMAIN q = 1..n /\ DOMAIN toExecQu'[s] = 1..(n + 1)
        /\ toExecQu'[s][n + 1] = <<t, cmd>>
        /\ \A i \in 1..n : toExecQu'[s][i] = q[i]
    BY <1>1, <1>2
  <1>4. /\ execStatus'[s][t] = cmd
        /\ \A u \in Txn \ {t} : execStatus'[s][u] = execStatus[s][u]
    <2>1. execStatus \in [Shard -> [Txn -> ExecStatus]]
      BY DEF TypeOK
    <2> QED BY <1>1, <2>1 DEF Command
  <1> HIDE DEF q, n
  <1>5. \A i \in 1..(n + 1) : i = n + 1 \/ i \in 1..n
    BY <1>3
  <1>6. ~ Logged(s, t) /\ Released(s, t)
    <2>1. PlaceOf(s, t) /\ StageOf(s, t)
      BY <1>1 DEF PreExecInv, ExecOrder
    <2> QED BY <2>1 DEF PlaceOf, StageOf, Logged
  <1>7. \A u \in Txn : Logged(s, u) => Logged(s, u)'
    BY <1>4, <1>6 DEF Logged
  <1>8. ASSUME NEW i \in 1..n, NEW u \in Txn,
               q[i] \in {<<u, "EXEC_COMMITING">>, <<u, "EXEC_DIRECT">>}
        PROVE  Logged(s, u)
    BY <1>3, <1>8 DEF ExecOrder, OrderedAt, q
  <1>9. ASSUME NEW i \in 1..(n + 1), NEW u \in Txn,
               toExecQu'[s][i] \in {<<u, "EXEC_COMMITING">>, <<u, "EXEC_DIRECT">>}
        PROVE  Logged(s, u)'
    <2>1. CASE i \in 1..n
      BY <1>3, <1>7, <1>8, <1>9, <2>1
    <2>2. CASE i = n + 1
      BY <1>3, <1>4, <1>9, <2>2 DEF Logged
    <2> QED BY <1>5, <2>1, <2>2
  <1>10. \A u \in Txn : (Moved(s, u)' <=> Moved(s, u)) /\ Local(s, u)' = Local(s, u)
    BY DEF Command, Moved, Complete, Local
  <1>11. ASSUME NEW u \in Txn, NEW v \in Txn, Conflict(s, u, v),
                ~ Moved(s, u), ~ Moved(s, v), LoggedBefore(s, u, v)'
         PROVE  Before(Local(s, u), Local(s, v))
    <2>1. PICK i \in 1..(n + 1), j \in 1..(n + 1) :
            /\ i < j
            /\ toExecQu'[s][i] \in {<<u, "EXEC_COMMITING">>, <<u, "EXEC_DIRECT">>}
            /\ toExecQu'[s][j] \in {<<v, "EXEC_COMMITING">>, <<v, "EXEC_DIRECT">>}
      BY <1>3, <1>11 DEF LoggedBefore
    <2>2. i \in 1..n
      BY <1>3, <2>1
    <2>3. q[i] \in {<<u, "EXEC_COMMITING">>, <<u, "EXEC_DIRECT">>} /\ Logged(s, u)
      BY <1>3, <1>8, <2>1, <2>2
    <2>4. CASE j \in 1..n
      <3>1. LoggedBefore(s, u, v)
        BY <1>3, <2>1, <2>2, <2>3, <2>4 DEF LoggedBefore, q
      <3> QED BY <1>11, <3>1 DEF ExecOrder, OrderedAt
    <2>5. CASE j = n + 1
      <3>1. v = t
        BY <1>3, <2>1, <2>5
      <3>2. Conflict(s, t, u)
        BY <1>11, <3>1 DEF Conflict
      <3>3. ~ Before(Local(s, t), Local(s, u))
        BY <1>6, <1>11, <2>3, <3>1, <3>2 DEF ExecOrder, LoggedFirst
      <3>4. localDdlRank[s][t] \in Nat /\ localDdlRank[s][u] \in Nat /\ u # t
        BY <1>1, <3>2 DEF TypeOK, Conflict
      <3> QED BY <1>1, <3>1, <3>3, <3>4, BeforeOrder DEF Local
    <2> QED BY <1>5, <2>4, <2>5
  <1> QED BY <1>3, <1>9, <1>10, <1>11 DEF OrderedAt, Conflict, LocalKeys, Before

(* What a command leaves alone. *)
LEMMA CommandKeeps ==
  ASSUME TypeOK, NEW s \in Shard, NEW t \in Txn, NEW cmd, Command(s, t, cmd)
  PROVE  /\ \A r \in Shard, u \in Txn :
               /\ ExecSees(r, u)
               /\ Released(r, u)' <=> Released(r, u)
               /\ Moved(r, u)' <=> Moved(r, u)
               /\ Complete(r, u)' <=> Complete(r, u)
               /\ Local(r, u)' = Local(r, u)
               /\ Checked(r, u)' <=> Checked(r, u)
         /\ \A r \in Shard : HoldSees(r)
         /\ toExecCheck'[s] = toExecCheck[s] /\ (CheckOrder(s) => CheckOrder(s)')
         /\ execStatus'[s][t] = cmd
         /\ \A u \in Txn \ {t} : execStatus'[s][u] = execStatus[s][u]
         /\ \A r \in Shard : r # s => /\ execStatus'[r] = execStatus[r]
                                      /\ toExecQu'[r] = toExecQu[r]
                                      /\ toExecCheck'[r] = toExecCheck[r]
  <1>1. UNCHANGED <<requests, localDdlRank, agreedDdlRank, agreeStatus,
                    toHoldAndRelease, holdBuffer, lastReleased, toExecCheck>>
    BY DEF Command
  <1>2. \A r \in Shard, u \in Txn :
           /\ ExecSees(r, u)
           /\ Released(r, u)' <=> Released(r, u)
           /\ Moved(r, u)' <=> Moved(r, u)
           /\ Complete(r, u)' <=> Complete(r, u)
           /\ Local(r, u)' = Local(r, u)
           /\ Checked(r, u)' <=> Checked(r, u)
    BY <1>1 DEF ExecSees, Released, Fresh, InHoldBuffer, Moved, Complete, Local, Checked
  <1>3. \A r \in Shard : HoldSees(r)
    <2>1. \A r \in Shard, k \in Key : lastReleased[r][k] <= lastReleased[r][k]
      BY DEF TypeOK
    <2> QED BY <1>1, <2>1 DEF HoldSees
  <1>4. /\ execStatus'[s][t] = cmd
        /\ \A u \in Txn \ {t} : execStatus'[s][u] = execStatus[s][u]
        /\ \A r \in Shard : r # s => execStatus'[r] = execStatus[r]
    <2>1. execStatus \in [Shard -> [Txn -> ExecStatus]]
      BY DEF TypeOK
    <2> QED BY <2>1 DEF Command
  <1>5. \A r \in Shard : r # s => toExecQu'[r] = toExecQu[r]
    <2>1. toExecQu \in [Shard -> Seq(Txn \X ExecCommand)]
      BY DEF TypeOK
    <2>2. toExecQu' = [toExecQu EXCEPT ![s] = Append(@, <<t, cmd>>)]
      BY DEF Command
    <2> QED BY <2>1, <2>2
  <1>6. ASSUME CheckOrder(s) PROVE CheckOrder(s)'
    <2>1. \A u \in Txn : /\ Checked(s, u)' <=> Checked(s, u)
                         /\ Released(s, u)' <=> Released(s, u)
      BY <1>2
    <2> QED BY <1>1, <1>6, <2>1 DEF CheckOrder, Conflict, LocalKeys, Local
  <1> QED BY <1>1, <1>2, <1>3, <1>4, <1>5, <1>6

(* A speculation changes nothing of the order. *)
LEMMA OCommandSpec ==
  ASSUME TypeOK, TypeOK', SInv, OInv, NEW s \in Shard, NEW t \in candidates[s],
         CommandSpec(s, t)
  PROVE  OInv'
  <1>1. t \in Txn /\ "EXEC_SPEC" \in ExecCommand /\ PreExecInv(s) /\ ExecOrder(s)
    <2>1. t \in Txn
      BY DEF TypeOK
    <2> QED BY <2>1 DEF ExecCommand, ExecStatus, SInv, OInv
  <1>2. /\ Command(s, t, "EXEC_SPEC") /\ execStatus[s][t] = "EXEC_INIT"
        /\ UNCHANGED <<execSequencers, entriesInSpec, candidates>>
    BY DEF CommandSpec
  <1>3. /\ \A r \in Shard, u \in Txn :
              /\ ExecSees(r, u)
              /\ Released(r, u)' <=> Released(r, u)
              /\ Moved(r, u)' <=> Moved(r, u)
              /\ Complete(r, u)' <=> Complete(r, u)
              /\ Local(r, u)' = Local(r, u)
              /\ Checked(r, u)' <=> Checked(r, u)
        /\ \A r \in Shard : HoldSees(r)
        /\ toExecCheck'[s] = toExecCheck[s]
        /\ execStatus'[s][t] = "EXEC_SPEC"
        /\ \A u \in Txn \ {t} : execStatus'[s][u] = execStatus[s][u]
        /\ \A r \in Shard : r # s => /\ execStatus'[r] = execStatus[r]
                                     /\ toExecQu'[r] = toExecQu[r]
                                     /\ toExecCheck'[r] = toExecCheck[r]
    BY <1>1, <1>2, CommandKeeps
  <1>4. \A u \in Txn : /\ Logged(s, u)' <=> Logged(s, u)
                       /\ Waiting(s, u)' <=> Waiting(s, u)
    BY <1>2, <1>3 DEF Logged, Waiting
  <1>5. CheckOrder(s)'
    BY <1>1, <1>2, CommandKeeps DEF ExecOrder
  <1>6. ASSUME NEW u \in Txn PROVE StageOf(s, u)'
    <2>1. StageOf(s, u) /\ (u # t => execStatus'[s][u] = execStatus[s][u])
      BY <1>1, <1>3 DEF ExecOrder
    <2> QED BY <1>2, <1>3, <1>4, <2>1 DEF StageOf, LocalKeys
  <1>7. LoggedFirst(s)'
    BY <1>1, <1>2, <1>3, <1>4 DEF ExecOrder, LoggedFirst, Conflict, LocalKeys, Before
  <1>8. OrderedAt(s)'
    BY <1>1, <1>2, OrderCommanded
  <1>9. ASSUME NEW r \in Shard PROVE ExecOrder(r)'
    <2>1. CASE r = s
      BY <1>5, <1>6, <1>7, <1>8, <2>1 DEF ExecOrder
    <2>2. CASE r # s
      BY <1>2, <1>3, <2>2, ExecKept DEF OInv, SameAtLeader
    <2> QED BY <2>1, <2>2
  <1>10. ASSUME NEW r \in Shard PROVE HoldOrder(r)'
    BY <1>3, HoldKept DEF OInv
  <1> QED BY <1>9, <1>10 DEF OInv

(* A command that ends the stay of t, and lets others in that wait for its *)
(* keys: each is first on all of its keys, so what was released before it  *)
(* and keeps its deadline is logged.                                       *)
LEMMA OCommandEnds ==
  ASSUME TypeOK, TypeOK', SInv, SInv', OInv, NEW s \in Shard, NEW t \in candidates[s],
         NEW cmd \in {"EXEC_DIRECT", "EXEC_COMMITING", "EXEC_ROLLBACK"},
         Command(s, t, cmd), Complete(s, t), cmd = "EXEC_ROLLBACK" => Moved(s, t),
         NEW sequencers \in [Key -> SUBSET (Nat \X Txn)], GiveUpKeys(s, t, sequencers),
         \A k \in Key : execSequencers[s][k] \subseteq sequencers[k],
         \A k \in Key : \A e \in sequencers[k] :
             e \in execSequencers[s][k] \/ (e[2] = t /\ cmd = "EXEC_ROLLBACK"),
         cmd = "EXEC_ROLLBACK" =>
             \A k \in LocalKeys(s, t) : \E e \in sequencers[k] : e[2] = t
  PROVE  OInv'
  <1>1. PreExecInv(s) /\ ExecOrder(s)
    BY DEF SInv, OInv
  <1>2. /\ t \in Txn /\ cmd \in ExecCommand
        /\ \A u \in Txn : LocalKeys(s, u) \subseteq Key
    <2>1. t \in Txn
      BY DEF TypeOK
    <2> QED BY <2>1, KeysAssumption DEF ExecCommand, ExecStatus, LocalKeys
  <1>3. /\ \A r \in Shard : r # s =>
              /\ execSequencers'[r] = execSequencers[r]
              /\ entriesInSpec'[r] = entriesInSpec[r]
              /\ candidates'[r] = candidates[r]
        /\ KeysHeld(s)'
    BY <1>1, GivesUp DEF PreExecInv
  <1>4. PICK next \in SUBSET Txn :
          /\ candidates'[s] = (candidates[s] \ {t}) \cup next
          /\ execSequencers'[s] = Without(sequencers, next)
          /\ \A u \in next : /\ \E k \in Key : \E e \in sequencers[k] : e[2] = u
                             /\ AtTopofExecSequencer(sequencers, s, u)
    BY <1>1, GivesUp DEF PreExecInv
  <1>5. /\ \A r \in Shard, u \in Txn :
              /\ ExecSees(r, u)
              /\ Released(r, u)' <=> Released(r, u)
              /\ Moved(r, u)' <=> Moved(r, u)
              /\ Complete(r, u)' <=> Complete(r, u)
              /\ Local(r, u)' = Local(r, u)
              /\ Checked(r, u)' <=> Checked(r, u)
        /\ \A r \in Shard : HoldSees(r)
        /\ toExecCheck'[s] = toExecCheck[s]
        /\ execStatus'[s][t] = cmd
        /\ \A u \in Txn \ {t} : execStatus'[s][u] = execStatus[s][u]
        /\ \A r \in Shard : r # s => /\ execStatus'[r] = execStatus[r]
                                     /\ toExecQu'[r] = toExecQu[r]
                                     /\ toExecCheck'[r] = toExecCheck[r]
    BY <1>2, CommandKeeps
  <1>6. \A u \in Txn : StageOf(s, u) /\ PlaceOf(s, u)
    BY <1>1 DEF ExecOrder, PreExecInv
  <1>7. ~ Logged(s, t) /\ ~ Waiting(s, t) /\ Released(s, t)
    BY <1>2, <1>6 DEF PlaceOf, StageOf, Logged
  <1>8. \A u \in Txn : u # t => (Logged(s, u)' <=> Logged(s, u))
    BY <1>5 DEF Logged
  <1>9. Logged(s, t)' <=> cmd # "EXEC_ROLLBACK"
    BY <1>5 DEF Logged
  <1>10. \A k \in Key : execSequencers'[s][k] = {e \in sequencers[k] : e[2] \notin next}
    BY <1>4 DEF Without
  <1>11. ASSUME NEW u \in Txn, u # t
         PROVE  /\ u \in next => Waiting(s, u)
                /\ Waiting(s, u)' <=> Waiting(s, u) /\ u \notin next
                /\ u \notin next => \A k \in Key : \A e : e[2] = u =>
                      (e \in execSequencers'[s][k] <=> e \in execSequencers[s][k])
    <2>1. \A k \in Key : \A e : e[2] = u =>
             (e \in sequencers[k] <=> e \in execSequencers[s][k])
      BY <1>11
    <2>2. u \in next => Waiting(s, u)
      BY <1>4, <2>1 DEF Waiting
    <2>3. Waiting(s, u)' <=> Waiting(s, u) /\ u \notin next
      BY <1>10, <2>1 DEF Waiting
    <2> QED BY <1>10, <2>1, <2>2, <2>3
  <1>12. CheckOrder(s)'
    BY <1>1, <1>2, CommandKeeps DEF ExecOrder
  <1>13. ASSUME NEW u \in Txn PROVE StageOf(s, u)'
    <2>1. CASE u = t
      <3>1. LocalKeys(s, t) # {} /\ \A k \in LocalKeys(s, t) : k \in Key
        BY <1>2, <1>6, <1>7 DEF StageOf
      <3>2. Waiting(s, t)' => /\ cmd = "EXEC_ROLLBACK" /\ t \notin next
        <4> SUFFICES ASSUME NEW k \in Key, NEW e \in execSequencers'[s][k], e[2] = t
                     PROVE  cmd = "EXEC_ROLLBACK" /\ t \notin next
          BY DEF Waiting
        <4>1. e \in sequencers[k] /\ t \notin next
          BY <1>10
        <4>2. e \notin execSequencers[s][k]
          BY <1>7 DEF Waiting
        <4> QED BY <4>1, <4>2
      <3>3. cmd = "EXEC_ROLLBACK" /\ t \notin next =>
               \A k \in LocalKeys(s, t) : \E e \in execSequencers'[s][k] : e[2] = t
        BY <1>10, <3>1
      <3>4. cmd = "EXEC_ROLLBACK" /\ t \notin next => Waiting(s, t)'
        BY <3>1, <3>3 DEF Waiting
      <3>5. cmd = "EXEC_ROLLBACK" => t \in candidates'[s] \/ Waiting(s, t)'
        BY <1>4, <3>4
      <3> QED BY <1>2, <1>5, <1>7, <1>9, <2>1, <3>1, <3>2, <3>3, <3>5 DEF StageOf, LocalKeys
    <2>2. CASE u # t
      <3>1. /\ u \in candidates'[s] <=> u \in candidates[s] \/ u \in next
            /\ execStatus'[s][u] = execStatus[s][u]
        BY <1>4, <1>5, <2>2
      <3>2. Waiting(s, u)' =>
               \A k \in LocalKeys(s, u) : \E e \in execSequencers'[s][k] : e[2] = u
        BY <1>2, <1>6, <1>11, <2>2 DEF StageOf
      <3>3. \A k \in Key : \A e \in execSequencers'[s][k] :
               e[2] = u => e \in execSequencers[s][k]
        BY <1>10, <1>11, <2>2
      <3> QED BY <1>5, <1>6, <1>8, <1>11, <2>2, <3>1, <3>2, <3>3 DEF StageOf, LocalKeys
    <2> QED BY <2>1, <2>2
  <1>14. LoggedFirst(s)'
    <2> SUFFICES ASSUME NEW u \in Txn, NEW v \in Txn,
                        Conflict(s, u, v), Before(Local(s, u), Local(s, v))',
                        Released(s, u)', ~ Moved(s, u)',
                        v \in candidates'[s] \/ Logged(s, v)', ~ Moved(s, v)', ~ Logged(s, u)'
                 PROVE  FALSE
      BY DEF LoggedFirst, Conflict, LocalKeys
    <2>1. /\ Before(Local(s, u), Local(s, v)) /\ Released(s, u)
          /\ ~ Moved(s, u) /\ ~ Moved(s, v)
      BY <1>5 DEF Before
    <2>2. u # t /\ ~ Logged(s, u)
      BY <1>8, <1>9, <2>1
    <2>3. ~ (v \in candidates[s] \/ Logged(s, v))
      BY <1>1, <2>1, <2>2 DEF ExecOrder, LoggedFirst
    <2>4. v # t /\ v \in next
      BY <1>4, <1>8, <2>3
    <2>5. Waiting(s, v) /\ ~ Checked(s, v) /\ Released(s, v) /\ execStatus[s][v] = "EXEC_INIT"
      BY <1>6, <1>11, <2>1, <2>4 DEF PlaceOf, StageOf
    <2>6. ~ Before(Local(s, v), Local(s, u))
      <3>1. localDdlRank[s][u] \in Nat /\ localDdlRank[s][v] \in Nat
        BY DEF TypeOK
      <3> QED BY <2>1, <3>1, BeforeOrder DEF Local
    <2>7. CASE Checked(s, u)
      BY <1>1, <2>5, <2>6, <2>7 DEF ExecOrder, CheckOrder
    <2>8. CASE u \in candidates[s]
      <3>1. u \in candidates'[s] /\ v \in candidates'[s]
        BY <1>4, <2>2, <2>4, <2>8
      <3> QED BY <1>3, <3>1 DEF KeysHeld, Conflict, LocalKeys
    <2>9. CASE Waiting(s, u)
      <3>1. \A k \in Key : \A e \in sequencers[k] : e[2] = v => e = Local(s, v)
        <4> SUFFICES ASSUME NEW k \in Key, NEW e \in sequencers[k], e[2] = v
                     PROVE  e = Local(s, v)
          OBVIOUS
        <4>1. e \in execSequencers[s][k]
          BY <2>4
        <4> QED BY <1>6, <2>5, <4>1 DEF StageOf
      <3>2. AtTopofExecSequencer(sequencers, s, v)
        BY <1>4, <2>4
      <3>3. Before(Local(s, v), Local(s, u))
        BY <1>6, <2>1, <2>9, <3>1, <3>2, FirstIsBefore
      <3> QED BY <2>6, <3>3
    <2> QED BY <1>6, <2>1, <2>2, <2>7, <2>8, <2>9 DEF StageOf
  <1>15. OrderedAt(s)'
    BY <1>1, <1>2, OrderCommanded
  <1>16. ASSUME NEW r \in Shard PROVE ExecOrder(r)'
    <2>1. CASE r = s
      BY <1>12, <1>13, <1>14, <1>15, <2>1 DEF ExecOrder
    <2>2. CASE r # s
      BY <1>3, <1>5, <2>2, ExecKept DEF OInv, SameAtLeader
    <2> QED BY <2>1, <2>2
  <1>17. ASSUME NEW r \in Shard PROVE HoldOrder(r)'
    BY <1>5, HoldKept DEF OInv
  <1> QED BY <1>16, <1>17 DEF OInv

(* Each of the four commands keeps the order. *)
LEMMA OCommand ==
  ASSUME TypeOK, TypeOK', SInv, SInv', OInv, NEW s \in Shard, NEW t \in candidates[s],
         CommandDirect(s, t) \/ CommandSpec(s, t) \/ CommandCommit(s, t) \/ CommandRollback(s, t)
  PROVE  OInv'
  <1>1. execSequencers[s] \in [Key -> SUBSET (Nat \X Txn)]
    BY DEF TypeOK
  <1>2. CASE CommandDirect(s, t)
    BY <1>1, <1>2, OCommandEnds DEF CommandDirect, Complete
  <1>3. CASE CommandSpec(s, t)
    BY <1>3, OCommandSpec
  <1>4. CASE CommandCommit(s, t)
    BY <1>1, <1>4, OCommandEnds DEF CommandCommit, Complete
  <1>5. CASE CommandRollback(s, t)
    <2> DEFINE sequencers == [k \in Key |->
                   IF k \in LocalKeys(s, t)
                   THEN execSequencers[s][k] \cup {<<agreedDdlRank[s][t], t>>}
                   ELSE execSequencers[s][k]]
    <2>1. /\ Moved(s, t) /\ Complete(s, t) /\ Command(s, t, "EXEC_ROLLBACK")
          /\ GiveUpKeys(s, t, sequencers)
      BY <1>5 DEF CommandRollback, Complete, Moved
    <2>2. t \in Txn /\ agreedDdlRank[s][t] \in Nat
      <3>1. t \in Txn
        BY DEF TypeOK
      <3> QED BY <3>1 DEF TypeOK
    <2>3. /\ sequencers \in [Key -> SUBSET (Nat \X Txn)]
          /\ \A k \in Key : execSequencers[s][k] \subseteq sequencers[k]
          /\ \A k \in Key : \A e \in sequencers[k] : e \in execSequencers[s][k] \/ e[2] = t
      BY <1>1, <2>2
    <2>4. \A k \in LocalKeys(s, t) : \E e \in sequencers[k] : e[2] = t
      <3>1. LocalKeys(s, t) \subseteq Key
        BY <2>2, KeysAssumption DEF LocalKeys
      <3>2. \A k \in LocalKeys(s, t) : <<agreedDdlRank[s][t], t>> \in sequencers[k]
        BY <3>1
      <3> HIDE DEF sequencers
      <3> QED BY <3>2
    <2> HIDE DEF sequencers
    <2> QED BY <2>1, <2>3, <2>4, OCommandEnds
  <1> QED BY <1>2, <1>3, <1>4, <1>5

LEMMA OInit == Init => OInv
  <1> SUFFICES ASSUME Init PROVE OInv
    OBVIOUS
  <1>1. ASSUME NEW s \in Shard PROVE HoldOrder(s) /\ ExecOrder(s)
    <2>1. /\ toExecCheck[s] = <<>> /\ toExecQu[s] = <<>> /\ candidates[s] = {}
          /\ holdBuffer[s] = {} /\ \A k \in Key : execSequencers[s][k] = {}
          /\ \A t \in Txn : execStatus[s][t] = "EXEC_INIT" /\ agreeStatus[s][t] = "AGREE_NONE"
      BY DEF Init
    <2>2. \A t \in Txn : /\ ~ Checked(s, t) /\ ~ Waiting(s, t) /\ ~ Released(s, t)
                         /\ ~ Logged(s, t) /\ ~ Held(s, t)
      BY <2>1 DEF Checked, Waiting, Released, Logged, Held
    <2>3. HoldOrder(s)
      BY <2>1, <2>2 DEF HoldOrder
    <2>4. CheckOrder(s) /\ LoggedFirst(s) /\ OrderedAt(s)
      BY <2>1, <2>2 DEF CheckOrder, LoggedFirst, OrderedAt, LoggedBefore
    <2>5. \A t \in Txn : StageOf(s, t)
      BY <2>1, <2>2 DEF StageOf
    <2> QED BY <2>3, <2>4, <2>5 DEF ExecOrder
  <1> QED BY <1>1 DEF OInv

LEMMA ONext == TypeOK /\ TypeOK' /\ IInv /\ SInv /\ SInv' /\ OInv /\ [Next]_vars => OInv'
  <1> SUFFICES ASSUME TypeOK, TypeOK', IInv, SInv, SInv', OInv, [Next]_vars PROVE OInv'
    OBVIOUS
  <1>1. ASSUME NEW s \in Shard, NEW t \in Txn, ReceiveRequest(s, t) PROVE OInv'
    BY <1>1, OReceiveRequest
  <1>2. ASSUME NEW s \in Shard, HoldReleaseTd(s) PROVE OInv'
    <2>1. ASSUME NEW t \in toHoldAndRelease[s], HoldNew(s, t) \/ HoldFlushing(s, t)
          PROVE  OInv'
      <3>1. t \in Txn
        BY DEF TypeOK
      <3> QED BY <2>1, <3>1, OHold
    <2> QED BY <1>2, <2>1, ORelease DEF HoldReleaseTd
  <1>3. ASSUME NEW s \in Shard, LeaderDdlSyncTd(s) PROVE OInv'
    <2>1. ASSUME NEW t \in toDdlSync[s], NEW phase \in {1, 2}, DdlSyncLocal(s, t, phase)
          PROVE  OInv'
      <3>1. t \in Txn
        BY DEF TypeOK
      <3> QED BY <2>1, <3>1, ODdlSyncLocal
    <2> QED BY <1>3, <2>1, ODdlSyncRemote DEF LeaderDdlSyncTd
  <1>4. ASSUME NEW s \in Shard, LeaderPreExecTd(s) PROVE OInv'
    BY <1>4, OAdmit, OCommand DEF LeaderPreExecTd
  <1>5. CASE UNCHANGED vars
    <2>1. /\ UNCHANGED <<requests, localDdlRank, agreedDdlRank, agreeStatus>>
          /\ UNCHANGED <<holdVars, execStatus, toExecCheck, preExecVars>>
      BY <1>5 DEF vars
    <2>2. \A r \in Shard : SameAtLeader(r) /\ \A u \in Txn : ExecSees(r, u)
      BY <2>1 DEF SameAtLeader, ExecSees, Released, Fresh, InHoldBuffer, Complete
    <2>3. \A r \in Shard : HoldSees(r)
      <3>1. \A r \in Shard, k \in Key : lastReleased[r][k] <= lastReleased[r][k]
        BY DEF TypeOK
      <3> QED BY <2>1, <3>1 DEF HoldSees
    <2>4. ASSUME NEW r \in Shard PROVE HoldOrder(r)'
      BY <2>2, <2>3, HoldKept DEF OInv
    <2>5. ASSUME NEW r \in Shard PROVE ExecOrder(r)'
      BY <2>2, ExecKept DEF OInv
    <2> QED BY <2>4, <2>5 DEF OInv
  <1> QED BY <1>1, <1>2, <1>3, <1>4, <1>5 DEF Next

(* Two transactions on a common key that keep the deadline of their leader *)
(* are logged in its order, whatever was rolled back or moved around them  *)
(* (HoldReleaseTd, LeaderPreExecTd and their priority queues).             *)
THEOREM LoggedOnTime == Spec => []OnTimeOrder
  <1>1. OInv => OnTimeOrder
    BY DEF OInv, ExecOrder, OrderedAt, OnTimeOrder, OnTime, Moved, Local
  <1>2. Spec => []OInv
    BY OInit, ONext, TypeCorrect, InvariantHolds, SInvHolds, PTL DEF Spec
  <1> QED BY <1>1, <1>2, PTL

(* OnTimeSerializable: two transactions that conflict on two shards and    *)
(* keep their deadline on both are not logged in opposite orders, as the   *)
(* leaders have agreed on the same deadlines, and each follows them.       *)
THEOREM OnTimeInOneOrder == Spec => []OnTimeSerializable
  <1>1. TypeOK /\ AgreedIsHighest /\ OnTimeOrder => OnTimeSerializable
    <2> SUFFICES ASSUME TypeOK, AgreedIsHighest, OnTimeOrder,
                        NEW s \in Shard, NEW r \in Shard, NEW t \in Txn, NEW u \in Txn,
                        Conflict(s, t, u), Conflict(r, t, u),
                        OnTime(s, t), OnTime(s, u), OnTime(r, t), OnTime(r, u),
                        LoggedBefore(s, t, u), LoggedBefore(r, u, t)
                 PROVE  FALSE
      BY DEF OnTimeSerializable
    <2>1. ASSUME NEW v \in {t, u} PROVE agreedDdlRank[s][v] = agreedDdlRank[r][v]
      <3>1. s \in Participants[v] /\ r \in Participants[v]
        <4>1. LocalKeys(s, v) # {} /\ LocalKeys(r, v) # {} /\ v \in Txn
          BY DEF Conflict
        <4> QED BY <4>1 DEF LocalKeys, Participants
      <3>2. /\ HighestProposal(v, agreedDdlRank[s][v])
            /\ HighestProposal(v, agreedDdlRank[r][v])
        BY <3>1 DEF AgreedIsHighest, OnTime
      <3>3. agreedDdlRank[s][v] \in Nat /\ agreedDdlRank[r][v] \in Nat
        <4>1. v \in Txn
          OBVIOUS
        <4>2. agreedDdlRank \in [Shard -> [Txn -> Nat]]
          BY DEF TypeOK
        <4> QED BY <4>1, <4>2
      <3>4. /\ agreedDdlRank[s][v] <= agreedDdlRank[r][v]
            /\ agreedDdlRank[r][v] <= agreedDdlRank[s][v]
        BY Zenon, <3>2 DEF HighestProposal
      <3> QED BY <3>3, <3>4
    <2>2. Before(<<agreedDdlRank[s][t], t>>, <<agreedDdlRank[s][u], u>>)
      BY DEF OnTimeOrder
    <2>3. Before(<<agreedDdlRank[s][u], u>>, <<agreedDdlRank[s][t], t>>)
      <3>1. Conflict(r, u, t)
        BY DEF Conflict
      <3>2. Before(<<agreedDdlRank[r][u], u>>, <<agreedDdlRank[r][t], t>>)
        BY <3>1 DEF OnTimeOrder
      <3> QED BY <2>1, <3>2
    <2>4. agreedDdlRank[s][t] \in Nat /\ agreedDdlRank[s][u] \in Nat
      BY DEF TypeOK
    <2> QED BY <2>2, <2>3, <2>4, BeforeOrder
  <1> QED BY <1>1, TypeCorrect, AgreementIsHighest, LoggedOnTime, PTL
=============================================================================
