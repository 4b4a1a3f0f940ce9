------------------------ MODULE TigaSequencer_proofs ------------------------
(***************************************************************************)
(* What is proved of TigaSequencer for any number of shards, keys and      *)
(* transactions, whatever the deadlines and the clocks.                    *)
(***************************************************************************)
EXTENDS TigaSequencer, TLAPS

USE DEF entryVars, holdVars, agreeVars, preExecVars

(* The initial states are well typed. *)
LEMMA TypeInit == Init => TypeOK
  <1> SUFFICES ASSUME Init PROVE TypeOK
    OBVIOUS
  <1>1. requests \subseteq Shard \X Txn
    BY DEF Init
  <1> QED BY <1>1, ClockAssumption DEF Init, TypeOK, AgreeStatus, ExecStatus, Message

(* UpdateDeadlineRecord keeps the types of what it writes. *)
LEMMA TypeUpdate ==
  ASSUME TypeOK, NEW s \in Shard, NEW t \in Txn, NEW from \in Shard, NEW ddl \in Nat,
         NEW phase \in {1, 2}, UpdateDeadlineRecord(s, t, from, ddl, phase)
  PROVE  /\ ddls' \in [Shard -> [Txn -> [Shard -> Nat]]]
         /\ phases' \in [Shard -> [Txn -> [Shard -> 0..2]]]
         /\ agreedDdlRank' \in [Shard -> [Txn -> Nat]]
         /\ agreeStatus' \in [Shard -> [Txn -> AgreeStatus]]
         /\ toHoldAndRelease' \in [Shard -> SUBSET Txn]
  <1>1. CASE phases[s][t][from] >= phase
    BY <1>1 DEF UpdateDeadlineRecord, TypeOK
  <1>2. CASE ~ (phases[s][t][from] >= phase)
    <2> DEFINE d == [ddls[s][t] EXCEPT ![from] = ddl]
               ph == [phases[s][t] EXCEPT ![from] = phase]
    <2>1. /\ ddls' = [ddls EXCEPT ![s][t] = d]
          /\ phases' = [phases EXCEPT ![s][t] = ph]
          /\ IF \A p \in Participants[t] : ph[p] # 0
             THEN Conclude(s, t, d)
             ELSE UNCHANGED <<agreedDdlRank, agreeStatus, toHoldAndRelease>>
      BY <1>2 DEF UpdateDeadlineRecord
    <2>2. d \in [Shard -> Nat] /\ ph \in [Shard -> 0..2]
      <3>1. ddls[s][t] \in [Shard -> Nat] /\ phases[s][t] \in [Shard -> 0..2]
        BY SMTT(30) DEF TypeOK
      <3>2. phase \in 0..2
        OBVIOUS
      <3> QED BY <3>1, <3>2
    <2>3. /\ ddls' \in [Shard -> [Txn -> [Shard -> Nat]]]
          /\ phases' \in [Shard -> [Txn -> [Shard -> 0..2]]]
      BY <2>1, <2>2 DEF TypeOK
    <2> HIDE DEF d, ph
    <2>4. CASE Conclude(s, t, d)
      <3>1. Participants[t] \subseteq Shard
        BY DEF Participants
      <3>2. PICK top \in {d[p] : p \in Participants[t]} :
              /\ agreedDdlRank' = [agreedDdlRank EXCEPT ![s][t] = top]
              /\ \/ agreeStatus' = agreeStatus
                 \/ \E status \in AgreeStatus :
                      agreeStatus' = [agreeStatus EXCEPT ![s][t] = status]
              /\ \/ toHoldAndRelease' = toHoldAndRelease
                 \/ toHoldAndRelease' = [toHoldAndRelease EXCEPT ![s] = @ \cup {t}]
        BY <2>4 DEF Conclude, AgreeStatus
      <3>3. top \in Nat
        BY <3>1, <3>2, <2>2
      <3>4. agreedDdlRank' \in [Shard -> [Txn -> Nat]]
        BY <3>2, <3>3 DEF TypeOK
      <3>5. agreeStatus' \in [Shard -> [Txn -> AgreeStatus]]
        <4>1. agreeStatus \in [Shard -> [Txn -> AgreeStatus]]
          BY DEF TypeOK
        <4> QED BY <3>2, <4>1
      <3>6. toHoldAndRelease' \in [Shard -> SUBSET Txn]
        <4>1. toHoldAndRelease \in [Shard -> SUBSET Txn]
          BY DEF TypeOK
        <4>2. toHoldAndRelease[s] \cup {t} \in SUBSET Txn
          BY <4>1
        <4> QED BY <3>2, <4>1, <4>2
      <3> QED BY <2>3, <3>4, <3>5, <3>6
    <2> QED BY <2>1, <2>3, <2>4 DEF TypeOK
  <1> QED BY <1>1, <1>2

(* GiveUpKeys keeps the types of what it writes. *)
LEMMA TypeGiveUp ==
  ASSUME TypeOK, NEW s \in Shard, NEW t \in Txn,
         NEW sequencers \in [Key -> SUBSET (Nat \X Txn)], GiveUpKeys(s, t, sequencers)
  PROVE  /\ execSequencers' \in [Shard -> [Key -> SUBSET (Nat \X Txn)]]
         /\ entriesInSpec' \in [Shard -> [Key -> Txn \cup {None}]]
         /\ candidates' \in [Shard -> SUBSET Txn]
  <1> DEFINE freed == [k \in Key |-> IF k \in LocalKeys(s, t) THEN None
                                    ELSE entriesInSpec[s][k]]
             next == {u \in Txn : /\ LocalKeys(s, u) \cap LocalKeys(s, t) # {}
                                  /\ AtTopofExecSequencer(sequencers, s, u)
                                  /\ CanSpecExec(freed, s, u)}
             taken(k) == {u \in next : k \in LocalKeys(s, u)}
             inSpec == [k \in Key |-> IF taken(k) = {} THEN freed[k]
                                      ELSE CHOOSE u \in taken(k) : TRUE]
  <1>1. /\ execSequencers' = [execSequencers EXCEPT ![s] = Without(sequencers, next)]
        /\ entriesInSpec' = [entriesInSpec EXCEPT ![s] = inSpec]
        /\ candidates' = [candidates EXCEPT ![s] = (@ \ {t}) \cup next]
    BY DEF GiveUpKeys
  <1>2. next \subseteq Txn
    OBVIOUS
  <1>3. freed \in [Key -> Txn \cup {None}]
    BY DEF TypeOK
  <1>4. Without(sequencers, next) \in [Key -> SUBSET (Nat \X Txn)]
    BY DEF Without
  <1>5. ASSUME NEW k \in Key PROVE inSpec[k] \in Txn \cup {None}
    <2> HIDE DEF next, freed
    <2>1. CASE taken(k) = {}
      BY <2>1, <1>3
    <2>2. CASE taken(k) # {}
      <3>1. (CHOOSE u \in taken(k) : TRUE) \in taken(k)
        BY <2>2
      <3> QED BY <2>2, <3>1, <1>2
    <2> QED BY <2>1, <2>2
  <1> HIDE DEF next, freed, taken
  <1>6. inSpec \in [Key -> Txn \cup {None}]
    BY <1>5
  <1> HIDE DEF inSpec
  <1>7. execSequencers' \in [Shard -> [Key -> SUBSET (Nat \X Txn)]]
    BY <1>1, <1>4 DEF TypeOK
  <1>8. entriesInSpec' \in [Shard -> [Key -> Txn \cup {None}]]
    BY <1>1, <1>6 DEF TypeOK
  <1>9. candidates' \in [Shard -> SUBSET Txn]
    <2>1. candidates \in [Shard -> SUBSET Txn]
      BY DEF TypeOK
    <2> QED BY <1>1, <1>2, <2>1
  <1> QED BY <1>7, <1>8, <1>9

(* Handing out a command keeps the types of what it writes. *)
LEMMA TypeCommand ==
  ASSUME TypeOK, NEW s \in Shard, NEW t \in Txn, NEW cmd \in ExecCommand, Command(s, t, cmd)
  PROVE  /\ execStatus' \in [Shard -> [Txn -> ExecStatus]]
         /\ toExecQu' \in [Shard -> Seq(Txn \X ExecCommand)]
  <1>1. execStatus' \in [Shard -> [Txn -> ExecStatus]]
    <2>1. execStatus \in [Shard -> [Txn -> ExecStatus]] /\ cmd \in ExecStatus
      BY DEF TypeOK, ExecCommand
    <2> QED BY <2>1 DEF Command
  <1>2. toExecQu' \in [Shard -> Seq(Txn \X ExecCommand)]
    <2>1. toExecQu \in [Shard -> Seq(Txn \X ExecCommand)]
      BY DEF TypeOK
    <2>2. Append(toExecQu[s], <<t, cmd>>) \in Seq(Txn \X ExecCommand)
      BY <2>1
    <2> QED BY <2>1, <2>2 DEF Command
  <1> QED BY <1>1, <1>2

(* Every step of every thread keeps every variable within its type. *)
LEMMA TypeNext == TypeOK /\ [Next]_vars => TypeOK'
  <1> SUFFICES ASSUME TypeOK, [Next]_vars PROVE TypeOK'
    OBVIOUS
  <1> USE DEF TypeOK
  <1>1. ASSUME NEW s \in Shard, NEW t \in Txn, ReceiveRequest(s, t) PROVE TypeOK'
    <2>1. serverLogicalClock' \in [Shard -> Nat]
      <3>1. serverLogicalClock[s] + 1 \in Nat
        OBVIOUS
      <3> QED BY ZenonT(60), <1>1, <3>1 DEF ReceiveRequest
    <2>4. localDdlRank' \in [Shard -> [Txn -> Nat]]
      <3>1. Deadline[t] \in Nat /\ serverLogicalClock[s] \in Nat
        BY DeadlineAssumption
      <3>2. \E rank \in Nat : localDdlRank' = [localDdlRank EXCEPT ![s][t] = rank]
        BY <1>1, <3>1 DEF ReceiveRequest
      <3> QED BY <3>2
    <2>2. agreeStatus' \in [Shard -> [Txn -> AgreeStatus]]
      BY <1>1 DEF ReceiveRequest, AgreeStatus
    <2>3. toHoldAndRelease' \in [Shard -> SUBSET Txn]
      BY <1>1 DEF ReceiveRequest
    <2> QED BY <1>1, <2>1, <2>2, <2>3, <2>4 DEF ReceiveRequest
  <1>2. ASSUME NEW s \in Shard, NEW t \in Txn, HoldNew(s, t) PROVE TypeOK'
    <2>1. PICK last \in {lastReleased[s][k] : k \in LocalKeys(s, t)} :
            LET rank == IF localDdlRank[s][t] > last
                        THEN localDdlRank[s][t] ELSE last + 1
            IN  /\ localDdlRank' = [localDdlRank EXCEPT ![s][t] = rank]
                /\ holdBuffer' = [holdBuffer EXCEPT ![s] = @ \cup {<<rank, t>>}]
      BY <1>2 DEF HoldNew
    <2>2. last \in Nat
      BY <2>1, KeysAssumption DEF LocalKeys
    <2> DEFINE rank == IF localDdlRank[s][t] > last THEN localDdlRank[s][t] ELSE last + 1
    <2>3. /\ rank \in Nat
          /\ localDdlRank' = [localDdlRank EXCEPT ![s][t] = rank]
          /\ holdBuffer' = [holdBuffer EXCEPT ![s] = @ \cup {<<rank, t>>}]
      BY <2>1, <2>2
    <2> HIDE DEF rank
    <2>4. localDdlRank' \in [Shard -> [Txn -> Nat]]
      BY <2>3
    <2>5. holdBuffer' \in [Shard -> SUBSET (Nat \X Txn)]
      <3>1. holdBuffer[s] \cup {<<rank, t>>} \in SUBSET (Nat \X Txn)
        BY <2>3
      <3> QED BY <2>3, <3>1
    <2>6. toHoldAndRelease' \in [Shard -> SUBSET Txn]
      BY <1>2 DEF HoldNew
    <2> QED BY <1>2, <2>4, <2>5, <2>6 DEF HoldNew
  <1>3. ASSUME NEW s \in Shard, NEW t \in Txn, HoldFlushing(s, t) PROVE TypeOK'
    <2>1. toHoldAndRelease' \in [Shard -> SUBSET Txn]
      BY <1>3 DEF HoldFlushing
    <2>2. holdBuffer' \in [Shard -> SUBSET (Nat \X Txn)]
      <3>1. holdBuffer[s] \cup {<<agreedDdlRank[s][t], t>>} \in SUBSET (Nat \X Txn)
        OBVIOUS
      <3> QED BY <1>3, <3>1 DEF HoldFlushing
    <2> QED BY <1>3, <2>1, <2>2 DEF HoldFlushing
  <1>4. ASSUME NEW s \in Shard, NEW e \in holdBuffer[s], LeaveHoldBuffer(s, e)
        PROVE  /\ holdBuffer' \in [Shard -> SUBSET (Nat \X Txn)]
               /\ lastReleased' \in [Shard -> [Key -> Nat]]
               /\ e[2] \in Txn
    <2>1. e \in Nat \X Txn
      OBVIOUS
    <2>2. holdBuffer' \in [Shard -> SUBSET (Nat \X Txn)]
      BY <1>4 DEF LeaveHoldBuffer
    <2>3. localDdlRank[s][e[2]] \in Nat
      BY <2>1
    <2>4. lastReleased' \in [Shard -> [Key -> Nat]]
      BY <1>4, <2>3 DEF LeaveHoldBuffer
    <2> QED BY <2>1, <2>2, <2>4
  <1>5. ASSUME NEW s \in Shard, NEW e \in holdBuffer[s], ReleaseFlushing(s, e) PROVE TypeOK'
    <2>1. LeaveHoldBuffer(s, e)
      BY <1>5 DEF ReleaseFlushing
    <2>2. toDdlSync' \in [Shard -> SUBSET Txn]
      BY SMTT(30), <1>4, <1>5, <2>1 DEF ReleaseFlushing
    <2> QED BY <1>4, <1>5, <2>1, <2>2 DEF ReleaseFlushing, LeaveHoldBuffer
  <1>6. ASSUME NEW s \in Shard, NEW e \in holdBuffer[s], ReleaseSingleShard(s, e) PROVE TypeOK'
    <2>1. LeaveHoldBuffer(s, e)
      BY <1>6 DEF ReleaseSingleShard
    <2>2. agreeStatus' \in [Shard -> [Txn -> AgreeStatus]]
      BY <1>4, <1>6, <2>1 DEF ReleaseSingleShard, AgreeStatus
    <2>3. agreedDdlRank' \in [Shard -> [Txn -> Nat]]
      BY <1>4, <1>6, <2>1 DEF ReleaseSingleShard
    <2>4. toExecCheck' \in [Shard -> Seq(Txn)]
      BY <1>4, <1>6, <2>1 DEF ReleaseSingleShard
    <2> QED BY <1>4, <1>6, <2>1, <2>2, <2>3, <2>4 DEF ReleaseSingleShard, LeaveHoldBuffer
  <1>7. ASSUME NEW s \in Shard, NEW e \in holdBuffer[s], ReleaseMultiShard(s, e) PROVE TypeOK'
    <2>1. LeaveHoldBuffer(s, e)
      BY <1>7 DEF ReleaseMultiShard
    <2>2. toDdlSync' \in [Shard -> SUBSET Txn]
      BY SMTT(30), <1>4, <1>7, <2>1 DEF ReleaseMultiShard
    <2>3. toExecCheck' \in [Shard -> Seq(Txn)]
      BY <1>4, <1>7, <2>1 DEF ReleaseMultiShard
    <2> QED BY <1>4, <1>7, <2>1, <2>2, <2>3 DEF ReleaseMultiShard, LeaveHoldBuffer
  <1>8. ASSUME NEW s \in Shard, NEW t \in Txn, NEW phase \in {1, 2}, DdlSyncLocal(s, t, phase)
        PROVE  TypeOK'
    <2> DEFINE ddl == IF phase = 1 THEN localDdlRank[s][t] ELSE agreedDdlRank[s][t]
    <2>1. /\ ddl \in Nat
          /\ ddlNet' = ddlNet \cup Report(s, t, ddl, phase)
          /\ UpdateDeadlineRecord(s, t, s, ddl, phase)
      BY <1>8 DEF DdlSyncLocal
    <2> HIDE DEF ddl
    <2>2. ddlNet' \subseteq Message
      <3>1. ASSUME NEW p \in Participants[t]
            PROVE  [txn |-> t, from |-> s, to |-> p, ddl |-> ddl, phase |-> phase] \in Message
        BY <2>1 DEF Message, Participants
      <3> QED BY <2>1, <3>1 DEF Report
    <2>3. toDdlSync' \in [Shard -> SUBSET Txn]
      BY <1>8 DEF DdlSyncLocal
    <2>4. /\ ddls' \in [Shard -> [Txn -> [Shard -> Nat]]]
          /\ phases' \in [Shard -> [Txn -> [Shard -> 0..2]]]
          /\ agreedDdlRank' \in [Shard -> [Txn -> Nat]]
          /\ agreeStatus' \in [Shard -> [Txn -> AgreeStatus]]
          /\ toHoldAndRelease' \in [Shard -> SUBSET Txn]
      <3> HIDE DEF TypeOK
      <3> QED BY <2>1, TypeUpdate
    <2> QED BY <1>8, <2>2, <2>3, <2>4 DEF DdlSyncLocal
  <1>9. ASSUME NEW m \in ddlNet, DdlSyncRemote(m) PROVE TypeOK'
    <2>1. /\ m.to \in Shard /\ m.from \in Shard /\ m.txn \in Txn
          /\ m.ddl \in Nat /\ m.phase \in {1, 2}
      BY DEF Message
    <2>2. UpdateDeadlineRecord(m.to, m.txn, m.from, m.ddl, m.phase)
      BY <1>9 DEF DdlSyncRemote
    <2>3. /\ ddls' \in [Shard -> [Txn -> [Shard -> Nat]]]
          /\ phases' \in [Shard -> [Txn -> [Shard -> 0..2]]]
          /\ agreedDdlRank' \in [Shard -> [Txn -> Nat]]
          /\ agreeStatus' \in [Shard -> [Txn -> AgreeStatus]]
          /\ toHoldAndRelease' \in [Shard -> SUBSET Txn]
      BY <2>1, <2>2, TypeUpdate
    <2> QED BY <1>9, <2>3 DEF DdlSyncRemote
  <1>10. ASSUME NEW s \in Shard, Admit(s) PROVE TypeOK'
    <2> DEFINE t == Head(toExecCheck[s])
               sequencers == [k \in Key |->
                   IF k \in LocalKeys(s, t)
                   THEN execSequencers[s][k] \cup {<<localDdlRank[s][t], t>>}
                   ELSE execSequencers[s][k]]
    <2>1. toExecCheck[s] \in Seq(Txn) /\ toExecCheck[s] # <<>>
      BY <1>10 DEF Admit
    <2>2. t \in Txn /\ Tail(toExecCheck[s]) \in Seq(Txn)
      BY <2>1
    <2>3. toExecCheck' \in [Shard -> Seq(Txn)]
      BY <1>10, <2>2 DEF Admit
    <2> HIDE DEF t
    <2>4. sequencers \in [Key -> SUBSET (Nat \X Txn)]
      BY <2>2
    <2>5. Without(sequencers, {t}) \in [Key -> SUBSET (Nat \X Txn)]
      BY <2>4 DEF Without
    <2>6. \/ /\ execSequencers' = [execSequencers EXCEPT ![s] = Without(sequencers, {t})]
             /\ entriesInSpec' = [entriesInSpec EXCEPT ![s] =
                    [k \in Key |-> IF k \in LocalKeys(s, t) THEN t ELSE @[k]]]
             /\ candidates' = [candidates EXCEPT ![s] = @ \cup {t}]
          \/ /\ execSequencers' = [execSequencers EXCEPT ![s] = sequencers]
             /\ UNCHANGED <<entriesInSpec, candidates>>
      BY <1>10 DEF Admit, t
    <2> HIDE DEF sequencers
    <2>7. execSequencers' \in [Shard -> [Key -> SUBSET (Nat \X Txn)]]
      <3>1. execSequencers \in [Shard -> [Key -> SUBSET (Nat \X Txn)]]
        OBVIOUS
      <3> HIDE DEF TypeOK
      <3> QED BY <3>1, <2>4, <2>5, <2>6
    <2>8. entriesInSpec' \in [Shard -> [Key -> Txn \cup {None}]]
      <3>1. entriesInSpec \in [Shard -> [Key -> Txn \cup {None}]]
        OBVIOUS
      <3>2. [k \in Key |-> IF k \in LocalKeys(s, t) THEN t ELSE entriesInSpec[s][k]]
               \in [Key -> Txn \cup {None}]
        BY <2>2, <3>1
      <3> HIDE DEF TypeOK
      <3> QED BY <2>6, <3>1, <3>2
    <2>9. candidates' \in [Shard -> SUBSET Txn]
      <3>1. candidates \in [Shard -> SUBSET Txn]
        OBVIOUS
      <3>2. candidates[s] \cup {t} \in SUBSET Txn
        BY <2>2, <3>1
      <3> QED BY ZenonT(60), <2>6, <3>1, <3>2
    <2> QED BY <1>10, <2>3, <2>7, <2>8, <2>9 DEF Admit
  <1>11. ASSUME NEW s \in Shard, NEW t \in Txn, NEW cmd \in ExecCommand, Command(s, t, cmd),
                \/ \E sequencers \in [Key -> SUBSET (Nat \X Txn)] : GiveUpKeys(s, t, sequencers)
                \/ UNCHANGED <<execSequencers, entriesInSpec, candidates>>
         PROVE  TypeOK'
    <2>1. /\ execSequencers' \in [Shard -> [Key -> SUBSET (Nat \X Txn)]]
          /\ entriesInSpec' \in [Shard -> [Key -> Txn \cup {None}]]
          /\ candidates' \in [Shard -> SUBSET Txn]
      BY <1>11, TypeGiveUp
    <2>2. /\ execStatus' \in [Shard -> [Txn -> ExecStatus]]
          /\ toExecQu' \in [Shard -> Seq(Txn \X ExecCommand)]
      BY <1>11, TypeCommand
    <2> QED BY <1>11, <2>1, <2>2 DEF Command
  <1>12. ASSUME NEW s \in Shard, NEW t \in Txn,
                CommandDirect(s, t) \/ CommandSpec(s, t) \/ CommandCommit(s, t)
                    \/ CommandRollback(s, t)
         PROVE  TypeOK'
    <2>1. {"EXEC_DIRECT", "EXEC_SPEC", "EXEC_COMMITING", "EXEC_ROLLBACK"} \subseteq ExecCommand
      BY DEF ExecCommand, ExecStatus
    <2>2. execSequencers[s] \in [Key -> SUBSET (Nat \X Txn)]
      OBVIOUS
    <2>3. [k \in Key |-> IF k \in LocalKeys(s, t)
                         THEN execSequencers[s][k] \cup {<<agreedDdlRank[s][t], t>>}
                         ELSE execSequencers[s][k]] \in [Key -> SUBSET (Nat \X Txn)]
      OBVIOUS
    <2>4. CASE CommandDirect(s, t)
      BY <1>11, <2>1, <2>2, <2>4 DEF CommandDirect
    <2>5. CASE CommandSpec(s, t)
      BY <1>11, <2>1, <2>5 DEF CommandSpec
    <2>6. CASE CommandCommit(s, t)
      BY <1>11, <2>1, <2>2, <2>6 DEF CommandCommit
    <2>7. CASE CommandRollback(s, t)
      BY <1>11, <2>1, <2>3, <2>7 DEF CommandRollback
    <2> QED BY <1>12, <2>4, <2>5, <2>6, <2>7
  <1>13. CASE UNCHANGED vars
    BY <1>13 DEF vars
  <1>14. ASSUME NEW s \in Shard, HoldReleaseTd(s) PROVE TypeOK'
    BY <1>2, <1>3, <1>5, <1>6, <1>7, <1>14 DEF HoldReleaseTd
  <1>15. ASSUME NEW s \in Shard, LeaderDdlSyncTd(s) PROVE TypeOK'
    <2>1. toDdlSync[s] \subseteq Txn
      OBVIOUS
    <2> HIDE DEF TypeOK
    <2> QED BY <1>8, <1>9, <1>15, <2>1 DEF LeaderDdlSyncTd
  <1>16. ASSUME NEW s \in Shard, LeaderPreExecTd(s) PROVE TypeOK'
    BY <1>10, <1>12, <1>16 DEF LeaderPreExecTd
  <1> QED BY <1>1, <1>13, <1>14, <1>15, <1>16 DEF Next

(* Every variable of the leaders always holds a value of its type. *)
THEOREM TypeCorrect == Spec => []TypeOK
  BY TypeInit, TypeNext, PTL DEF Spec
=============================================================================
