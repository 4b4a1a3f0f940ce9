----------------------- MODULE TigaAgreement_proofs -----------------------
(***************************************************************************)
(* The leaders agree on the highest of the deadlines they proposed, for    *)
(* any number of shards and transactions and in any interleaving of their  *)
(* threads: an inductive invariant of TigaSequencer, and the refinement of *)
(* DeadlineAgreement.                                                      *)
(***************************************************************************)
EXTENDS TigaSequencer_proofs

USE DEF entryVars, holdVars, agreeVars, preExecVars

(* The deadline t is released with at shard s is out, and will not change. *)
Proposed(s, t) == phases[s][t][s] # 0
AllProposed(t) == \A p \in Participants[t] : Proposed(p, t)

(* Leader s has concluded something about the deadline of t. *)
Concluded(s, t) ==
    agreeStatus[s][t] \in {"AGREE_FLUSHING", "AGREE_CONFIRMING", "AGREE_COMPLETE"}

InHoldBuffer(s, t) == \E e \in holdBuffer[s] : e[2] = t
OnItsWay(s, t) == t \in toHoldAndRelease[s] \/ InHoldBuffer(s, t) \/ t \in toDdlSync[s]

(* A transaction on its way to LeaderDdlSyncTd is in one queue, once, and  *)
(* its status tells which of its two phases is to come.                    *)
QueueOf(s, t) ==
    /\ <<s, t>> \in requests =>
          s \in Participants[t] /\ agreeStatus[s][t] = "AGREE_NONE"
    /\ OnItsWay(s, t) =>
          /\ s \in Participants[t]
          /\ \/ agreeStatus[s][t] = "AGREE_INIT" /\ phases[s][t][s] = 0
             \/ agreeStatus[s][t] = "AGREE_FLUSHING" /\ phases[s][t][s] = 1
    /\ t \in toHoldAndRelease[s] => t \notin toDdlSync[s] /\ ~ InHoldBuffer(s, t)
    /\ t \in toDdlSync[s] => ~ InHoldBuffer(s, t)
    /\ \A e, f \in holdBuffer[s] : e[2] = t /\ f[2] = t => e = f

(* The phase of a leader's own record is not ahead of its status, and what *)
(* it is released with is a deadline.                                      *)
PhaseOf(s, t) ==
    /\ agreeStatus[s][t] = "AGREE_NONE" => phases[s][t][s] = 0
    /\ agreeStatus[s][t] = "AGREE_INIT" => phases[s][t][s] # 2
    /\ \/ InHoldBuffer(s, t)
       \/ t \in toDdlSync[s]
       \/ Proposed(s, t)
       \/ agreeStatus[s][t] = "AGREE_COMPLETE"
       => localDdlRank[s][t] # 0

(* What leader p says of its own deadline, in a record or in a message: in *)
(* phase 1 its proposal, in phase 2 the highest one.                       *)
Says(t, p, ddl, phase) ==
    /\ phase = 1 => ddl = localDdlRank[p][t]
    /\ phase = 2 => AllProposed(t) /\ HighestProposal(t, ddl)

RecordInv ==
    \A s, p \in Shard, t \in Txn :
        /\ phases[s][t][p] <= phases[p][t][p]
        /\ phases[s][t][p] # 0 => Says(t, p, ddls[s][t][p], phases[s][t][p])

Truthful(m) ==
    /\ m.from # m.to
    /\ {m.from, m.to} \subseteq Participants[m.txn]
    /\ m.phase <= phases[m.from][m.txn][m.from]
    /\ Says(m.txn, m.from, m.ddl, m.phase)

MessageInv == \A m \in ddlNet : Truthful(m)

(* A leader that has concluded something knows the highest proposal; one   *)
(* that moves to it proposed less, and one that is done has it on record   *)
(* for every participant.                                                  *)
StatusOf(s, t) ==
    /\ Concluded(s, t) =>
          /\ HighestProposal(t, agreedDdlRank[s][t])
          /\ \/ AllProposed(t)
             \/ Participants[t] = {s} /\ agreeStatus[s][t] = "AGREE_COMPLETE"
    /\ agreeStatus[s][t] = "AGREE_FLUSHING" => localDdlRank[s][t] # agreedDdlRank[s][t]
    /\ agreeStatus[s][t] = "AGREE_COMPLETE" =>
          \/ Participants[t] = {s}
          \/ \A p \in Participants[t] : /\ phases[s][t][p] # 0
                                       /\ ddls[s][t][p] = agreedDdlRank[s][t]

LeaderInv ==
    \A s \in Shard, t \in Txn : QueueOf(s, t) /\ PhaseOf(s, t) /\ StatusOf(s, t)

IInv == LeaderInv /\ RecordInv /\ MessageInv

-----------------------------------------------------------------------------
(* Ranks that were proposed stay, and phases only grow. *)
Steady ==
    \A p \in Shard, t \in Txn :
        /\ phases[p][t][p] <= phases'[p][t][p]
        /\ Proposed(p, t) => localDdlRank'[p][t] = localDdlRank[p][t]

(* What is known of the proposals, and what a leader says, stays true.     *)
LEMMA StaysTrue ==
  ASSUME TypeOK, TypeOK', Steady
  PROVE  /\ \A t \in Txn : AllProposed(t) => AllProposed(t)'
         /\ \A t \in Txn, ddl \in Nat :
               AllProposed(t) /\ HighestProposal(t, ddl) => HighestProposal(t, ddl)'
         /\ \A t \in Txn, p \in Shard, ddl \in Nat, phase \in {1, 2} :
               phase <= phases[p][t][p] /\ Says(t, p, ddl, phase) => Says(t, p, ddl, phase)'
  <1>1. ASSUME NEW t \in Txn PROVE Participants[t] \subseteq Shard
    BY DEF Participants
  <1>2. ASSUME NEW p \in Shard, NEW t \in Txn
        PROVE  /\ Proposed(p, t) => Proposed(p, t)'
               /\ phases[p][t][p] \in 0..2 /\ phases'[p][t][p] \in 0..2
    BY DEF Steady, Proposed, TypeOK
  <1>3. ASSUME NEW t \in Txn, AllProposed(t) PROVE AllProposed(t)'
    BY <1>1, <1>2, <1>3 DEF AllProposed
  <1>4. ASSUME NEW t \in Txn, NEW ddl \in Nat, AllProposed(t), HighestProposal(t, ddl)
        PROVE  HighestProposal(t, ddl)'
    <2>1. \A p \in Participants[t] : localDdlRank'[p][t] = localDdlRank[p][t]
      BY <1>1, <1>4 DEF Steady, AllProposed
    <2> QED BY <1>4, <2>1 DEF HighestProposal
  <1>5. ASSUME NEW t \in Txn, NEW p \in Shard, NEW ddl \in Nat, NEW phase \in {1, 2},
               phase <= phases[p][t][p], Says(t, p, ddl, phase)
        PROVE  Says(t, p, ddl, phase)'
    <2>1. localDdlRank'[p][t] = localDdlRank[p][t]
      BY <1>2, <1>5 DEF Steady, Proposed
    <2> QED BY <1>3, <1>4, <1>5, <2>1 DEF Says
  <1> QED BY <1>3, <1>4, <1>5

(* A message stays truthful. *)
LEMMA MessagesKept ==
  ASSUME TypeOK, TypeOK', Steady, NEW m \in Message, Truthful(m)
  PROVE  Truthful(m)'
  <1>1. /\ m.from \in Shard /\ m.txn \in Txn /\ m.ddl \in Nat /\ m.phase \in {1, 2}
    BY DEF Message
  <1>2. Says(m.txn, m.from, m.ddl, m.phase)'
    BY <1>1, StaysTrue DEF Truthful
  <1>3. m.phase <= phases'[m.from][m.txn][m.from]
    <2>1. /\ phases[m.from][m.txn][m.from] \in 0..2 /\ phases'[m.from][m.txn][m.from] \in 0..2
          /\ phases[m.from][m.txn][m.from] <= phases'[m.from][m.txn][m.from]
      <3>1. /\ phases \in [Shard -> [Txn -> [Shard -> 0..2]]]
            /\ phases' \in [Shard -> [Txn -> [Shard -> 0..2]]]
        BY DEF TypeOK
      <3> QED BY <1>1, <3>1 DEF Steady
    <2> QED BY <1>1, <2>1 DEF Truthful
  <1> QED BY <1>2, <1>3 DEF Truthful

(* Nothing known by record or message is lost while these do not change. *)
LEMMA RecordsKept ==
  ASSUME TypeOK, TypeOK', IInv, Steady, UNCHANGED <<phases, ddls, ddlNet>>
  PROVE  RecordInv' /\ MessageInv'
  <1>1. RecordInv'
    <2> SUFFICES ASSUME NEW s \in Shard, NEW p \in Shard, NEW t \in Txn
                 PROVE  (/\ phases[s][t][p] <= phases[p][t][p]
                         /\ phases[s][t][p] # 0 => Says(t, p, ddls[s][t][p], phases[s][t][p]))'
      BY DEF RecordInv
    <2>1. /\ phases[s][t][p] \in 0..2 /\ ddls[s][t][p] \in Nat
          /\ phases'[s][t][p] = phases[s][t][p] /\ ddls'[s][t][p] = ddls[s][t][p]
          /\ phases'[p][t][p] = phases[p][t][p]
      BY DEF TypeOK
    <2>2. /\ phases[s][t][p] <= phases[p][t][p]
          /\ phases[s][t][p] # 0 => Says(t, p, ddls[s][t][p], phases[s][t][p])
      BY DEF IInv, RecordInv
    <2>3. ASSUME phases[s][t][p] # 0 PROVE Says(t, p, ddls[s][t][p], phases[s][t][p])'
      <3>1. phases[s][t][p] \in {1, 2}
        BY <2>1, <2>3
      <3>2. ASSUME NEW ddl \in Nat, NEW phase \in {1, 2}, phase <= phases[p][t][p],
                   Says(t, p, ddl, phase)
            PROVE  Says(t, p, ddl, phase)'
        BY <3>2, StaysTrue
      <3>3. PICK ddl \in Nat, phase \in {1, 2} : ddl = ddls[s][t][p] /\ phase = phases[s][t][p]
        BY <2>1, <3>1
      <3>4. Says(t, p, ddl, phase)'
        BY <2>2, <2>3, <3>2, <3>3
      <3> QED BY <2>1, <3>3, <3>4 DEF Says
    <2> QED BY <2>1, <2>2, <2>3
  <1>2. MessageInv'
    BY MessagesKept DEF IInv, MessageInv, TypeOK
  <1> QED BY <1>1, <1>2

(* What a leader has concluded stays true; what it is done with stays on   *)
(* record.                                                                 *)
LEMMA StatusKept ==
  ASSUME TypeOK, TypeOK', IInv, Steady, NEW s \in Shard, NEW t \in Txn,
         agreeStatus[s][t] = "AGREE_COMPLETE" =>
             phases'[s][t] = phases[s][t] /\ ddls'[s][t] = ddls[s][t],
         agreeStatus'[s][t] = agreeStatus[s][t],
         agreedDdlRank'[s][t] = agreedDdlRank[s][t],
         Concluded(s, t) => localDdlRank'[s][t] = localDdlRank[s][t]
  PROVE  StatusOf(s, t)'
  <1>1. StatusOf(s, t)
    BY DEF IInv, LeaderInv
  <1>2. agreedDdlRank[s][t] \in Nat
    BY DEF TypeOK
  <1>3. ASSUME Concluded(s, t)
        PROVE  /\ HighestProposal(t, agreedDdlRank[s][t])'
               /\ \/ AllProposed(t)'
                  \/ Participants[t] = {s} /\ agreeStatus[s][t] = "AGREE_COMPLETE"
    <2>1. CASE AllProposed(t)
      <3>1. ASSUME NEW ddl \in Nat, HighestProposal(t, ddl) PROVE HighestProposal(t, ddl)'
        BY <2>1, <3>1, StaysTrue
      <3>2. PICK ddl \in Nat : ddl = agreedDdlRank[s][t]
        BY <1>2
      <3>3. HighestProposal(t, ddl)'
        BY <1>1, <1>3, <3>1, <3>2 DEF StatusOf
      <3>4. AllProposed(t)'
        BY <2>1, StaysTrue
      <3> QED BY <3>2, <3>3, <3>4 DEF HighestProposal
    <2>2. CASE ~ AllProposed(t)
      BY <1>1, <1>3, <2>2 DEF StatusOf, HighestProposal
    <2> QED BY <2>1, <2>2
  <1> QED BY <1>1, <1>3 DEF StatusOf, Concluded

(* A step of leader s that concerns t only, and no record. *)
OnlyAt(s, t) ==
    \A r \in Shard, u \in Txn :
        <<r, u>> # <<s, t>> =>
            /\ localDdlRank'[r][u] = localDdlRank[r][u]
            /\ agreedDdlRank'[r][u] = agreedDdlRank[r][u]
            /\ agreeStatus'[r][u] = agreeStatus[r][u]
            /\ <<r, u>> \in requests' => <<r, u>> \in requests
            /\ (u \in toHoldAndRelease'[r]) <=> (u \in toHoldAndRelease[r])
            /\ (u \in toDdlSync'[r]) <=> (u \in toDdlSync[r])
            /\ \A e : e[2] = u => ((e \in holdBuffer'[r]) <=> (e \in holdBuffer[r]))

(* It keeps what the invariant says of the other leaders and transactions. *)
LEMMA InvElsewhere ==
  ASSUME TypeOK, TypeOK', IInv, Steady, NEW s \in Shard, NEW t \in Txn, OnlyAt(s, t),
         NEW r \in Shard, NEW u \in Txn, <<r, u>> # <<s, t>>,
         phases'[r][u] = phases[r][u], ddls'[r][u] = ddls[r][u]
  PROVE  (QueueOf(r, u) /\ PhaseOf(r, u) /\ StatusOf(r, u))'
  <1>1. QueueOf(r, u) /\ PhaseOf(r, u)
    BY DEF IInv, LeaderInv
  <1>2. InHoldBuffer(r, u)' <=> InHoldBuffer(r, u)
    BY DEF OnlyAt, InHoldBuffer
  <1>3. QueueOf(r, u)'
    BY <1>1, <1>2 DEF OnlyAt, QueueOf, OnItsWay
  <1>4. PhaseOf(r, u)'
    BY <1>1, <1>2 DEF OnlyAt, PhaseOf, Proposed
  <1>5. StatusOf(r, u)'
    BY StatusKept DEF OnlyAt
  <1> QED BY <1>3, <1>4, <1>5

(* It keeps the invariant when it does for t at s. *)
LEMMA InvOnlyAt ==
  ASSUME TypeOK, TypeOK', IInv, NEW s \in Shard, NEW t \in Txn,
         OnlyAt(s, t), UNCHANGED <<phases, ddls, ddlNet>>,
         Proposed(s, t) => localDdlRank'[s][t] = localDdlRank[s][t],
         (QueueOf(s, t) /\ PhaseOf(s, t) /\ StatusOf(s, t))'
  PROVE  IInv'
  <1>1. Steady
    <2>1. ASSUME NEW p \in Shard, NEW u \in Txn
          PROVE  /\ phases[p][u][p] <= phases'[p][u][p]
                 /\ Proposed(p, u) => localDdlRank'[p][u] = localDdlRank[p][u]
      <3>1. phases[p][u][p] \in 0..2 /\ phases'[p][u][p] = phases[p][u][p]
        BY DEF TypeOK
      <3>2. CASE <<p, u>> = <<s, t>>
        BY <3>1, <3>2
      <3>3. CASE <<p, u>> # <<s, t>>
        <4>1. localDdlRank'[p][u] = localDdlRank[p][u]
          BY <3>3 DEF OnlyAt
        <4> QED BY <3>1, <4>1
      <3> QED BY <3>2, <3>3
    <2> QED BY <2>1 DEF Steady
  <1>2. LeaderInv'
    BY <1>1, InvElsewhere DEF LeaderInv
  <1> QED BY <1>1, <1>2, RecordsKept DEF IInv

(* A request that arrives starts from a blank entry: onNormalRequest keeps IInv. *)
LEMMA InvReceiveRequest ==
  ASSUME TypeOK, TypeOK', IInv, NEW s \in Shard, NEW t \in Txn, ReceiveRequest(s, t)
  PROVE  IInv'
  <1>1. /\ s \in Participants[t] /\ phases[s][t][s] = 0
        /\ QueueOf(s, t) /\ ~ OnItsWay(s, t)
    BY DEF ReceiveRequest, IInv, LeaderInv, QueueOf, PhaseOf
  <1>2. PICK rank :
          /\ localDdlRank' = [localDdlRank EXCEPT ![s][t] = rank]
          /\ requests' = requests \ {<<s, t>>}
          /\ agreeStatus' = [agreeStatus EXCEPT ![s][t] = "AGREE_INIT"]
          /\ toHoldAndRelease' = [toHoldAndRelease EXCEPT ![s] = @ \cup {t}]
          /\ UNCHANGED <<agreedDdlRank, holdBuffer, toDdlSync, ddlNet, ddls, phases>>
    BY DEF ReceiveRequest
  <1>3. /\ localDdlRank \in [Shard -> [Txn -> Nat]]
        /\ agreeStatus \in [Shard -> [Txn -> AgreeStatus]]
        /\ toHoldAndRelease \in [Shard -> SUBSET Txn]
    BY DEF TypeOK
  <1>4. OnlyAt(s, t)
    BY <1>2, <1>3 DEF OnlyAt
  <1>5. /\ agreeStatus'[s][t] = "AGREE_INIT" /\ t \in toHoldAndRelease'[s]
        /\ <<s, t>> \notin requests'
    BY <1>2, <1>3
  <1>6. (QueueOf(s, t) /\ PhaseOf(s, t) /\ StatusOf(s, t))'
    BY <1>1, <1>2, <1>5
    DEF QueueOf, PhaseOf, StatusOf, OnItsWay, InHoldBuffer, Proposed, Concluded
  <1> QED BY <1>1, <1>2, <1>4, <1>6, InvOnlyAt DEF Proposed

(* Raising a deadline before its release contradicts no report: HoldNew keeps IInv. *)
LEMMA InvHoldNew ==
  ASSUME TypeOK, TypeOK', IInv, NEW s \in Shard, NEW t \in Txn, HoldNew(s, t)
  PROVE  IInv'
  <1>1. /\ s \in Participants[t] /\ agreeStatus[s][t] = "AGREE_INIT"
        /\ QueueOf(s, t) /\ phases[s][t][s] = 0
        /\ t \notin toDdlSync[s] /\ ~ InHoldBuffer(s, t)
    BY DEF HoldNew, IInv, LeaderInv, QueueOf, OnItsWay
  <1>2. PICK last \in {lastReleased[s][k] : k \in LocalKeys(s, t)} :
          LET rank == IF localDdlRank[s][t] > last THEN localDdlRank[s][t] ELSE last + 1
          IN  /\ localDdlRank' = [localDdlRank EXCEPT ![s][t] = rank]
              /\ holdBuffer' = [holdBuffer EXCEPT ![s] = @ \cup {<<rank, t>>}]
    BY DEF HoldNew
  <1>3. /\ localDdlRank \in [Shard -> [Txn -> Nat]]
        /\ toHoldAndRelease \in [Shard -> SUBSET Txn]
        /\ holdBuffer \in [Shard -> SUBSET (Nat \X Txn)]
        /\ last \in Nat
    BY <1>2, KeysAssumption DEF LocalKeys, TypeOK
  <1> DEFINE rank == IF localDdlRank[s][t] > last THEN localDdlRank[s][t] ELSE last + 1
  <1>4. rank # 0
    BY <1>3
  <1>5. /\ localDdlRank' = [localDdlRank EXCEPT ![s][t] = rank]
        /\ holdBuffer' = [holdBuffer EXCEPT ![s] = @ \cup {<<rank, t>>}]
        /\ toHoldAndRelease' = [toHoldAndRelease EXCEPT ![s] = @ \ {t}]
        /\ UNCHANGED <<requests, agreedDdlRank, agreeStatus, toDdlSync, ddlNet, ddls, phases>>
    BY <1>2 DEF HoldNew
  <1> HIDE DEF rank
  <1>6. OnlyAt(s, t)
    BY <1>3, <1>5 DEF OnlyAt
  <1>7. /\ holdBuffer'[s] = holdBuffer[s] \cup {<<rank, t>>}
        /\ localDdlRank'[s][t] # 0 /\ t \notin toHoldAndRelease'[s]
    BY <1>3, <1>4, <1>5
  <1>8. (QueueOf(s, t) /\ PhaseOf(s, t) /\ StatusOf(s, t))'
    BY <1>1, <1>5, <1>7
    DEF QueueOf, PhaseOf, StatusOf, OnItsWay, InHoldBuffer, Proposed, Concluded
  <1> QED BY <1>1, <1>5, <1>6, <1>8, InvOnlyAt DEF Proposed

(* A flushed transaction only changes queue: HoldFlushing keeps IInv. *)
LEMMA InvHoldFlushing ==
  ASSUME TypeOK, TypeOK', IInv, NEW s \in Shard, NEW t \in Txn, HoldFlushing(s, t)
  PROVE  IInv'
  <1>1. /\ s \in Participants[t] /\ agreeStatus[s][t] = "AGREE_FLUSHING"
        /\ QueueOf(s, t) /\ PhaseOf(s, t) /\ phases[s][t][s] = 1
        /\ t \notin toDdlSync[s] /\ ~ InHoldBuffer(s, t)
    BY DEF HoldFlushing, IInv, LeaderInv, QueueOf, OnItsWay
  <1>2. /\ holdBuffer' = [holdBuffer EXCEPT ![s] = @ \cup {<<agreedDdlRank[s][t], t>>}]
        /\ toHoldAndRelease' = [toHoldAndRelease EXCEPT ![s] = @ \ {t}]
        /\ UNCHANGED <<requests, localDdlRank, agreedDdlRank, agreeStatus, toDdlSync,
                       ddlNet, ddls, phases>>
    BY DEF HoldFlushing
  <1>3. /\ toHoldAndRelease \in [Shard -> SUBSET Txn]
        /\ holdBuffer \in [Shard -> SUBSET (Nat \X Txn)]
    BY DEF TypeOK
  <1>4. OnlyAt(s, t)
    BY <1>2, <1>3 DEF OnlyAt
  <1>5. /\ holdBuffer'[s] = holdBuffer[s] \cup {<<agreedDdlRank[s][t], t>>}
        /\ t \notin toHoldAndRelease'[s]
    BY <1>2, <1>3
  <1>6. (QueueOf(s, t) /\ PhaseOf(s, t))'
    BY <1>1, <1>2, <1>5 DEF QueueOf, PhaseOf, OnItsWay, InHoldBuffer, Proposed
  <1>7. StatusOf(s, t)'
    <2>1. StatusOf(s, t)
      BY DEF IInv, LeaderInv
    <2> QED BY <1>2, <2>1 DEF StatusOf, Concluded, HighestProposal, AllProposed, Proposed
  <1> QED BY <1>2, <1>4, <1>6, <1>7, InvOnlyAt

(* What a transaction that leaves the hold buffer leaves behind. *)
LEMMA Left ==
  ASSUME TypeOK, IInv, NEW s \in Shard, NEW e \in holdBuffer[s], LeaveHoldBuffer(s, e)
  PROVE  /\ e[2] \in Txn /\ s \in Participants[e[2]]
         /\ QueueOf(s, e[2]) /\ PhaseOf(s, e[2]) /\ StatusOf(s, e[2])
         /\ OnItsWay(s, e[2]) /\ localDdlRank[s][e[2]] # 0
         /\ e[2] \notin toHoldAndRelease[s] /\ e[2] \notin toDdlSync[s]
         /\ ~ InHoldBuffer(s, e[2])'
         /\ \A r \in Shard : \A f : (f \in holdBuffer'[r]) <=>
                                   (f \in holdBuffer[r] /\ <<r, f>> # <<s, e>>)
         /\ UNCHANGED <<requests, localDdlRank, toHoldAndRelease, ddlNet, ddls, phases>>
  <1>1. holdBuffer \in [Shard -> SUBSET (Nat \X Txn)]
    BY DEF TypeOK
  <1>2. e[2] \in Txn
    BY <1>1
  <1>3. QueueOf(s, e[2]) /\ PhaseOf(s, e[2]) /\ StatusOf(s, e[2])
    BY <1>2 DEF IInv, LeaderInv
  <1>4. InHoldBuffer(s, e[2])
    BY DEF InHoldBuffer
  <1>5. /\ holdBuffer' = [holdBuffer EXCEPT ![s] = @ \ {e}]
        /\ UNCHANGED <<requests, localDdlRank, toHoldAndRelease, ddlNet, ddls, phases>>
    BY DEF LeaveHoldBuffer
  <1>6. holdBuffer'[s] = holdBuffer[s] \ {e}
    BY <1>1, <1>5
  <1>7. ~ InHoldBuffer(s, e[2])'
    BY <1>3, <1>6 DEF InHoldBuffer, QueueOf
  <1>8. \A r \in Shard : \A f : (f \in holdBuffer'[r]) <=>
                              (f \in holdBuffer[r] /\ <<r, f>> # <<s, e>>)
    BY <1>1, <1>5
  <1> QED BY <1>2, <1>3, <1>4, <1>5, <1>7, <1>8 DEF QueueOf, PhaseOf, OnItsWay

(* The release at the agreed deadline keeps IInv. *)
LEMMA InvReleaseFlushing ==
  ASSUME TypeOK, TypeOK', IInv, NEW s \in Shard, NEW e \in holdBuffer[s], ReleaseFlushing(s, e)
  PROVE  IInv'
  <1> DEFINE t == e[2]
  <1>1. LeaveHoldBuffer(s, e)
    BY DEF ReleaseFlushing
  <1>2. /\ toDdlSync' = [toDdlSync EXCEPT ![s] = @ \cup {t}]
        /\ UNCHANGED <<agreedDdlRank, agreeStatus>>
    BY DEF ReleaseFlushing
  <1>3. toDdlSync \in [Shard -> SUBSET Txn]
    BY DEF TypeOK
  <1>4. OnlyAt(s, t)
    BY <1>1, <1>2, <1>3, Left DEF OnlyAt
  <1>5. (QueueOf(s, t) /\ PhaseOf(s, t))'
    BY <1>1, <1>2, <1>3, Left DEF QueueOf, PhaseOf, OnItsWay, InHoldBuffer, Proposed
  <1>6. StatusOf(s, t)'
    BY SMTT(30), <1>1, <1>2, Left DEF StatusOf, Concluded, HighestProposal, AllProposed, Proposed
  <1> QED BY <1>1, <1>4, <1>5, <1>6, Left, InvOnlyAt

(* The release at the local deadline, which fixes it, keeps IInv. *)
LEMMA InvReleaseMultiShard ==
  ASSUME TypeOK, TypeOK', IInv, NEW s \in Shard, NEW e \in holdBuffer[s],
         ReleaseMultiShard(s, e)
  PROVE  IInv'
  <1> DEFINE t == e[2]
  <1>1. LeaveHoldBuffer(s, e)
    BY DEF ReleaseMultiShard
  <1>2. /\ toDdlSync' = [toDdlSync EXCEPT ![s] = @ \cup {t}]
        /\ UNCHANGED <<agreedDdlRank, agreeStatus>>
    BY DEF ReleaseMultiShard
  <1>3. toDdlSync \in [Shard -> SUBSET Txn]
    BY DEF TypeOK
  <1>4. OnlyAt(s, t)
    BY <1>1, <1>2, <1>3, Left DEF OnlyAt
  <1>5. (QueueOf(s, t) /\ PhaseOf(s, t))'
    BY <1>1, <1>2, <1>3, Left DEF QueueOf, PhaseOf, OnItsWay, InHoldBuffer, Proposed
  <1>6. StatusOf(s, t)'
    BY SMTT(30), <1>1, <1>2, Left DEF StatusOf, Concluded, HighestProposal, AllProposed, Proposed
  <1> QED BY <1>1, <1>4, <1>5, <1>6, Left, InvOnlyAt

(* A single-shard transaction agrees with itself as it is released. *)
LEMMA InvReleaseSingleShard ==
  ASSUME TypeOK, TypeOK', IInv, NEW s \in Shard, NEW e \in holdBuffer[s],
         ReleaseSingleShard(s, e)
  PROVE  IInv'
  <1> DEFINE t == e[2]
  <1>1. LeaveHoldBuffer(s, e)
    BY DEF ReleaseSingleShard
  <1>2. /\ Participants[t] = {s}
        /\ agreedDdlRank' = [agreedDdlRank EXCEPT ![s][t] = localDdlRank[s][t]]
        /\ agreeStatus' = [agreeStatus EXCEPT ![s][t] = "AGREE_COMPLETE"]
        /\ UNCHANGED toDdlSync
    BY DEF ReleaseSingleShard
  <1>3. /\ agreedDdlRank \in [Shard -> [Txn -> Nat]]
        /\ agreeStatus \in [Shard -> [Txn -> AgreeStatus]]
        /\ t \in Txn /\ localDdlRank[s][t] \in Nat
    <2>1. t \in Txn
      BY <1>1, Left
    <2> QED BY <2>1 DEF TypeOK
  <1>4. OnlyAt(s, t)
    BY <1>1, <1>2, <1>3, Left DEF OnlyAt
  <1>5. agreedDdlRank'[s][t] = localDdlRank[s][t] /\ agreeStatus'[s][t] = "AGREE_COMPLETE"
    BY <1>2, <1>3
  <1>6. (QueueOf(s, t) /\ PhaseOf(s, t))'
    BY <1>1, <1>2, <1>5, Left DEF QueueOf, PhaseOf, OnItsWay, InHoldBuffer, Proposed
  <1>7. StatusOf(s, t)'
    <2>1. HighestProposal(t, agreedDdlRank[s][t])'
      BY <1>1, <1>2, <1>3, <1>5, Left DEF HighestProposal
    <2> QED BY <1>2, <1>5, <2>1 DEF StatusOf, Concluded
  <1> QED BY <1>1, <1>3, <1>4, <1>6, <1>7, Left, InvOnlyAt

-----------------------------------------------------------------------------
(* The records.                                                            *)

(* When what the leaders are on record with is what they say, the highest  *)
(* on record is the highest proposal.                                      *)
LEMMA RecordsSuffice ==
  ASSUME TypeOK', NEW t \in Txn, NEW d \in [Shard -> Nat], NEW ph \in [Shard -> 0..2],
         NEW top \in Nat, Highest(d, t, top),
         \A p \in Participants[t] :
             /\ ph[p] # 0 /\ ph[p] <= phases'[p][t][p]
             /\ Says(t, p, d[p], ph[p])'
  PROVE  (AllProposed(t) /\ HighestProposal(t, top))'
  <1>1. Participants[t] \subseteq Shard
    BY DEF Participants
  <1>2. AllProposed(t)'
    <2>1. ASSUME NEW p \in Participants[t] PROVE phases'[p][t][p] # 0
      <3>1. ph[p] \in 1..2 /\ phases'[p][t][p] \in 0..2
        BY <1>1 DEF TypeOK
      <3> QED BY <3>1
    <2> QED BY <2>1 DEF AllProposed, Proposed
  <1>3. \A p \in Participants[t] : localDdlRank'[p][t] \in Nat /\ d[p] \in Nat
    BY <1>1 DEF TypeOK
  <1>4. CASE \E q \in Participants[t] : ph[q] = 2
    <2>1. PICK q \in Participants[t] : ph[q] = 2
      BY <1>4
    <2>2. HighestProposal(t, d[q])'
      BY <2>1 DEF Says
    <2>3. ASSUME NEW p \in Participants[t] PROVE d[p] <= d[q]
      <3>1. CASE ph[p] = 1
        BY <2>2, <3>1 DEF Says, HighestProposal
      <3>2. CASE ph[p] = 2
        BY <1>3, <2>2, <3>2 DEF Says, HighestProposal
      <3>3. ph[p] \in 0..2
        BY <1>1
      <3> QED BY <3>1, <3>2, <3>3
    <2>4. d[q] <= top /\ \E p \in Participants[t] : d[p] = top
      BY <2>1 DEF Highest
    <2>5. d[q] = top
      BY <1>3, <2>3, <2>4
    <2> QED BY <1>2, <2>2, <2>5
  <1>5. CASE \A q \in Participants[t] : ph[q] = 1
    <2>1. \A p \in Participants[t] : d[p] = localDdlRank'[p][t]
      BY <1>5 DEF Says
    <2> QED BY <1>2, <2>1 DEF Highest, HighestProposal
  <1>6. \A q \in Participants[t] : ph[q] \in {1, 2}
    BY <1>1
  <1> QED BY <1>4, <1>5, <1>6

(* There is one highest proposal. *)
LEMMA OneHighest ==
  ASSUME TypeOK, NEW t \in Txn, NEW x, NEW y, HighestProposal(t, x), HighestProposal(t, y)
  PROVE  x = y
  <1>1. \A p \in Participants[t] : localDdlRank[p][t] \in Nat
    BY DEF TypeOK, Participants
  <1> QED BY <1>1 DEF HighestProposal

(* Leader s has put on record that the leader of shard from stands at ddl. *)
Recorded(s, t, from, ddl, phase) ==
    /\ \A r \in Shard, u \in Txn : <<r, u>> # <<s, t>> =>
          phases'[r][u] = phases[r][u] /\ ddls'[r][u] = ddls[r][u]
    /\ phases'[s][t][from] = phase /\ ddls'[s][t][from] = ddl
    /\ \A p \in Shard : p # from =>
          phases'[s][t][p] = phases[s][t][p] /\ ddls'[s][t][p] = ddls[s][t][p]

(* It does so with what that leader says.                                  *)
LEMMA InvRecord ==
  ASSUME TypeOK, TypeOK', RecordInv, NEW s \in Shard, NEW t \in Txn, NEW from \in Shard,
         NEW ddl \in Nat, NEW phase \in {1, 2},
         phases[s][t][from] < phase,
         from = s \/ phase <= phases[from][t][from],
         Says(t, from, ddl, phase),
         UNCHANGED localDdlRank,
         Recorded(s, t, from, ddl, phase)
  PROVE  Steady /\ RecordInv'
  <1>1. /\ ddls \in [Shard -> [Txn -> [Shard -> Nat]]]
        /\ phases \in [Shard -> [Txn -> [Shard -> 0..2]]]
    BY DEF TypeOK
  <1>2. /\ \A r \in Shard, u \in Txn : <<r, u>> # <<s, t>> =>
              phases'[r][u] = phases[r][u] /\ ddls'[r][u] = ddls[r][u]
        /\ phases'[s][t][from] = phase /\ ddls'[s][t][from] = ddl
        /\ \A p \in Shard : p # from =>
              phases'[s][t][p] = phases[s][t][p] /\ ddls'[s][t][p] = ddls[s][t][p]
    BY DEF Recorded
  <1>3. Steady
    <2>1. ASSUME NEW p \in Shard, NEW u \in Txn PROVE phases[p][u][p] <= phases'[p][u][p]
      <3>1. phases[p][u][p] \in 0..2
        BY <1>1
      <3>2. CASE <<p, u>> = <<s, t>> /\ p = from
        BY <1>2, <3>1, <3>2
      <3>3. CASE ~ (<<p, u>> = <<s, t>> /\ p = from)
        BY <1>2, <3>1, <3>3
      <3> QED BY <3>2, <3>3
    <2> QED BY <2>1 DEF Steady
  <1>4. ASSUME NEW u \in Txn, NEW p \in Shard, NEW x \in Nat, NEW y \in {1, 2}, Says(u, p, x, y)
        PROVE  Says(u, p, x, y)'
    BY <1>3, <1>4, StaysTrue DEF Says
  <1>5. RecordInv'
    <2> SUFFICES ASSUME NEW r \in Shard, NEW p \in Shard, NEW u \in Txn
                 PROVE  (/\ phases[r][u][p] <= phases[p][u][p]
                         /\ phases[r][u][p] # 0 => Says(u, p, ddls[r][u][p], phases[r][u][p]))'
      BY DEF RecordInv
    <2>1. CASE <<r, u>> = <<s, t>> /\ p = from
      <3>1. phases'[r][u][p] = phase /\ ddls'[r][u][p] = ddl
        BY <1>2, <2>1
      <3>2. phase <= phases'[p][u][p]
        <4>1. CASE p = s
          BY <1>2, <2>1, <4>1
        <4>2. CASE p # s
          BY <1>2, <2>1, <4>2
        <4> QED BY <4>1, <4>2
      <3>3. Says(u, p, ddl, phase)'
        BY <1>4, <2>1
      <3> QED BY <3>1, <3>2, <3>3 DEF Says
    <2>2. CASE ~ (<<r, u>> = <<s, t>> /\ p = from)
      <3>1. phases'[r][u][p] = phases[r][u][p] /\ ddls'[r][u][p] = ddls[r][u][p]
        BY <1>2, <2>2
      <3>2. /\ phases[r][u][p] \in 0..2 /\ ddls[r][u][p] \in Nat
            /\ phases[p][u][p] \in 0..2 /\ phases'[p][u][p] \in 0..2
        <4>1. phases' \in [Shard -> [Txn -> [Shard -> 0..2]]]
          BY DEF TypeOK
        <4> QED BY <1>1, <4>1
      <3>3. phases'[r][u][p] <= phases'[p][u][p]
        BY <1>3, <3>1, <3>2 DEF RecordInv, Steady
      <3>4. ASSUME phases[r][u][p] # 0 PROVE Says(u, p, ddls[r][u][p], phases[r][u][p])'
        <4>1. PICK x \in Nat, y \in {1, 2} : x = ddls[r][u][p] /\ y = phases[r][u][p]
          BY <3>2, <3>4
        <4>2. Says(u, p, x, y)
          BY <3>4, <4>1 DEF RecordInv
        <4>3. Says(u, p, x, y)'
          BY <1>4, <4>2
        <4> QED BY <3>1, <4>1, <4>3 DEF Says
      <3> QED BY <3>1, <3>3, <3>4
    <2> QED BY <2>1, <2>2
  <1> QED BY <1>3, <1>5

(* What a leader concludes from its records is true. *)
LEMMA InvConclude ==
  ASSUME TypeOK, TypeOK', IInv, Steady, RecordInv', UNCHANGED localDdlRank,
         NEW s \in Shard, NEW t \in Txn, s \in Participants[t],
         NEW d \in [Shard -> Nat], d = ddls'[s][t],
         NEW ph \in [Shard -> 0..2], ph = phases'[s][t],
         \A p \in Participants[t] : ph[p] # 0,
         agreeStatus[s][t] = "AGREE_INIT" => ph[s] # 2,
         agreeStatus[s][t] = "AGREE_COMPLETE" => d[s] = agreedDdlRank[s][t],
         Conclude(s, t, d)
  PROVE  /\ (AllProposed(t) /\ HighestProposal(t, agreedDdlRank[s][t]))'
         /\ StatusOf(s, t)'
  <1>1. PICK top \in {d[p] : p \in Participants[t]} :
          /\ Highest(d, t, top)
          /\ agreedDdlRank' = [agreedDdlRank EXCEPT ![s][t] = top]
          /\ \/ /\ \A p \in Participants[t] : d[p] = top
                /\ agreeStatus' = [agreeStatus EXCEPT ![s][t] = "AGREE_COMPLETE"]
             \/ agreeStatus' = [agreeStatus EXCEPT ![s][t] = "AGREE_CONFIRMING"]
             \/ /\ d[s] # top
                /\ agreeStatus[s][t] = "AGREE_INIT"
                /\ agreeStatus' = [agreeStatus EXCEPT ![s][t] = "AGREE_FLUSHING"]
             \/ /\ d[s] # top
                /\ UNCHANGED agreeStatus
    BY DEF Conclude
  <1>2. /\ agreedDdlRank \in [Shard -> [Txn -> Nat]]
        /\ agreeStatus \in [Shard -> [Txn -> AgreeStatus]]
    BY DEF TypeOK
  <1>3. Participants[t] \subseteq Shard
    BY DEF Participants
  <1>4. top \in Nat /\ agreedDdlRank'[s][t] = top
    BY <1>1, <1>2, <1>3
  <1>5. \A p \in Participants[t] : ph[p] <= phases'[p][t][p] /\ Says(t, p, d[p], ph[p])'
    BY <1>3 DEF RecordInv, Says
  <1>6. (AllProposed(t) /\ HighestProposal(t, top))'
    BY <1>1, <1>4, <1>5, RecordsSuffice
  <1>7. (AllProposed(t) /\ HighestProposal(t, agreedDdlRank[s][t]))'
    BY <1>4, <1>6 DEF HighestProposal
  <1>8. ASSUME d[s] # top, agreeStatus[s][t] = "AGREE_INIT" PROVE localDdlRank'[s][t] # top
    <2>1. ph[s] = 1
      <3>1. ph[s] \in 0..2 /\ ph[s] # 0 /\ ph[s] # 2
        BY <1>8
      <3> QED BY <3>1
    <2>2. d[s] = localDdlRank'[s][t]
      BY <1>5, <2>1 DEF Says
    <2> QED BY <1>8, <2>2
  <1>9. ASSUME d[s] # top, Concluded(s, t)
        PROVE  /\ agreeStatus[s][t] # "AGREE_COMPLETE"
               /\ agreeStatus[s][t] = "AGREE_FLUSHING" => localDdlRank'[s][t] # top
    <2>1. StatusOf(s, t)
      BY DEF IInv, LeaderInv
    <2>2. HighestProposal(t, agreedDdlRank[s][t])
      BY <1>9, <2>1 DEF StatusOf
    <2>3. HighestProposal(t, top)
      BY <1>6 DEF HighestProposal
    <2>4. agreedDdlRank[s][t] = top
      BY <2>2, <2>3, OneHighest
    <2> QED BY <1>9, <2>1, <2>4 DEF StatusOf
  <1>10. StatusOf(s, t)'
    <2>1. CASE /\ \A p \in Participants[t] : d[p] = top
               /\ agreeStatus' = [agreeStatus EXCEPT ![s][t] = "AGREE_COMPLETE"]
      <3>1. agreeStatus'[s][t] = "AGREE_COMPLETE"
        BY <1>2, <2>1
      <3>2. \A p \in Participants[t] :
              phases'[s][t][p] # 0 /\ ddls'[s][t][p] = agreedDdlRank'[s][t]
        BY <1>4, <2>1
      <3> QED BY <1>7, <3>1, <3>2 DEF StatusOf
    <2>2. CASE agreeStatus' = [agreeStatus EXCEPT ![s][t] = "AGREE_CONFIRMING"]
      <3>1. agreeStatus'[s][t] = "AGREE_CONFIRMING"
        BY <1>2, <2>2
      <3> QED BY <1>7, <3>1 DEF StatusOf
    <2>3. CASE /\ d[s] # top
               /\ agreeStatus[s][t] = "AGREE_INIT"
               /\ agreeStatus' = [agreeStatus EXCEPT ![s][t] = "AGREE_FLUSHING"]
      <3>1. agreeStatus'[s][t] = "AGREE_FLUSHING"
        BY <1>2, <2>3
      <3> QED BY <1>4, <1>7, <1>8, <2>3, <3>1 DEF StatusOf
    <2>4. CASE d[s] # top /\ UNCHANGED agreeStatus
      BY <1>4, <1>7, <1>9, <2>4 DEF StatusOf, Concluded
    <2> QED BY <1>1, <2>1, <2>2, <2>3, <2>4
  <1> QED BY <1>7, <1>10

(* An update of the record of t at leader s disturbs no other record.      *)
UpdatedAt(s, t) ==
    \A r \in Shard, u \in Txn : <<r, u>> # <<s, t>> =>
        /\ phases'[r][u] = phases[r][u] /\ ddls'[r][u] = ddls[r][u]
        /\ agreeStatus'[r][u] = agreeStatus[r][u]
        /\ agreedDdlRank'[r][u] = agreedDdlRank[r][u]

(* It leaves the leader where it was, done or waiting for the others, or   *)
(* with a deadline to move to.                                             *)
Outcome(s, t) ==
    \/ agreeStatus'[s][t] = agreeStatus[s][t] /\ UNCHANGED toHoldAndRelease
    \/ /\ agreeStatus'[s][t] \in {"AGREE_COMPLETE", "AGREE_CONFIRMING"}
       /\ phases'[s][t][s] # 0
       /\ ~ (agreeStatus[s][t] = "AGREE_FLUSHING" /\ phases'[s][t][s] = 1)
       /\ UNCHANGED toHoldAndRelease
    \/ /\ agreeStatus[s][t] = "AGREE_INIT" /\ agreeStatus'[s][t] = "AGREE_FLUSHING"
       /\ phases'[s][t][s] = 1
       /\ toHoldAndRelease' = [toHoldAndRelease EXCEPT ![s] = @ \cup {t}]

(* UpdateDeadlineRecord with a report that is news: what it leaves for the *)
(* leader to do.                                                           *)
LEMMA InvUpdate ==
  ASSUME TypeOK, TypeOK', IInv, NEW s \in Shard, NEW t \in Txn, s \in Participants[t],
         NEW from \in Shard, NEW ddl \in Nat, NEW phase \in {1, 2},
         phases[s][t][from] < phase,
         from = s \/ phase <= phases[from][t][from],
         Says(t, from, ddl, phase),
         from = s /\ phase = 2 => agreeStatus[s][t] = "AGREE_FLUSHING",
         agreeStatus[s][t] = "AGREE_COMPLETE" => from # s /\ Participants[t] # {s},
         UpdateDeadlineRecord(s, t, from, ddl, phase),
         UNCHANGED localDdlRank
  PROVE  /\ Steady /\ RecordInv' /\ StatusOf(s, t)'
         /\ UpdatedAt(s, t)
         /\ from = s => phases'[s][t][s] = phase
         /\ from # s => phases'[s][t][s] = phases[s][t][s]
         /\ Outcome(s, t)
  <1> DEFINE d == [ddls[s][t] EXCEPT ![from] = ddl]
             ph == [phases[s][t] EXCEPT ![from] = phase]
  <1>1. /\ ddls' = [ddls EXCEPT ![s][t] = d]
        /\ phases' = [phases EXCEPT ![s][t] = ph]
        /\ IF \A p \in Participants[t] : ph[p] # 0
           THEN Conclude(s, t, d)
           ELSE UNCHANGED <<agreedDdlRank, agreeStatus, toHoldAndRelease>>
    <2>1. ~ (phases[s][t][from] >= phase)
      <3>1. phases[s][t][from] \in 0..2
        BY DEF TypeOK
      <3> QED BY <3>1
    <2> QED BY <2>1 DEF UpdateDeadlineRecord
  <1>2. /\ Steady /\ RecordInv'
        /\ Recorded(s, t, from, ddl, phase)
        /\ d \in [Shard -> Nat] /\ d = ddls'[s][t]
        /\ ph \in [Shard -> 0..2] /\ ph = phases'[s][t]
    <2>1. /\ ddls \in [Shard -> [Txn -> [Shard -> Nat]]]
          /\ phases \in [Shard -> [Txn -> [Shard -> 0..2]]]
      BY DEF TypeOK
    <2>2. ddls[s][t] \in [Shard -> Nat] /\ phases[s][t] \in [Shard -> 0..2]
      BY <2>1
    <2>3. /\ d \in [Shard -> Nat] /\ d[from] = ddl
          /\ \A p \in Shard : p # from => d[p] = ddls[s][t][p]
      BY <2>2
    <2>4. /\ ph \in [Shard -> 0..2] /\ ph[from] = phase
          /\ \A p \in Shard : p # from => ph[p] = phases[s][t][p]
      BY <2>2
    <2> HIDE DEF d, ph
    <2>5. d = ddls'[s][t] /\ ph = phases'[s][t]
      BY <1>1, <2>1
    <2>6. \A r \in Shard, u \in Txn : <<r, u>> # <<s, t>> =>
             phases'[r][u] = phases[r][u] /\ ddls'[r][u] = ddls[r][u]
      BY <1>1, <2>1
    <2>7. Recorded(s, t, from, ddl, phase)
      BY <2>3, <2>4, <2>5, <2>6 DEF Recorded
    <2>8. RecordInv
      BY DEF IInv
    <2>9. Steady /\ RecordInv'
      BY <2>7, <2>8, InvRecord
    <2> QED BY <2>3, <2>4, <2>5, <2>7, <2>9
  <1>3. QueueOf(s, t) /\ PhaseOf(s, t) /\ StatusOf(s, t)
    BY DEF IInv, LeaderInv
  <1>4. /\ agreedDdlRank \in [Shard -> [Txn -> Nat]]
        /\ agreeStatus \in [Shard -> [Txn -> AgreeStatus]]
        /\ \A p \in Shard : phases[s][t][p] \in 0..2 /\ phases'[s][t][p] \in 0..2
    <2>1. /\ phases \in [Shard -> [Txn -> [Shard -> 0..2]]]
          /\ phases' \in [Shard -> [Txn -> [Shard -> 0..2]]]
      BY DEF TypeOK
    <2>2. \A p \in Shard : phases[s][t][p] \in 0..2 /\ phases'[s][t][p] \in 0..2
      BY <2>1
    <2> QED BY <2>2 DEF TypeOK
  <1>5. /\ \A r \in Shard, u \in Txn : <<r, u>> # <<s, t>> =>
              /\ agreeStatus'[r][u] = agreeStatus[r][u]
              /\ agreedDdlRank'[r][u] = agreedDdlRank[r][u]
    BY <1>1, <1>4 DEF Conclude
  <1>6. agreeStatus[s][t] = "AGREE_INIT" => phases'[s][t][s] # 2
    BY <1>2, <1>3 DEF PhaseOf, Recorded
  <1>7. agreeStatus[s][t] = "AGREE_COMPLETE" =>
           /\ ddls'[s][t][s] = agreedDdlRank[s][t]
           /\ \A p \in Participants[t] : phases'[s][t][p] # 0
    <2> SUFFICES ASSUME agreeStatus[s][t] = "AGREE_COMPLETE"
                 PROVE  /\ ddls'[s][t][s] = agreedDdlRank[s][t]
                        /\ \A p \in Participants[t] : phases'[s][t][p] # 0
      OBVIOUS
    <2>1. Participants[t] \subseteq Shard
      BY DEF Participants
    <2>2. from # s
      OBVIOUS
    <2>3. \A p \in Participants[t] : phases[s][t][p] # 0 /\ ddls[s][t][p] = agreedDdlRank[s][t]
      BY <1>3 DEF StatusOf
    <2>4. phase # 0
      OBVIOUS
    <2> HIDE DEF d, ph
    <2> QED BY <1>2, <2>1, <2>2, <2>3, <2>4 DEF Recorded
  <1> HIDE DEF d, ph
  <1>8. /\ \A r \in Shard, u \in Txn : <<r, u>> # <<s, t>> =>
              phases'[r][u] = phases[r][u] /\ ddls'[r][u] = ddls[r][u]
        /\ from = s => phases'[s][t][s] = phase
        /\ from # s => phases'[s][t][s] = phases[s][t][s]
    BY <1>2 DEF Recorded
  <1>9. StatusOf(s, t)' /\ Outcome(s, t)
    <2>1. CASE ~ \A p \in Participants[t] : ph[p] # 0
      <3>1. UNCHANGED <<agreedDdlRank, agreeStatus, toHoldAndRelease>>
        BY <1>1, <2>1
      <3>2. agreeStatus[s][t] # "AGREE_COMPLETE"
        BY <1>2, <1>7, <2>1
      <3>3. StatusOf(s, t)'
        BY <1>2, <3>1, <3>2, StatusKept
      <3> QED BY <3>1, <3>3 DEF Outcome
    <2>2. CASE \A p \in Participants[t] : ph[p] # 0
      <3>1. Conclude(s, t, d)
        BY <1>1, <2>2
      <3>2. /\ (AllProposed(t) /\ HighestProposal(t, agreedDdlRank[s][t]))'
            /\ StatusOf(s, t)'
        BY <1>2, <1>6, <1>7, <2>2, <3>1, InvConclude
      <3>3. phases'[s][t][s] # 0
        BY <1>2, <2>2
      <3>4. PICK top \in {d[p] : p \in Participants[t]} :
              /\ agreedDdlRank' = [agreedDdlRank EXCEPT ![s][t] = top]
              /\ \/ /\ d[s] = top
                    /\ \/ agreeStatus' = [agreeStatus EXCEPT ![s][t] = "AGREE_COMPLETE"]
                       \/ agreeStatus' = [agreeStatus EXCEPT ![s][t] = "AGREE_CONFIRMING"]
                    /\ UNCHANGED toHoldAndRelease
                 \/ /\ agreeStatus[s][t] = "AGREE_INIT"
                    /\ agreeStatus' = [agreeStatus EXCEPT ![s][t] = "AGREE_FLUSHING"]
                    /\ toHoldAndRelease' = [toHoldAndRelease EXCEPT ![s] = @ \cup {t}]
                 \/ UNCHANGED <<agreeStatus, toHoldAndRelease>>
        BY <3>1 DEF Conclude
      <3>5. CASE /\ d[s] = top
                 /\ \/ agreeStatus' = [agreeStatus EXCEPT ![s][t] = "AGREE_COMPLETE"]
                    \/ agreeStatus' = [agreeStatus EXCEPT ![s][t] = "AGREE_CONFIRMING"]
                 /\ UNCHANGED toHoldAndRelease
        <4>1. agreeStatus'[s][t] \in {"AGREE_COMPLETE", "AGREE_CONFIRMING"}
          BY <1>4, <3>5
        <4>2. ASSUME agreeStatus[s][t] = "AGREE_FLUSHING", phases'[s][t][s] = 1 PROVE FALSE
          <5>1. top = localDdlRank[s][t]
            BY <1>2, <3>5, <4>2 DEF RecordInv, Says
          <5>2. agreedDdlRank'[s][t] = top
            BY <1>4, <3>4
          <5>3. HighestProposal(t, top)
            BY <3>2, <5>2 DEF HighestProposal
          <5>4. HighestProposal(t, agreedDdlRank[s][t]) /\ localDdlRank[s][t] # agreedDdlRank[s][t]
            BY <1>3, <4>2 DEF StatusOf, Concluded
          <5> QED BY <5>1, <5>3, <5>4, OneHighest
        <4> QED BY <3>2, <3>3, <3>5, <4>1, <4>2 DEF Outcome
      <3>6. CASE /\ agreeStatus[s][t] = "AGREE_INIT"
                 /\ agreeStatus' = [agreeStatus EXCEPT ![s][t] = "AGREE_FLUSHING"]
                 /\ toHoldAndRelease' = [toHoldAndRelease EXCEPT ![s] = @ \cup {t}]
        <4>1. agreeStatus'[s][t] = "AGREE_FLUSHING"
          BY <1>4, <3>6
        <4>2. phases'[s][t][s] = 1
          BY <1>4, <1>6, <3>3, <3>6
        <4> QED BY <3>2, <3>6, <4>1, <4>2 DEF Outcome
      <3>7. CASE UNCHANGED <<agreeStatus, toHoldAndRelease>>
        BY <3>2, <3>7 DEF Outcome
      <3> QED BY <3>4, <3>5, <3>6, <3>7
    <2> QED BY <2>1, <2>2
  <1>10. Steady /\ RecordInv'
    BY <1>2
  <1>11. UpdatedAt(s, t)
    BY <1>5, <1>8 DEF UpdatedAt
  <1> QED BY <1>8, <1>9, <1>10, <1>11

(* An update keeps the invariant when it does for t at s. *)
LEMMA InvUpdatedAt ==
  ASSUME TypeOK, TypeOK', IInv, NEW s \in Shard, NEW t \in Txn,
         Steady, RecordInv', MessageInv', UpdatedAt(s, t), Outcome(s, t),
         UNCHANGED <<requests, localDdlRank, holdBuffer>>,
         \A r \in Shard, u \in Txn : <<r, u>> # <<s, t>> =>
             (u \in toDdlSync'[r] <=> u \in toDdlSync[r]),
         (QueueOf(s, t) /\ PhaseOf(s, t) /\ StatusOf(s, t))'
  PROVE  IInv'
  <1>1. \A r \in Shard, u \in Txn : <<r, u>> # <<s, t>> =>
            (u \in toHoldAndRelease'[r] <=> u \in toHoldAndRelease[r])
    <2>1. toHoldAndRelease \in [Shard -> SUBSET Txn]
      BY DEF TypeOK
    <2> QED BY <2>1 DEF Outcome
  <1>2. OnlyAt(s, t)
    BY <1>1 DEF OnlyAt, UpdatedAt
  <1>3. LeaderInv'
    <2> SUFFICES ASSUME NEW r \in Shard, NEW u \in Txn
                 PROVE  (QueueOf(r, u) /\ PhaseOf(r, u) /\ StatusOf(r, u))'
      BY DEF LeaderInv
    <2>1. CASE <<r, u>> = <<s, t>>
      BY <2>1
    <2>2. CASE <<r, u>> # <<s, t>>
      BY <1>2, <2>2, InvElsewhere DEF UpdatedAt
    <2> QED BY <2>1, <2>2
  <1> QED BY <1>3 DEF IInv

(* What leader s does when its own deadline goes on record.               *)
LEMMA LocalUpdate ==
  ASSUME TypeOK, TypeOK', IInv, NEW s \in Shard, NEW t \in Txn, NEW phase \in {1, 2},
         DdlSyncLocal(s, t, phase)
  PROVE  /\ s \in Participants[t] /\ localDdlRank[s][t] # 0
         /\ t \in toDdlSync[s] /\ t \notin toHoldAndRelease[s] /\ ~ InHoldBuffer(s, t)
         /\ phase = 1 => agreeStatus[s][t] = "AGREE_INIT" /\ phases[s][t][s] = 0
         /\ phase = 2 => agreeStatus[s][t] = "AGREE_FLUSHING" /\ phases[s][t][s] = 1
         /\ Steady /\ RecordInv' /\ StatusOf(s, t)'
         /\ UpdatedAt(s, t) /\ Outcome(s, t)
         /\ phases'[s][t][s] = phase
         /\ \E ddl \in Nat : /\ Says(t, s, ddl, phase)
                             /\ ddlNet' = ddlNet \cup Report(s, t, ddl, phase)
  <1>1. /\ t \in toDdlSync[s]
        /\ toDdlSync' = [toDdlSync EXCEPT ![s] = @ \ {t}]
        /\ agreeStatus[s][t] = (IF phase = 1 THEN "AGREE_INIT" ELSE "AGREE_FLUSHING")
        /\ UNCHANGED <<requests, localDdlRank, holdBuffer>>
    BY DEF DdlSyncLocal
  <1>2. PICK ddl \in Nat :
          /\ ddl = IF phase = 1 THEN localDdlRank[s][t] ELSE agreedDdlRank[s][t]
          /\ ddlNet' = ddlNet \cup Report(s, t, ddl, phase)
          /\ UpdateDeadlineRecord(s, t, s, ddl, phase)
    <2>1. localDdlRank[s][t] \in Nat /\ agreedDdlRank[s][t] \in Nat
      BY DEF TypeOK
    <2> QED BY <2>1 DEF DdlSyncLocal
  <1>3. QueueOf(s, t) /\ PhaseOf(s, t) /\ StatusOf(s, t)
    BY DEF IInv, LeaderInv
  <1>4. /\ s \in Participants[t] /\ localDdlRank[s][t] # 0
        /\ t \notin toHoldAndRelease[s] /\ ~ InHoldBuffer(s, t)
        /\ phase = 1 => phases[s][t][s] = 0
        /\ phase = 2 => phases[s][t][s] = 1
    BY <1>1, <1>3 DEF QueueOf, PhaseOf, OnItsWay
  <1>5. Says(t, s, ddl, phase)
    BY <1>1, <1>2, <1>3 DEF Says, StatusOf, Concluded
  <1>6. phases[s][t][s] < phase
    BY <1>4
  <1>7. /\ agreeStatus[s][t] # "AGREE_COMPLETE" /\ agreeStatus[s][t] # "AGREE_NONE"
        /\ phase = 2 => agreeStatus[s][t] = "AGREE_FLUSHING"
        /\ phase = 1 => agreeStatus[s][t] = "AGREE_INIT"
    BY <1>1
  <1>8. /\ Steady /\ RecordInv' /\ StatusOf(s, t)'
        /\ UpdatedAt(s, t) /\ Outcome(s, t)
        /\ phases'[s][t][s] = phase
    BY <1>1, <1>2, <1>4, <1>5, <1>6, <1>7, InvUpdate
  <1> QED BY <1>1, <1>2, <1>4, <1>5, <1>7, <1>8

(* LeaderDdlSyncTd recording and sending its leader's own deadline keeps IInv. *)
LEMMA InvDdlSyncLocal ==
  ASSUME TypeOK, TypeOK', IInv, NEW s \in Shard, NEW t \in Txn, NEW phase \in {1, 2},
         DdlSyncLocal(s, t, phase)
  PROVE  IInv'
  <1>1. /\ toDdlSync' = [toDdlSync EXCEPT ![s] = @ \ {t}]
        /\ UNCHANGED <<requests, localDdlRank, holdBuffer>>
    BY DEF DdlSyncLocal
  <1>2. PICK ddl \in Nat : /\ Says(t, s, ddl, phase)
                           /\ ddlNet' = ddlNet \cup Report(s, t, ddl, phase)
    BY LocalUpdate
  <1>3. QueueOf(s, t)
    BY DEF IInv, LeaderInv
  <1>4. /\ s \in Participants[t] /\ localDdlRank[s][t] # 0
        /\ t \notin toHoldAndRelease[s] /\ ~ InHoldBuffer(s, t)
    BY LocalUpdate
  <1>5. /\ agreeStatus[s][t] # "AGREE_NONE"
        /\ agreeStatus[s][t] = "AGREE_INIT" => phase = 1
    BY LocalUpdate
  <1>6. /\ Steady /\ RecordInv' /\ StatusOf(s, t)'
        /\ UpdatedAt(s, t) /\ Outcome(s, t)
        /\ phases'[s][t][s] = phase
    BY LocalUpdate
  <1>7. /\ t \notin toDdlSync'[s]
        /\ \A r \in Shard, u \in Txn : <<r, u>> # <<s, t>> =>
              (u \in toDdlSync'[r] <=> u \in toDdlSync[r])
    <2>1. toDdlSync \in [Shard -> SUBSET Txn]
      BY DEF TypeOK
    <2> QED BY <1>1, <2>1
  <1>8. MessageInv'
    <2> SUFFICES ASSUME NEW m \in ddlNet' PROVE Truthful(m)'
      BY DEF MessageInv
    <2>1. CASE m \in ddlNet
      <3>1. m \in Message /\ Truthful(m)
        BY <2>1 DEF TypeOK, IInv, MessageInv
      <3> QED BY <1>6, <3>1, MessagesKept
    <2>2. CASE m \in Report(s, t, ddl, phase)
      <3>1. /\ m.txn = t /\ m.from = s /\ m.ddl = ddl /\ m.phase = phase
            /\ m.to \in Participants[t] \ {s}
        BY <2>2 DEF Report
      <3>2. Says(t, s, ddl, phase)'
        BY <1>2, <1>6, <1>1, StaysTrue DEF Says
      <3> QED BY <1>4, <1>6, <3>1, <3>2 DEF Truthful
    <2> QED BY <1>2, <2>1, <2>2
  <1>9. (QueueOf(s, t) /\ PhaseOf(s, t))'
    <2>1. <<s, t>> \notin requests
      BY <1>3, <1>5 DEF QueueOf
    <2>2. ~ InHoldBuffer(s, t)'
      BY <1>1, <1>4 DEF InHoldBuffer
    <2>3. \/ /\ t \in toHoldAndRelease'[s] /\ agreeStatus'[s][t] = "AGREE_FLUSHING"
             /\ phase = 1
          \/ /\ t \notin toHoldAndRelease'[s]
             /\ agreeStatus'[s][t] # "AGREE_NONE"
             /\ agreeStatus'[s][t] = "AGREE_INIT" => phase = 1
      <3>1. toHoldAndRelease \in [Shard -> SUBSET Txn]
        BY DEF TypeOK
      <3> QED BY <1>4, <1>5, <1>6, <3>1 DEF Outcome
    <2>4. QueueOf(s, t)'
      BY <1>1, <1>4, <1>6, <1>7, <2>1, <2>2, <2>3 DEF QueueOf, OnItsWay, InHoldBuffer
    <2>5. PhaseOf(s, t)'
      BY <1>1, <1>4, <1>6, <2>3 DEF PhaseOf
    <2> QED BY <2>4, <2>5
  <1> QED BY <1>1, <1>6, <1>7, <1>8, <1>9, InvUpdatedAt

(* What a leader does with news of another one's deadline. *)
LEMMA RemoteUpdate ==
  ASSUME TypeOK, TypeOK', IInv, NEW m \in ddlNet, DdlSyncRemote(m),
         NEW s \in Shard, NEW t \in Txn, s = m.to, t = m.txn,
         phases[s][t][m.from] < m.phase
  PROVE  /\ s \in Participants[t] /\ Participants[t] # {s}
         /\ m.from # s /\ m.from \in Participants[t]
         /\ Steady /\ RecordInv' /\ StatusOf(s, t)'
         /\ UpdatedAt(s, t) /\ Outcome(s, t)
         /\ phases'[s][t][s] = phases[s][t][s]
  <1>1. m.from \in Shard /\ m.ddl \in Nat /\ m.phase \in {1, 2}
    BY DEF TypeOK, Message
  <1>2. UpdateDeadlineRecord(s, t, m.from, m.ddl, m.phase) /\ UNCHANGED localDdlRank
    BY DEF DdlSyncRemote
  <1>3. Truthful(m)
    BY DEF IInv, MessageInv
  <1>4. /\ s \in Participants[t] /\ m.from # s /\ m.from \in Participants[t]
        /\ m.phase <= phases[m.from][t][m.from]
        /\ Says(t, m.from, m.ddl, m.phase)
        /\ Participants[t] # {s}
    BY <1>3 DEF Truthful
  <1> QED BY <1>1, <1>2, <1>4, InvUpdate

(* LeaderDdlSyncTd recording the report of another leader keeps IInv. *)
LEMMA InvDdlSyncRemote ==
  ASSUME TypeOK, TypeOK', IInv, NEW m \in ddlNet, DdlSyncRemote(m)
  PROVE  IInv'
  <1> DEFINE s == m.to
             t == m.txn
  <1>1. /\ m \in Message /\ s \in Shard /\ t \in Txn /\ m.from \in Shard
        /\ m.ddl \in Nat /\ m.phase \in {1, 2}
    BY DEF TypeOK, Message
  <1>2. /\ ddlNet' = ddlNet \ {m}
        /\ UpdateDeadlineRecord(s, t, m.from, m.ddl, m.phase)
        /\ UNCHANGED <<requests, localDdlRank, holdBuffer, toDdlSync>>
    BY DEF DdlSyncRemote
  <1>3. Truthful(m)
    BY DEF IInv, MessageInv
  <1>4. ASSUME Steady PROVE MessageInv'
    <2> SUFFICES ASSUME NEW n \in ddlNet' PROVE Truthful(n)'
      BY DEF MessageInv
    <2>1. n \in Message /\ Truthful(n)
      BY <1>2 DEF TypeOK, IInv, MessageInv
    <2> QED BY <1>4, <2>1, MessagesKept
  <1>5. QueueOf(s, t) /\ PhaseOf(s, t) /\ StatusOf(s, t)
    BY <1>1 DEF IInv, LeaderInv
  <1> HIDE DEF s, t
  <1>6. /\ phases \in [Shard -> [Txn -> [Shard -> 0..2]]]
        /\ phases' \in [Shard -> [Txn -> [Shard -> 0..2]]]
    BY DEF TypeOK
  <1>7. CASE phases[s][t][m.from] >= m.phase
    <2>1. UNCHANGED <<ddls, phases, agreedDdlRank, agreeStatus, toHoldAndRelease>>
      BY <1>2, <1>7 DEF UpdateDeadlineRecord
    <2>2. Steady
      BY <1>2, <1>6, <2>1 DEF Steady
    <2>3. Outcome(s, t) /\ UpdatedAt(s, t)
      BY <2>1 DEF Outcome, UpdatedAt
    <2>4. StatusOf(s, t)'
      BY <1>1, <1>2, <2>1, <2>2, StatusKept
    <2>5. (QueueOf(s, t) /\ PhaseOf(s, t))'
      BY <1>2, <1>5, <2>1 DEF QueueOf, PhaseOf, OnItsWay, InHoldBuffer, Proposed
    <2>6. RecordInv'
      BY <1>2, <2>1 DEF IInv, RecordInv, Says, AllProposed, Proposed, HighestProposal
    <2> QED BY <1>1, <1>2, <1>4, <2>2, <2>3, <2>4, <2>5, <2>6, InvUpdatedAt
  <1>8. CASE phases[s][t][m.from] < m.phase
    <2>1. s \in Participants[t]
      BY <1>1, <1>8, RemoteUpdate DEF s, t
    <2>2. /\ Steady /\ RecordInv' /\ StatusOf(s, t)'
          /\ UpdatedAt(s, t) /\ Outcome(s, t)
          /\ phases'[s][t][s] = phases[s][t][s]
      BY <1>1, <1>8, RemoteUpdate DEF s, t
    <2>3. toHoldAndRelease \in [Shard -> SUBSET Txn]
      BY DEF TypeOK
    <2>4. \/ /\ agreeStatus'[s][t] = agreeStatus[s][t]
             /\ t \in toHoldAndRelease'[s] <=> t \in toHoldAndRelease[s]
          \/ /\ agreeStatus'[s][t] \in {"AGREE_COMPLETE", "AGREE_CONFIRMING"}
             /\ phases[s][t][s] # 0 /\ ~ OnItsWay(s, t)
             /\ t \notin toHoldAndRelease'[s]
          \/ /\ agreeStatus[s][t] = "AGREE_INIT" /\ agreeStatus'[s][t] = "AGREE_FLUSHING"
             /\ phases[s][t][s] = 1 /\ ~ OnItsWay(s, t)
      BY <1>1, <1>5, <2>2, <2>3 DEF Outcome, QueueOf, OnItsWay
    <2>5. InHoldBuffer(s, t)' <=> InHoldBuffer(s, t)
      BY <1>2 DEF InHoldBuffer
    <2>6. <<s, t>> \in requests => agreeStatus[s][t] = "AGREE_NONE" /\ phases[s][t][s] = 0
      BY <1>5 DEF QueueOf, PhaseOf
    <2>7. QueueOf(s, t)'
      BY <1>2, <1>5, <2>1, <2>2, <2>4, <2>5, <2>6 DEF QueueOf, OnItsWay
    <2>8. PhaseOf(s, t)'
      BY <1>2, <1>5, <2>2, <2>4, <2>5 DEF PhaseOf, Proposed
    <2> QED BY <1>1, <1>2, <1>4, <2>2, <2>7, <2>8, InvUpdatedAt
  <1>9. m.phase \in {1, 2} /\ phases[s][t][m.from] \in 0..2
    BY <1>1, <1>6
  <1> QED BY <1>7, <1>8, <1>9

-----------------------------------------------------------------------------
(* The invariant.                                                          *)

(* The steps of LeaderPreExecTd read the agreement and leave it alone. *)
LEMMA InvUnchanged ==
  ASSUME IInv,
         UNCHANGED <<requests, localDdlRank, agreedDdlRank, agreeStatus,
                     toHoldAndRelease, holdBuffer, agreeVars>>
  PROVE  IInv'
  <1>1. LeaderInv'
    <2> SUFFICES ASSUME NEW s \in Shard, NEW t \in Txn
                 PROVE  (QueueOf(s, t) /\ PhaseOf(s, t) /\ StatusOf(s, t))'
      BY DEF LeaderInv
    <2>1. QueueOf(s, t) /\ PhaseOf(s, t) /\ StatusOf(s, t)
      BY DEF IInv, LeaderInv
    <2>2. QueueOf(s, t)'
      BY <2>1 DEF QueueOf, OnItsWay, InHoldBuffer
    <2>3. PhaseOf(s, t)'
      BY <2>1 DEF PhaseOf, InHoldBuffer, Proposed
    <2>4. StatusOf(s, t)'
      BY <2>1 DEF StatusOf, Concluded, HighestProposal, AllProposed, Proposed
    <2> QED BY <2>2, <2>3, <2>4
  <1>2. RecordInv' /\ MessageInv'
    BY DEF IInv, RecordInv, MessageInv, Truthful, Says, AllProposed, Proposed, HighestProposal
  <1> QED BY <1>1, <1>2 DEF IInv

(* Before any request arrives nothing is on record. *)
LEMMA InvInit == Init => IInv
  <1> SUFFICES ASSUME Init PROVE IInv
    OBVIOUS
  <1>1. LeaderInv
    <2> SUFFICES ASSUME NEW s \in Shard, NEW t \in Txn
                 PROVE  QueueOf(s, t) /\ PhaseOf(s, t) /\ StatusOf(s, t)
      BY DEF LeaderInv
    <2>1. /\ agreeStatus[s][t] = "AGREE_NONE" /\ phases[s][t][s] = 0
          /\ <<s, t>> \in requests => s \in Participants[t]
          /\ toHoldAndRelease[s] = {} /\ holdBuffer[s] = {} /\ toDdlSync[s] = {}
      BY DEF Init
    <2> QED BY <2>1 DEF QueueOf, PhaseOf, StatusOf, OnItsWay, InHoldBuffer, Proposed, Concluded
  <1>2. RecordInv /\ MessageInv
    BY DEF Init, RecordInv, MessageInv
  <1> QED BY <1>1, <1>2 DEF IInv

(* IInv is inductive: one step of the proof per action of Next. *)
LEMMA InvNext == TypeOK /\ TypeOK' /\ IInv /\ [Next]_vars => IInv'
  <1> SUFFICES ASSUME TypeOK, TypeOK', IInv, [Next]_vars PROVE IInv'
    OBVIOUS
  <1>1. ASSUME NEW s \in Shard, NEW t \in Txn, ReceiveRequest(s, t) PROVE IInv'
    BY <1>1, InvReceiveRequest
  <1>2. ASSUME NEW s \in Shard, HoldReleaseTd(s) PROVE IInv'
    <2>1. ASSUME NEW t \in toHoldAndRelease[s], HoldNew(s, t) \/ HoldFlushing(s, t) PROVE IInv'
      <3>1. t \in Txn
        BY DEF TypeOK
      <3> QED BY <2>1, <3>1, InvHoldNew, InvHoldFlushing
    <2>2. ASSUME NEW e \in holdBuffer[s],
                 \/ ReleaseFlushing(s, e)
                 \/ ReleaseSingleShard(s, e)
                 \/ ReleaseMultiShard(s, e)
          PROVE  IInv'
      BY <2>2, InvReleaseFlushing, InvReleaseSingleShard, InvReleaseMultiShard
    <2> QED BY <1>2, <2>1, <2>2 DEF HoldReleaseTd
  <1>3. ASSUME NEW s \in Shard, LeaderDdlSyncTd(s) PROVE IInv'
    <2>1. ASSUME NEW t \in toDdlSync[s], NEW phase \in {1, 2}, DdlSyncLocal(s, t, phase)
          PROVE  IInv'
      <3>1. t \in Txn
        BY DEF TypeOK
      <3> QED BY <2>1, <3>1, InvDdlSyncLocal
    <2>2. ASSUME NEW m \in ddlNet, DdlSyncRemote(m) PROVE IInv'
      BY <2>2, InvDdlSyncRemote
    <2> QED BY <1>3, <2>1, <2>2 DEF LeaderDdlSyncTd
  <1>4. ASSUME NEW s \in Shard, LeaderPreExecTd(s) PROVE IInv'
    BY <1>4, InvUnchanged
    DEF LeaderPreExecTd, Admit, CommandDirect, CommandSpec, CommandCommit, CommandRollback, Command
  <1>5. CASE UNCHANGED vars
    BY <1>5, InvUnchanged DEF vars
  <1> QED BY <1>1, <1>2, <1>3, <1>4, <1>5 DEF Next

(* The inductive invariant holds of every execution of the leaders. *)
THEOREM InvariantHolds == Spec => []IInv
  <1>1. Spec => []TypeOK
    BY TypeCorrect
  <1> QED BY <1>1, InvInit, InvNext, PTL DEF Spec

-----------------------------------------------------------------------------
(* What it implies.                                                        *)

(* A leader that completes the agreement on a transaction holds the        *)
(* highest of the deadlines the participating leaders released it with;    *)
(* no two leaders complete with different deadlines (UpdateDeadlineRecord).*)
THEOREM AgreementIsHighest == Spec => []AgreedIsHighest
  <1>1. IInv => AgreedIsHighest
    BY DEF IInv, LeaderInv, StatusOf, Concluded, AgreedIsHighest, Complete, Participants
  <1> QED BY <1>1, InvariantHolds, PTL

(* What is on record when a leader is done says where each leader stands.  *)
LEMMA WaitsForAll == TypeOK /\ IInv => NoneCompletesEarly
  <1> SUFFICES ASSUME TypeOK, IInv, NEW t \in Txn,
                      NEW s \in Participants[t], NEW p \in Participants[t], Complete(s, t)
               PROVE  \/ localDdlRank[p][t] = agreedDdlRank[s][t]
                      \/ phases[p][t][p] = 2
    BY DEF NoneCompletesEarly
  <1>1. s \in Shard /\ p \in Shard
    BY DEF Participants
  <1>2. StatusOf(s, t)
    BY <1>1 DEF IInv, LeaderInv
  <1>3. CASE Participants[t] = {s}
    BY <1>2, <1>3 DEF StatusOf, Concluded, Complete, HighestProposal
  <1>4. CASE phases[s][t][p] # 0 /\ ddls[s][t][p] = agreedDdlRank[s][t]
    <2>1. /\ phases[s][t][p] <= phases[p][t][p]
          /\ Says(t, p, agreedDdlRank[s][t], phases[s][t][p])
      BY <1>1, <1>4 DEF IInv, RecordInv
    <2>2. phases[s][t][p] \in 0..2 /\ phases[p][t][p] \in 0..2
      BY <1>1 DEF TypeOK
    <2>3. CASE phases[s][t][p] = 1
      BY <2>1, <2>3 DEF Says
    <2>4. CASE phases[s][t][p] = 2
      BY <2>1, <2>2, <2>4
    <2> QED BY <1>4, <2>2, <2>3, <2>4
  <1> QED BY <1>2, <1>3, <1>4 DEF StatusOf, Complete

(* No leader completes the agreement while another participant stands at a *)
(* smaller deadline: that one has flushed the transaction through its hold *)
(* buffer again (the second phase of LeaderDdlSyncTd).                     *)
THEOREM CompletionWaits == Spec => []NoneCompletesEarly
  BY WaitsForAll, TypeCorrect, InvariantHolds, PTL

-----------------------------------------------------------------------------
(***************************************************************************)
(* The refinement: each step of the leaders is a step of DeadlineAgreement,*)
(* or changes nothing that it sees.                                        *)
(***************************************************************************)

(* What the abstract agreement sees of leader s and transaction t. *)
Shown(s, t) == Proposed(s, t) \/ Complete(s, t)

SameAt(s, t) ==
    /\ phases'[s][t][s] = phases[s][t][s]
    /\ Complete(s, t)' <=> Complete(s, t)
    /\ Shown(s, t) => localDdlRank'[s][t] = localDdlRank[s][t]
    /\ Complete(s, t) => agreedDdlRank'[s][t] = agreedDdlRank[s][t]

(* A step of leader s shows for t only, and what was shown stays. *)
ShowsOnlyAt(s, t) ==
    /\ \A r \in Shard, u \in Txn : <<r, u>> # <<s, t>> => SameAt(r, u)
    /\ Shown(s, t) => localDdlRank'[s][t] = localDdlRank[s][t]
    /\ Complete(s, t) =>
          Complete(s, t)' /\ agreedDdlRank'[s][t] = agreedDdlRank[s][t]

(* The values of the abstract variables. *)
LEMMA Seen ==
  ASSUME NEW s \in Shard, NEW t \in Txn
  PROVE  /\ ProposedDeadlines[t][s] = IF Shown(s, t) THEN localDdlRank[s][t] ELSE 0
         /\ s \in AdoptedBy[t] <=> phases[s][t][s] = 2
         /\ DecidedDeadlines[t][s] = IF Complete(s, t) THEN agreedDdlRank[s][t] ELSE 0
  BY DEF ProposedDeadlines, AdoptedBy, DecidedDeadlines, Shown, Proposed

(* When all participants have proposed, the abstract agreement knows the   *)
(* highest proposal.                                                       *)
LEMMA SeenHighest ==
  ASSUME TypeOK, IInv, NEW t \in Txn, \A p \in Participants[t] : Shown(p, t)
  PROVE  /\ Agreement!AllProposed(t)
         /\ \A top : Agreement!Highest(t, top) <=> HighestProposal(t, top)
  <1>1. Participants[t] \subseteq Shard
    BY DEF Participants
  <1>2. ASSUME NEW p \in Participants[t]
        PROVE  ProposedDeadlines[t][p] = localDdlRank[p][t] /\ localDdlRank[p][t] # 0
    <2>1. p \in Shard /\ PhaseOf(p, t)
      BY <1>1 DEF IInv, LeaderInv
    <2> QED BY <2>1, Seen DEF Shown, Complete, PhaseOf
  <1> QED BY <1>2 DEF Agreement!AllProposed, Agreement!Highest, Agreement!NotYet, HighestProposal

(* A leader that is done knows an outcome the abstract agreement allows. *)
LEMMA SeenDecided ==
  ASSUME TypeOK, IInv, NEW t \in Txn, NEW s \in Participants[t], Complete(s, t)
  PROVE  /\ Agreement!AllProposed(t)
         /\ Agreement!Highest(t, agreedDdlRank[s][t])
         /\ Agreement!Settled(t, agreedDdlRank[s][t])
         /\ agreedDdlRank[s][t] \in {ProposedDeadlines[t][p] : p \in Participants[t]}
         /\ agreedDdlRank[s][t] # 0
  <1>1. Participants[t] \subseteq Shard /\ s \in Shard
    BY DEF Participants
  <1>2. StatusOf(s, t)
    BY <1>1 DEF IInv, LeaderInv
  <1>3. \A p \in Participants[t] : Shown(p, t)
    BY <1>2 DEF StatusOf, Shown, AllProposed, Concluded, Complete
  <1>4. HighestProposal(t, agreedDdlRank[s][t])
    BY <1>2 DEF StatusOf, Concluded, Complete
  <1>5. Agreement!AllProposed(t) /\ Agreement!Highest(t, agreedDdlRank[s][t])
    BY <1>3, <1>4, SeenHighest
  <1>6. Agreement!Settled(t, agreedDdlRank[s][t])
    <2>1. NoneCompletesEarly
      BY WaitsForAll
    <2> QED BY <1>1, <1>3, <2>1, Seen DEF NoneCompletesEarly, Agreement!Settled
  <1> QED BY <1>5, <1>6 DEF Agreement!Highest, Agreement!AllProposed, Agreement!NotYet

(* SeenDecided, of the state a step leads to. *)
LEMMA SeenDecidedNext ==
  ASSUME TypeOK', IInv', NEW t \in Txn, NEW s \in Participants[t], Complete(s, t)'
  PROVE  (/\ Agreement!AllProposed(t)
          /\ Agreement!Highest(t, agreedDdlRank[s][t])
          /\ Agreement!Settled(t, agreedDdlRank[s][t])
          /\ agreedDdlRank[s][t] \in {ProposedDeadlines[t][p] : p \in Participants[t]}
          /\ agreedDdlRank[s][t] # 0)'
  BY SeenDecided, PTL

-----------------------------------------------------------------------------
(* A step that shows for one transaction at one leader.                    *)

(* The abstract variables change there only. *)
LEMMA SeenElsewhere ==
  ASSUME NEW s \in Shard, NEW t \in Txn, ShowsOnlyAt(s, t),
         NEW r \in Shard, NEW u \in Txn, <<r, u>> # <<s, t>>
  PROVE  /\ ProposedDeadlines'[u][r] = ProposedDeadlines[u][r]
         /\ r \in AdoptedBy'[u] <=> r \in AdoptedBy[u]
         /\ DecidedDeadlines'[u][r] = DecidedDeadlines[u][r]
  BY DEF ShowsOnlyAt, SameAt, Shown, Proposed, ProposedDeadlines, AdoptedBy, DecidedDeadlines,
         Complete

(* A leader that completes in a step decides what the abstract agreement allows. *)
LEMMA StepDecides ==
  ASSUME TypeOK', IInv', NEW t \in Txn, NEW s \in Participants[t], ShowsOnlyAt(s, t)
  PROVE  Agreement!MayDecide(t, s)
  <1>1. s \in Shard
    BY DEF Participants
  <1>2. /\ DecidedDeadlines = [u \in Txn |-> [r \in Shard |-> DecidedDeadlines[u][r]]]
        /\ DecidedDeadlines' = [u \in Txn |-> [r \in Shard |-> DecidedDeadlines'[u][r]]]
    BY DEF DecidedDeadlines
  <1>3. CASE Complete(s, t) \/ ~ Complete(s, t)'
    <2>1. DecidedDeadlines'[t][s] = DecidedDeadlines[t][s]
      BY <1>1, <1>3 DEF ShowsOnlyAt, DecidedDeadlines, Complete
    <2>2. \A u \in Txn, r \in Shard : DecidedDeadlines'[u][r] = DecidedDeadlines[u][r]
      BY <1>1, <2>1, SeenElsewhere
    <2>3. UNCHANGED DecidedDeadlines
      BY <1>2, <2>2
    <2> QED BY <2>3 DEF Agreement!MayDecide
  <1>4. CASE ~ Complete(s, t) /\ Complete(s, t)'
    <2>1. DecidedDeadlines[t][s] = 0 /\ DecidedDeadlines'[t][s] = agreedDdlRank'[s][t]
      BY <1>1, <1>4 DEF DecidedDeadlines, Complete
    <2>2. \A u \in Txn, r \in Shard : <<r, u>> # <<s, t>> =>
             DecidedDeadlines'[u][r] = DecidedDeadlines[u][r]
      BY <1>1, SeenElsewhere
    <2>3. DecidedDeadlines' = [DecidedDeadlines EXCEPT ![t][s] = agreedDdlRank'[s][t]]
      BY <1>1, <1>2, <2>1, <2>2
    <2> QED BY <1>4, <2>1, <2>3, SeenDecidedNext DEF Agreement!MayDecide, Agreement!NotYet
  <1> QED BY <1>3, <1>4

(* It is a step of the abstract agreement: the leader proposes, adopts the *)
(* highest proposal, or at most decides.                                   *)
LEMMA StepImplements ==
  ASSUME TypeOK, IInv, TypeOK', IInv', NEW t \in Txn, NEW s \in Participants[t],
         ShowsOnlyAt(s, t),
         \/ /\ ~ Shown(s, t) /\ Shown(s, t)'
            /\ phases[s][t][s] # 2 /\ phases'[s][t][s] # 2
         \/ /\ agreeStatus[s][t] = "AGREE_FLUSHING"
            /\ phases[s][t][s] = 1 /\ phases'[s][t][s] = 2
         \/ /\ Shown(s, t)' <=> Shown(s, t)
            /\ phases'[s][t][s] = phases[s][t][s]
  PROVE  Agreement!Next
  <1>1. s \in Shard
    BY DEF Participants
  <1>2. Agreement!MayDecide(t, s)
    BY StepDecides
  <1>3. /\ ProposedDeadlines = [u \in Txn |-> [r \in Shard |-> ProposedDeadlines[u][r]]]
        /\ ProposedDeadlines' = [u \in Txn |-> [r \in Shard |-> ProposedDeadlines'[u][r]]]
        /\ AdoptedBy \in [Txn -> SUBSET Shard]
        /\ AdoptedBy' \in [Txn -> SUBSET Shard]
    BY DEF ProposedDeadlines, AdoptedBy
  <1>4. /\ ProposedDeadlines[t][s] = (IF Shown(s, t) THEN localDdlRank[s][t] ELSE 0)
        /\ ProposedDeadlines'[t][s] = (IF Shown(s, t)' THEN localDdlRank'[s][t] ELSE 0)
        /\ s \in AdoptedBy[t] <=> phases[s][t][s] = 2
        /\ s \in AdoptedBy'[t] <=> phases'[s][t][s] = 2
    BY <1>1 DEF ProposedDeadlines, AdoptedBy, Shown, Proposed, Complete
  <1>5. /\ \A u \in Txn, r \in Shard : <<r, u>> # <<s, t>> =>
              ProposedDeadlines'[u][r] = ProposedDeadlines[u][r]
        /\ \A u \in Txn, r \in Shard : <<r, u>> # <<s, t>> =>
              (r \in AdoptedBy'[u] <=> r \in AdoptedBy[u])
    BY <1>1, SeenElsewhere
  <1>6. ASSUME phases'[s][t][s] = 2 <=> phases[s][t][s] = 2 PROVE UNCHANGED AdoptedBy
    <2>1. s \in AdoptedBy'[t] <=> s \in AdoptedBy[t]
      BY <1>4, <1>6
    <2>2. \A u \in Txn, r \in Shard : r \in AdoptedBy'[u] <=> r \in AdoptedBy[u]
      BY <1>1, <1>5, <2>1
    <2>3. \A u \in Txn : AdoptedBy'[u] = AdoptedBy[u]
      BY <1>3, <2>2
    <2> QED BY <1>3, <2>3
  <1>7. ASSUME Shown(s, t)' <=> Shown(s, t) PROVE UNCHANGED ProposedDeadlines
    <2>1. ProposedDeadlines'[t][s] = ProposedDeadlines[t][s]
      BY <1>4, <1>7 DEF ShowsOnlyAt
    <2> QED BY <1>3, <1>5, <2>1
  <1>8. CASE /\ ~ Shown(s, t) /\ Shown(s, t)'
             /\ phases[s][t][s] # 2 /\ phases'[s][t][s] # 2
    <2>1. ProposedDeadlines[t][s] = 0
      BY <1>4, <1>8
    <2>2. ProposedDeadlines'[t][s] \in Nat \ {0}
      <3>1. localDdlRank'[s][t] \in Nat
        BY <1>1 DEF TypeOK
      <3>2. PhaseOf(s, t)'
        BY <1>1 DEF IInv, LeaderInv
      <3> QED BY <1>4, <1>8, <3>1, <3>2 DEF PhaseOf, Shown, Complete
    <2>3. ProposedDeadlines' =
            [ProposedDeadlines EXCEPT ![t][s] = ProposedDeadlines'[t][s]]
      BY <1>1, <1>3, <1>5
    <2>4. Agreement!Propose(t, s)
      BY <1>2, <1>6, <1>8, <2>1, <2>2, <2>3 DEF Agreement!Propose, Agreement!NotYet
    <2> QED BY <2>4 DEF Agreement!Next
  <1>9. CASE /\ agreeStatus[s][t] = "AGREE_FLUSHING"
             /\ phases[s][t][s] = 1 /\ phases'[s][t][s] = 2
    <2>1. StatusOf(s, t)
      BY <1>1 DEF IInv, LeaderInv
    <2>2. /\ AllProposed(t) /\ HighestProposal(t, agreedDdlRank[s][t])
          /\ localDdlRank[s][t] # agreedDdlRank[s][t]
      BY <1>9, <2>1 DEF StatusOf, Concluded
    <2>3. \A p \in Participants[t] : Shown(p, t)
      BY <2>2 DEF AllProposed, Shown
    <2>4. ~ HighestProposal(t, localDdlRank[s][t])
      BY <2>2, OneHighest
    <2>5. Agreement!AllProposed(t) /\ ~ Agreement!Highest(t, ProposedDeadlines[t][s])
      BY <1>4, <2>3, <2>4, SeenHighest
    <2>6. AdoptedBy' = [AdoptedBy EXCEPT ![t] = @ \cup {s}] /\ s \notin AdoptedBy[t]
      <3>1. s \notin AdoptedBy[t] /\ AdoptedBy'[t] = AdoptedBy[t] \cup {s}
        BY <1>1, <1>3, <1>4, <1>5, <1>9
      <3>2. \A u \in Txn \ {t} : AdoptedBy'[u] = AdoptedBy[u]
        BY <1>3, <1>5
      <3> QED BY <1>3, <3>1, <3>2
    <2>7. UNCHANGED ProposedDeadlines
      <3>1. Shown(s, t) /\ Shown(s, t)'
        BY <1>9 DEF Shown, Proposed
      <3> QED BY <1>7, <3>1
    <2>8. Agreement!Adopt(t, s)
      BY <1>2, <2>5, <2>6, <2>7 DEF Agreement!Adopt
    <2> QED BY <2>8 DEF Agreement!Next
  <1>10. CASE /\ Shown(s, t)' <=> Shown(s, t)
              /\ phases'[s][t][s] = phases[s][t][s]
    <2>1. Agreement!Decide(t, s)
      BY <1>2, <1>6, <1>7, <1>10 DEF Agreement!Decide
    <2> QED BY <2>1 DEF Agreement!Next
  <1> QED BY <1>8, <1>9, <1>10

-----------------------------------------------------------------------------
(* The steps of the leaders.                                               *)

(* News of another leader does not undo a completed agreement. *)
LEMMA CompleteStays ==
  ASSUME TypeOK, TypeOK', IInv, NEW m \in ddlNet, DdlSyncRemote(m),
         NEW s \in Shard, NEW t \in Txn, s = m.to, t = m.txn,
         phases[s][t][m.from] < m.phase, Complete(s, t)
  PROVE  Complete(s, t)' /\ agreedDdlRank'[s][t] = agreedDdlRank[s][t]
  <1> DEFINE d == [ddls[s][t] EXCEPT ![m.from] = m.ddl]
             ph == [phases[s][t] EXCEPT ![m.from] = m.phase]
  <1>1. /\ m.from \in Shard /\ m.ddl \in Nat /\ m.phase \in {1, 2}
        /\ ddls[s][t] \in [Shard -> Nat] /\ phases[s][t] \in [Shard -> 0..2]
        /\ agreedDdlRank \in [Shard -> [Txn -> Nat]]
        /\ agreeStatus \in [Shard -> [Txn -> AgreeStatus]]
    <2>1. /\ ddls \in [Shard -> [Txn -> [Shard -> Nat]]]
          /\ phases \in [Shard -> [Txn -> [Shard -> 0..2]]]
      BY DEF TypeOK
    <2>2. ddls[s][t] \in [Shard -> Nat] /\ phases[s][t] \in [Shard -> 0..2]
      BY <2>1
    <2>3. m.from \in Shard /\ m.ddl \in Nat /\ m.phase \in {1, 2}
      BY DEF TypeOK, Message
    <2> QED BY <2>2, <2>3 DEF TypeOK
  <1>2. /\ s \in Participants[t] /\ Participants[t] # {s} /\ m.from \in Participants[t]
        /\ Participants[t] \subseteq Shard
    <2>1. s \in Participants[t] /\ Participants[t] # {s} /\ m.from \in Participants[t]
      BY RemoteUpdate
    <2> QED BY <2>1 DEF Participants
  <1>3. /\ HighestProposal(t, agreedDdlRank[s][t])
        /\ \A p \in Participants[t] : /\ phases[s][t][p] # 0
                                       /\ ddls[s][t][p] = agreedDdlRank[s][t]
    BY <1>2 DEF IInv, LeaderInv, StatusOf, Concluded, Complete
  <1>4. m.phase = 2
    <2>1. phases[s][t][m.from] # 0 /\ phases[s][t][m.from] \in 0..2
      BY <1>1, <1>2, <1>3
    <2> QED BY <1>1, <2>1
  <1>5. HighestProposal(t, m.ddl)
    BY <1>4 DEF IInv, MessageInv, Truthful, Says
  <1>6. m.ddl = agreedDdlRank[s][t]
    BY <1>3, <1>5, OneHighest
  <1>7. \A p \in Participants[t] : d[p] = agreedDdlRank[s][t] /\ ph[p] # 0
    BY <1>1, <1>2, <1>3, <1>4, <1>6
  <1>8. Conclude(s, t, d)
    <2>1. ~ (phases[s][t][m.from] >= m.phase)
      <3>1. phases[s][t][m.from] \in 0..2
        BY <1>1
      <3> QED BY <1>4, <3>1
    <2> QED BY <1>7, <2>1 DEF DdlSyncRemote, UpdateDeadlineRecord
  <1> HIDE DEF d, ph
  <1>9. /\ agreedDdlRank' = [agreedDdlRank EXCEPT ![s][t] = agreedDdlRank[s][t]]
        /\ agreeStatus' = [agreeStatus EXCEPT ![s][t] = "AGREE_COMPLETE"]
    BY ZenonT(60), <1>2, <1>7, <1>8 DEF Conclude
  <1> QED BY <1>1, <1>9 DEF Complete

(* UpdateDeadlineRecord shows the abstract agreement one leader's entry only. *)
LEMMA UpdateShows ==
  ASSUME NEW s \in Shard, NEW t \in Txn, UpdatedAt(s, t), UNCHANGED localDdlRank,
         Complete(s, t) => Complete(s, t)' /\ agreedDdlRank'[s][t] = agreedDdlRank[s][t]
  PROVE  ShowsOnlyAt(s, t)
  BY DEF UpdatedAt, ShowsOnlyAt, SameAt, Complete

(* Recording the own deadline is a Propose in phase 1, an Adopt in phase 2. *)
LEMMA DdlSyncLocalImplements ==
  ASSUME TypeOK, IInv, TypeOK', IInv', NEW s \in Shard, NEW t \in Txn, NEW phase \in {1, 2},
         DdlSyncLocal(s, t, phase)
  PROVE  Agreement!Next
  <1>1. UNCHANGED localDdlRank
    BY DEF DdlSyncLocal
  <1>2. /\ s \in Participants[t] /\ UpdatedAt(s, t) /\ phases'[s][t][s] = phase
        /\ phase = 1 => agreeStatus[s][t] = "AGREE_INIT" /\ phases[s][t][s] = 0
        /\ phase = 2 => agreeStatus[s][t] = "AGREE_FLUSHING" /\ phases[s][t][s] = 1
    BY LocalUpdate
  <1>3. ~ Complete(s, t)
    BY <1>2 DEF Complete
  <1>4. ShowsOnlyAt(s, t)
    BY <1>1, <1>2, <1>3, UpdateShows
  <1>5. CASE phase = 1
    <2>1. ~ Shown(s, t) /\ Shown(s, t)'
      BY <1>2, <1>3, <1>5 DEF Shown, Proposed
    <2> QED BY <1>2, <1>4, <1>5, <2>1, StepImplements
  <1>6. CASE phase = 2
    BY <1>2, <1>4, <1>6, StepImplements
  <1> QED BY <1>5, <1>6

(* Recording a report is a Decide or a stutter. *)
LEMMA DdlSyncRemoteImplements ==
  ASSUME TypeOK, IInv, TypeOK', IInv', NEW m \in ddlNet, DdlSyncRemote(m)
  PROVE  [Agreement!Next]_(Agreement!vars)
  <1>1. PICK s \in Shard, t \in Txn : s = m.to /\ t = m.txn
    BY DEF TypeOK, Message
  <1>2. CASE phases[s][t][m.from] >= m.phase
    <2>1. UNCHANGED <<ddls, phases, agreedDdlRank, agreeStatus, localDdlRank>>
      BY <1>1, <1>2 DEF DdlSyncRemote, UpdateDeadlineRecord
    <2> QED BY <2>1 DEF Agreement!vars, ProposedDeadlines, AdoptedBy, DecidedDeadlines, Complete
  <1>3. CASE phases[s][t][m.from] < m.phase
    <2>1. UNCHANGED localDdlRank
      BY DEF DdlSyncRemote
    <2>2. /\ s \in Participants[t] /\ Participants[t] # {s}
          /\ StatusOf(s, t)' /\ UpdatedAt(s, t) /\ Outcome(s, t)
          /\ phases'[s][t][s] = phases[s][t][s]
      BY <1>1, <1>3, RemoteUpdate
    <2>3. Complete(s, t) =>
             Complete(s, t)' /\ agreedDdlRank'[s][t] = agreedDdlRank[s][t]
      BY <1>1, <1>3, CompleteStays
    <2>4. ShowsOnlyAt(s, t)
      BY <2>1, <2>2, <2>3, UpdateShows
    <2>5. Complete(s, t)' => Complete(s, t) \/ Proposed(s, t)
      BY <2>2 DEF Outcome, Complete, Proposed
    <2>6. Shown(s, t)' <=> Shown(s, t)
      BY <2>2, <2>3, <2>5 DEF Shown, Proposed
    <2> QED BY <2>2, <2>4, <2>6, StepImplements
  <1>4. m.phase \in {1, 2} /\ phases[s][t][m.from] \in 0..2
    <2>1. phases \in [Shard -> [Txn -> [Shard -> 0..2]]]
      BY DEF TypeOK
    <2>2. m.from \in Shard /\ m.phase \in {1, 2}
      BY DEF TypeOK, Message
    <2> QED BY <2>1, <2>2
  <1> QED BY <1>2, <1>3, <1>4

(* A leader that alone has a say proposes its deadline and decides it. *)
LEMMA ReleaseSingleShardImplements ==
  ASSUME TypeOK, IInv, TypeOK', IInv', NEW s \in Shard, NEW e \in holdBuffer[s],
         ReleaseSingleShard(s, e)
  PROVE  Agreement!Next
  <1>1. PICK t : t = e[2]
    OBVIOUS
  <1>2. LeaveHoldBuffer(s, e)
    BY DEF ReleaseSingleShard
  <1>3. /\ t \in Txn /\ s \in Participants[t] /\ QueueOf(s, t) /\ OnItsWay(s, t)
        /\ UNCHANGED <<localDdlRank, ddls, phases>>
    BY <1>1, <1>2, Left
  <1>4. /\ agreedDdlRank' = [agreedDdlRank EXCEPT ![s][t] = localDdlRank[s][t]]
        /\ agreeStatus' = [agreeStatus EXCEPT ![s][t] = "AGREE_COMPLETE"]
        /\ agreeStatus[s][t] # "AGREE_FLUSHING"
    BY <1>1 DEF ReleaseSingleShard
  <1>5. agreeStatus[s][t] = "AGREE_INIT" /\ phases[s][t][s] = 0
    BY <1>3, <1>4 DEF QueueOf
  <1>6. /\ agreedDdlRank \in [Shard -> [Txn -> Nat]]
        /\ agreeStatus \in [Shard -> [Txn -> AgreeStatus]]
    BY DEF TypeOK
  <1>7. /\ ~ Complete(s, t) /\ Complete(s, t)' /\ phases'[s][t][s] = 0
        /\ UpdatedAt(s, t)
    BY <1>3, <1>4, <1>5, <1>6 DEF Complete, UpdatedAt
  <1>8. ~ Shown(s, t) /\ Shown(s, t)'
    BY <1>5, <1>7 DEF Shown, Proposed
  <1>9. ShowsOnlyAt(s, t)
    BY <1>3, <1>7, UpdateShows
  <1> QED BY <1>3, <1>5, <1>7, <1>8, <1>9, StepImplements

(* The local deadline of a transaction that was not released is not seen. *)
LEMMA NotShownYet ==
  ASSUME TypeOK, TypeOK', NEW s \in Shard, NEW t \in Txn, ~ Shown(s, t), ~ Shown(s, t)',
         UNCHANGED <<phases, agreedDdlRank>>,
         \A r \in Shard, u \in Txn : <<r, u>> # <<s, t>> =>
             /\ localDdlRank'[r][u] = localDdlRank[r][u]
             /\ agreeStatus'[r][u] = agreeStatus[r][u]
  PROVE  UNCHANGED Agreement!vars
  <1>1. \A r \in Shard, u \in Txn :
           /\ ProposedDeadlines'[u][r] = ProposedDeadlines[u][r]
           /\ DecidedDeadlines'[u][r] = DecidedDeadlines[u][r]
    BY DEF ProposedDeadlines, DecidedDeadlines, Shown, Proposed, Complete
  <1>2. /\ ProposedDeadlines = [u \in Txn |-> [r \in Shard |-> ProposedDeadlines[u][r]]]
        /\ ProposedDeadlines' = [u \in Txn |-> [r \in Shard |-> ProposedDeadlines'[u][r]]]
        /\ DecidedDeadlines = [u \in Txn |-> [r \in Shard |-> DecidedDeadlines[u][r]]]
        /\ DecidedDeadlines' = [u \in Txn |-> [r \in Shard |-> DecidedDeadlines'[u][r]]]
        /\ UNCHANGED AdoptedBy
    BY DEF ProposedDeadlines, DecidedDeadlines, AdoptedBy
  <1>3. UNCHANGED <<ProposedDeadlines, DecidedDeadlines>>
    BY <1>1, <1>2
  <1> QED BY <1>2, <1>3 DEF Agreement!vars

-----------------------------------------------------------------------------
(* Every step of the leaders is an abstract step or a stutter. *)
LEMMA NextImplements ==
  TypeOK /\ IInv /\ TypeOK' /\ IInv' /\ [Next]_vars => [Agreement!Next]_(Agreement!vars)
  <1> SUFFICES ASSUME TypeOK, IInv, TypeOK', IInv', [Next]_vars
               PROVE  [Agreement!Next]_(Agreement!vars)
    OBVIOUS
  <1>1. ASSUME UNCHANGED <<localDdlRank, agreedDdlRank, agreeStatus, phases>>
        PROVE  UNCHANGED Agreement!vars
    BY <1>1 DEF Agreement!vars, ProposedDeadlines, AdoptedBy, DecidedDeadlines, Complete
  <1>2. ASSUME NEW s \in Shard, NEW t \in Txn, ReceiveRequest(s, t)
        PROVE  UNCHANGED Agreement!vars
    <2>1. agreeStatus[s][t] = "AGREE_NONE" /\ phases[s][t][s] = 0
      BY <1>2 DEF ReceiveRequest, IInv, LeaderInv, QueueOf, PhaseOf
    <2>2. PICK rank :
            /\ localDdlRank' = [localDdlRank EXCEPT ![s][t] = rank]
            /\ agreeStatus' = [agreeStatus EXCEPT ![s][t] = "AGREE_INIT"]
            /\ UNCHANGED <<phases, agreedDdlRank>>
      BY <1>2 DEF ReceiveRequest
    <2>3. /\ localDdlRank \in [Shard -> [Txn -> Nat]]
          /\ agreeStatus \in [Shard -> [Txn -> AgreeStatus]]
      BY DEF TypeOK
    <2>4. ~ Shown(s, t) /\ ~ Shown(s, t)'
      BY <2>1, <2>2, <2>3 DEF Shown, Proposed, Complete
    <2> QED BY <2>2, <2>3, <2>4, NotShownYet
  <1>3. ASSUME NEW s \in Shard, NEW t \in Txn, HoldNew(s, t)
        PROVE  UNCHANGED Agreement!vars
    <2>1. agreeStatus[s][t] = "AGREE_INIT" /\ phases[s][t][s] = 0
      BY <1>3 DEF HoldNew, IInv, LeaderInv, QueueOf, OnItsWay
    <2>2. PICK rank :
            /\ localDdlRank' = [localDdlRank EXCEPT ![s][t] = rank]
            /\ UNCHANGED <<agreeStatus, phases, agreedDdlRank>>
      BY <1>3 DEF HoldNew
    <2>3. localDdlRank \in [Shard -> [Txn -> Nat]]
      BY DEF TypeOK
    <2>4. ~ Shown(s, t) /\ ~ Shown(s, t)'
      BY <2>1, <2>2 DEF Shown, Proposed, Complete
    <2> QED BY <2>2, <2>3, <2>4, NotShownYet
  <1>4. ASSUME NEW s \in Shard, HoldReleaseTd(s) PROVE [Agreement!Next]_(Agreement!vars)
    <2>1. ASSUME NEW t \in toHoldAndRelease[s], HoldNew(s, t) \/ HoldFlushing(s, t)
          PROVE  UNCHANGED Agreement!vars
      <3>1. t \in Txn
        BY DEF TypeOK
      <3>2. CASE HoldNew(s, t)
        BY <1>3, <3>1, <3>2
      <3>3. CASE HoldFlushing(s, t)
        BY <1>1, <3>3 DEF HoldFlushing
      <3> QED BY <2>1, <3>2, <3>3
    <2>2. ASSUME NEW e \in holdBuffer[s], ReleaseFlushing(s, e) \/ ReleaseMultiShard(s, e)
          PROVE  UNCHANGED Agreement!vars
      BY <1>1, <2>2 DEF ReleaseFlushing, ReleaseMultiShard, LeaveHoldBuffer
    <2>3. ASSUME NEW e \in holdBuffer[s], ReleaseSingleShard(s, e) PROVE Agreement!Next
      BY <2>3, ReleaseSingleShardImplements
    <2> QED BY <1>4, <2>1, <2>2, <2>3 DEF HoldReleaseTd
  <1>5. ASSUME NEW s \in Shard, LeaderDdlSyncTd(s) PROVE [Agreement!Next]_(Agreement!vars)
    <2>1. ASSUME NEW t \in toDdlSync[s], NEW phase \in {1, 2}, DdlSyncLocal(s, t, phase)
          PROVE  Agreement!Next
      <3>1. t \in Txn
        BY DEF TypeOK
      <3> QED BY <2>1, <3>1, DdlSyncLocalImplements
    <2> QED BY <1>5, <2>1, DdlSyncRemoteImplements DEF LeaderDdlSyncTd
  <1>6. ASSUME NEW s \in Shard, LeaderPreExecTd(s) PROVE UNCHANGED Agreement!vars
    BY <1>1, <1>6
    DEF LeaderPreExecTd, Admit, CommandDirect, CommandSpec, CommandCommit, CommandRollback, Command
  <1>7. CASE UNCHANGED vars
    BY <1>1, <1>7 DEF vars
  <1> QED BY <1>2, <1>4, <1>5, <1>6, <1>7 DEF Next

(* The leaders of the shards implement the abstract agreement on deadlines *)
(* (HoldReleaseTd, LeaderDdlSyncTd and UpdateDeadlineRecord together).     *)
THEOREM ImplementsAgreement == Spec => AgreementSpec
  <1>1. Init => Agreement!Init
    BY DEF Init, Agreement!Init, Agreement!NotYet, ProposedDeadlines, AdoptedBy,
           DecidedDeadlines, Complete
  <1> QED BY <1>1, NextImplements, TypeCorrect, InvariantHolds, PTL
          DEF Spec, AgreementSpec, Agreement!Spec
=============================================================================
