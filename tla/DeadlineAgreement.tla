-------------------------- MODULE DeadlineAgreement --------------------------
(***************************************************************************)
(* What the leaders of Tiga's shards promise each other about the deadline *)
(* (timestamp) of a transaction, whatever queues and threads are used to   *)
(* keep the promise:                                                       *)
(*                                                                         *)
(*  - every participating leader proposes one deadline, once;              *)
(*  - a leader whose proposal turned out too small adopts the highest      *)
(*    proposal, and only once all the proposals are known;                 *)
(*  - a leader decides the highest proposal, and only once every           *)
(*    participant stands at that deadline, by proposal or by adoption.     *)
(*                                                                         *)
(* TigaSequencer implements this specification.                            *)
(***************************************************************************)
EXTENDS Integers

CONSTANTS Txn,          \* the transactions
          Shard,        \* the shards; each has one leader
          Participants  \* [Txn -> SUBSET Shard]: the shards a transaction touches

NotYet == 0             \* deadlines are positive

VARIABLES proposed,     \* proposed[t][s]: what s proposed for t, or NotYet
          adopted,      \* adopted[t]: the leaders that moved to the highest proposal
          decided       \* decided[t][s]: the deadline s decided for t, or NotYet

vars == <<proposed, adopted, decided>>

Init ==
    /\ proposed = [t \in Txn |-> [s \in Shard |-> NotYet]]
    /\ adopted = [t \in Txn |-> {}]
    /\ decided = [t \in Txn |-> [s \in Shard |-> NotYet]]

AllProposed(t) == \A p \in Participants[t] : proposed[t][p] # NotYet

Highest(t, d) ==
    /\ \E p \in Participants[t] : proposed[t][p] = d
    /\ \A p \in Participants[t] : proposed[t][p] <= d

Settled(t, d) == \A p \in Participants[t] : proposed[t][p] = d \/ p \in adopted[t]

(* s may learn the outcome in the very step that makes it possible.        *)
MayDecide(t, s) ==
    \/ UNCHANGED decided
    \/ \E d \in {proposed'[t][p] : p \in Participants[t]} :
          /\ decided[t][s] = NotYet
          /\ AllProposed(t)'
          /\ Highest(t, d)'
          /\ Settled(t, d)'
          /\ decided' = [decided EXCEPT ![t][s] = d]

(* Any deadline will do; it stands. *)
Propose(t, s) ==
    /\ proposed[t][s] = NotYet
    /\ proposed'[t][s] \in Nat \ {NotYet}
    /\ proposed' = [proposed EXCEPT ![t][s] = proposed'[t][s]]
    /\ UNCHANGED adopted
    /\ MayDecide(t, s)

Adopt(t, s) ==
    /\ AllProposed(t)
    /\ ~ Highest(t, proposed[t][s])
    /\ s \notin adopted[t]
    /\ adopted' = [adopted EXCEPT ![t] = @ \cup {s}]
    /\ UNCHANGED proposed
    /\ MayDecide(t, s)

Decide(t, s) ==
    /\ UNCHANGED <<proposed, adopted>>
    /\ MayDecide(t, s)

Next ==
    \E t \in Txn : \E s \in Participants[t] :
        \/ Propose(t, s)
        \/ Adopt(t, s)
        \/ Decide(t, s)

Spec == Init /\ [][Next]_vars
=============================================================================
