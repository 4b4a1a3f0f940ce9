--------------------------- MODULE MCTigaViewChange ---------------------------
(* Instances of TigaViewChange for TLC. *)
EXTENDS TigaViewChange

(* Two transactions of the shard whose leader fails, the first on the      *)
(* other shard too, so that the second need not wait for it.               *)
BothThenVictims == <<{0, 1}, {1}>>

(* What is read again.  No action and no invariant of the runs that have   *)
(* this view reads                                                         *)
(*   - that a transaction is committed when a server of its shards has     *)
(*     left view 0, when Commit has become impossible for good;            *)
(*   - the commands of a server that has left view 0, unless it leads;     *)
(*   - the replies of the state transfer when the log is rebuilt;          *)
(*   - a verification request that is answered;                            *)
(*   - answers and StartView messages, at those who have finished;         *)
(* except for their types, which they have when they become what they are. *)
Finished(s, r) == view[s][r] = 1 /\ status[s][r] = "NORMAL"

ReadAgain ==
    <<log, unsynced, confirmed, cmVars, status, view, viewChanges, asked, verifiedShards,
      {t \in committed : \A s \in Targets[t], r \in Replica : view[s][r] = 0},
      [s \in Shard |->
         [commands |-> [r \in Replica |->
              IF view[s][r] = 0 \/ (r = NewLeader /\ ~ Finished(s, r)) THEN cmdMap[s][r] ELSE {}],
          transfers |-> IF Rebuilt(s) THEN None ELSE transfers[s],
          requests |-> [o \in Shard |-> IF o \in verifiedShards[s] THEN None ELSE verifyReqs[s][o]],
          answers |-> IF Finished(s, NewLeader) THEN None ELSE verifyReps[s],
          startViews |-> [r \in Replica |->
              IF Finished(s, r) THEN None ELSE startViews[s][r]]]]>>
=============================================================================
