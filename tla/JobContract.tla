---------------------------- MODULE JobContract ----------------------------
(***************************************************************************)
(* What an accepted job promises its owner, as GET /jobs/{id} shows it: it  *)
(* is pending until it succeeds or fails, it does so once, and the verdict  *)
(* stands until the record is removed by retention or by data deletion.     *)
(***************************************************************************)
CONSTANT Jobs
VARIABLE phase

Phases == {"none", "pending", "succeeded", "failed", "gone"}

Submit(j) ==
  /\ phase[j] = "none"
  /\ phase' = [phase EXCEPT ![j] = "pending"]

Settle(j) ==
  /\ phase[j] = "pending"
  /\ \E verdict \in {"succeeded", "failed"} :
       phase' = [phase EXCEPT ![j] = verdict]

\* Data deletion removes all jobs of a subject at once, retention a batch.
Remove(removed) ==
  /\ removed # {}
  /\ \A j \in removed : phase[j] \in {"pending", "succeeded", "failed"}
  /\ phase' = [j \in Jobs |-> IF j \in removed THEN "gone" ELSE phase[j]]

Init == phase = [j \in Jobs |-> "none"]

Next ==
  \/ \E j \in Jobs : Submit(j) \/ Settle(j)
  \/ \E removed \in SUBSET Jobs : Remove(removed)

SafeSpec == Init /\ [][Next]_phase

\* A pending job does not stay pending for ever.
Spec == SafeSpec /\ \A j \in Jobs : WF_phase(Settle(j))
=============================================================================
