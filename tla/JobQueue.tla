------------------------------ MODULE JobQueue ------------------------------
(***************************************************************************)
(* What the embedding queue promises the servers that share it: a job is   *)
(* in the hands of one worker at a time, only that worker gives it back or *)
(* settles it, and a settled job waits again only when a client asks.  A   *)
(* job may be lost: its worker is gone and it stays taken.                 *)
(***************************************************************************)
CONSTANTS Jobs, Workers,
          Clients  \* those who may have jobs done again

VARIABLES phase,   \* phase[j] : absent, waiting, taken, completed or failed
          holders  \* holders[j] : the workers that have j in hand

queueVars == <<phase, holders>>

Phases == {"absent", "waiting", "taken", "completed", "failed"}

QueueTypeOK ==
  /\ phase \in [Jobs -> Phases]
  /\ holders \in [Jobs -> SUBSET Workers]

QueueInit ==
  /\ phase = [j \in Jobs |-> "absent"]
  /\ holders = [j \in Jobs |-> {}]

(* A job is queued for the first time.                                     *)
Submit(j) ==
  /\ phase[j] = "absent"
  /\ phase' = [phase EXCEPT ![j] = "waiting"]
  /\ UNCHANGED holders

(* A client has the jobs J done, again perhaps, none of them in hand.      *)
Requeue(J) ==
  /\ \A j \in J : holders[j] = {}
  /\ phase' = [j \in Jobs |-> IF j \in J THEN "waiting" ELSE phase[j]]
  /\ UNCHANGED holders

Take(j, w) ==
  /\ phase[j] = "waiting" /\ holders[j] = {}
  /\ phase' = [phase EXCEPT ![j] = "taken"]
  /\ holders' = [holders EXCEPT ![j] = {w}]

(* The only holder is through with j: done, failed for good, or for now.   *)
Return(j, w) ==
  /\ phase[j] = "taken" /\ holders[j] = {w}
  /\ \E p \in {"waiting", "completed", "failed"} : phase' = [phase EXCEPT ![j] = p]
  /\ holders' = [holders EXCEPT ![j] = {}]

(* The only holder is gone.                                                *)
Lose(j) ==
  /\ phase[j] = "taken" /\ holders[j] # {}
  /\ holders' = [holders EXCEPT ![j] = {}]
  /\ UNCHANGED phase

QueueNext ==
  \/ \E j \in Jobs : Submit(j) \/ Lose(j)
  \/ \E j \in Jobs, w \in Workers : Take(j, w) \/ Return(j, w)
  \/ \E c \in Clients, J \in SUBSET Jobs : Requeue(J)

QueueSpec == QueueInit /\ [][QueueNext]_queueVars
=============================================================================
