--------------------------- MODULE PlanLifecycle ----------------------------
(***************************************************************************)
(* What an operator may rely on when looking at a remediation plan: the    *)
(* state machine in the header of plan-executor-service.ts, with the edges *)
(* the executor really has, and which steps have had a command sent.       *)
(*                                                                         *)
(* A plan is decided once, from pending_approval.  Refused plans stay as   *)
(* they are and never run.  Only a decided-in-favour plan runs steps; it   *)
(* may be halted, applied or cancelled, a retry may reopen a halted plan,  *)
(* and a command that fails late halts even a plan shown as cancelled or   *)
(* applied.                                                                *)
(***************************************************************************)
EXTENDS Integers

CONSTANT N

VARIABLES status, ran

lifecycleVars == <<status, ran>>

\* The statuses after which commands may be sent.
Live == {"executing", "applied", "execution_failed", "cancelled"}

Edges ==
  {<<"pending_approval", "approved">>, <<"pending_approval", "rejected">>,
   <<"pending_approval", "expired">>, <<"approved", "executing">>,
   <<"approved", "cancelled">>, <<"executing", "applied">>,
   <<"executing", "execution_failed">>, <<"executing", "cancelled">>,
   <<"execution_failed", "executing">>, <<"cancelled", "execution_failed">>,
   <<"applied", "execution_failed">>}

LifecycleInit == status = "pending_approval" /\ ran = {}

Move == <<status, status'>> \in Edges /\ ran' = ran

Run ==
  /\ status \in Live
  /\ \E s \in 1..N : ran' = ran \cup {s}
  /\ status' = status

LifecycleNext == Move \/ Run

LifecycleSpec == LifecycleInit /\ [][LifecycleNext]_lifecycleVars
=============================================================================
