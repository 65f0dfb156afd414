--------------------------- MODULE AtomicInstall ----------------------------
(***************************************************************************)
(* What Installer.install promises to the deployment that calls it: the    *)
(* code of an integration changes from the reviewed to the approved one in *)
(* one step or not at all.  Deployments!Install is such a step.  The code  *)
(* is compared with the reviewed one before, and not together with, that   *)
(* step: a change made in between is replaced too.                         *)
(***************************************************************************)
EXTENDS Naturals

CONSTANTS
  Trees,      (* What the directory of an integration may hold.            *)
  Gone,       (* What it is when somebody deleted it.                      *)
  None        (* No deployment was approved yet.                           *)

VARIABLES
  code,       (* The integration's code.                                   *)
  plan,       (* The reviewed and the approved code, or None.              *)
  looked,     (* This attempt to install found the reviewed code.          *)
  changes     (* How often users and HACS changed the code.                *)

vars == <<code, plan, looked, changes>>

Init == code \in Trees /\ plan = None /\ looked = FALSE /\ changes = 0

Approve(after) ==
  /\ plan' = [before |-> code, after |-> after] /\ looked' = FALSE
  /\ UNCHANGED <<code, changes>>

Look ==
  /\ plan # None /\ code = plan.before
  /\ looked' = TRUE
  /\ UNCHANGED <<code, plan, changes>>

Install ==
  /\ looked
  /\ code' = plan.after /\ looked' = FALSE
  /\ UNCHANGED <<plan, changes>>

GiveUp == looked' = FALSE /\ UNCHANGED <<code, plan, changes>>

(* The code that was reviewed comes back if it is found deleted.           *)
PutBack ==
  /\ plan # None /\ code = Gone
  /\ code' = plan.before /\ looked' = FALSE
  /\ UNCHANGED <<plan, changes>>

FromOutside ==
  /\ code' \in Trees
  /\ changes' = changes + 1
  /\ UNCHANGED <<plan, looked>>

Next ==
  \/ \E after \in Trees : Approve(after)
  \/ Look \/ Install \/ GiveUp \/ PutBack \/ FromOutside

Spec == Init /\ [][Next]_vars
=============================================================================
