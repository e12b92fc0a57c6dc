----------------------------- MODULE MCWebhook -----------------------------
(***************************************************************************)
(* Instances of Webhook for TLC: one armed trigger with a cooldown, and a  *)
(* name that is not armed.                                                 *)
(***************************************************************************)
EXTENDS Webhook

CONSTANTS t1, gone

ShortCooldown == [k \in {t1} |-> 2]
=============================================================================
