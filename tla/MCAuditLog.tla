------------------------------ MODULE MCAuditLog ------------------------------
(* Two events over a channel of one: both can be queued and flushed, or    *)
(* the second inserted by its own writer; two stops of the process and one *)
(* backup restore come at any moment.                                      *)
EXTENDS AuditLog
=============================================================================
