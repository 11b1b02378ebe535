----------------------------- MODULE MCAuditLog -----------------------------
(* Small instances of AuditLog for TLC. *)
EXTENDS AuditLog, TLC

CONSTANTS r1, r2, i1, i2
=============================================================================
