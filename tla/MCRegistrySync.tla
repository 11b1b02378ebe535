--------------------------- MODULE MCRegistrySync ---------------------------
(* Small instances of RegistrySync for TLC. *)
EXTENDS RegistrySync

CONSTANTS acme, other,  \* a participant of the mock, and one that is not
          s1, s2
=============================================================================
