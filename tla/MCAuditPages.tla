---------------------------- MODULE MCAuditPages ----------------------------
(***************************************************************************)
(* Pages of two entries in a log of up to five, numbered by ints of five   *)
(* bits: offsets overflow to numbers of either sign.                       *)
(***************************************************************************)
EXTENDS AuditPages

=============================================================================
