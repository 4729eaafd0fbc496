----------------------------- MODULE AuditTrail -----------------------------
(***************************************************************************)
(* What the journal promises its readers: the records that can be read back *)
(* form a sequence that grows at its end, one record at a time, and is      *)
(* otherwise only ever started again from nothing.                          *)
(***************************************************************************)
EXTENDS Sequences

CONSTANT Contents   \* what a record may say

VARIABLE trail      \* the records a reader is given

Init == trail = <<>>

Extend == \E c \in Contents : trail' = Append(trail, c)

Restart == trail' = <<>>

Spec == Init /\ [][Extend \/ Restart]_trail
=============================================================================
