------------------------------ MODULE MCMailbox ------------------------------
(* Small instances of Mailbox for TLC. *)
EXTENDS Mailbox, TLC
=============================================================================
