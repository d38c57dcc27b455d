---------------------------- MODULE MCMailboxSet ----------------------------
(* Instances of MailboxSet for TLC.                                        *)
EXTENDS MailboxSet

CONSTANTS t1, t2, t3

=============================================================================
