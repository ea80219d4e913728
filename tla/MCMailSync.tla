------------------------------ MODULE MCMailSync ------------------------------
(* Small instances of the mail lane for TLC.                               *)
EXTENDS MailSync, TLC

CONSTANTS a1, a2

AccountSymmetry == Permutations(Accounts)
=============================================================================
