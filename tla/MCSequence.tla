----------------------------- MODULE MCSequence -----------------------------
\* Instances of Sequence for TLC: an email, and then a call or another email.
EXTENDS Sequence, TLC

EmailThenCall == 1 :> "email" @@ 2 :> "call"
TwoEmails == 1 :> "email" @@ 2 :> "email"
=============================================================================
