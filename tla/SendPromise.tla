----------------------------- MODULE SendPromise -----------------------------
(***************************************************************************)
(* What the outbound fence promises of one email: it is authorized at most *)
(* once, Gmail is asked at most once and only after that, and what is told *)
(* about it in the end is true: `sent` only of a message that left, and    *)
(* whoever does not know says so and never asks again.                     *)
(***************************************************************************)
CONSTANT Fences

VARIABLES
  authorized,  \* the fences some process was ever allowed to send
  asked,       \* the fences Gmail was asked to send
  left,        \* the fences whose message left
  verdict      \* "open" | "sent" | "unknown"

vars == <<authorized, asked, left, verdict>>

Init ==
  /\ authorized = {}
  /\ asked = {}
  /\ left = {}
  /\ verdict = [f \in Fences |-> "open"]

Authorize(f) ==
  /\ f \notin authorized
  /\ authorized' = authorized \cup {f}
  /\ UNCHANGED <<asked, left, verdict>>

Ask(f) ==
  /\ f \in authorized \ asked
  /\ asked' = asked \cup {f}
  /\ left' \in {left, left \cup {f}}
  /\ UNCHANGED <<authorized, verdict>>

\* Of a message that left, whoever finds out.
ConcludeSent(f) ==
  /\ f \in left
  /\ verdict[f] = "open"
  /\ verdict' = [verdict EXCEPT ![f] = "sent"]
  /\ UNCHANGED <<authorized, asked, left>>

\* It may have left, or may yet: the process that was authorized can be slow.
ConcludeUnknown(f) ==
  /\ f \in authorized
  /\ verdict[f] = "open"
  /\ verdict' = [verdict EXCEPT ![f] = "unknown"]
  /\ UNCHANGED <<authorized, asked, left>>

Next ==
  \E f \in Fences : Authorize(f) \/ Ask(f) \/ ConcludeSent(f) \/ ConcludeUnknown(f)

Spec == Init /\ [][Next]_vars

=============================================================================
