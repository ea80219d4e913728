---------------------------- MODULE OutboundFence ----------------------------
(***************************************************************************)
(* The outbound fence (packages/domain/outbound/fence.ts), the dispatch    *)
(* that sends under it (send.ts), the Sent-folder sweep that settles what  *)
(* a dispatch left in doubt (reconcile.ts), and the send gate and holds    *)
(* they share (policy/sendGate.ts, policy/holds.ts).                       *)
(*                                                                         *)
(* One autocommit statement, one transaction or one network call is one    *)
(* action. The claiming transaction is three: its locks are held across    *)
(* them and its writes appear with the last. Any process may die, throw or *)
(* pause between two actions.                                              *)
(***************************************************************************)
EXTENDS Naturals, FiniteSets

CONSTANTS
  Fences,       \* one per step execution: outbound_messages rows of a mailbox
  Firms,
  FirmOf,       \* fence.firmId
  Dispatchers,  \* slots running sequence.action or reply.human_send
  Sweepers,     \* slots running mail.reconcile
  Cap,          \* effectiveDailyCap
  LastDay,      \* bound on the business dates that pass
  None          \* SQL NULL

ASSUME ConstantsAssumption ==
  /\ IsFiniteSet(Fences)
  /\ FirmOf \in [Fences -> Firms]
  /\ Dispatchers \cap Sweepers = {}
  /\ Cap \in Nat
  /\ LastDay \in Nat \ {0}
  /\ None \notin Fences

Procs == Dispatchers \cup Sweepers
Days == 1..LastDay

VARIABLES
  fence,     \* outbound_messages
  hold,      \* the open rows of active_holds that fences opened
  stopped,   \* firms a committed stop fact forbids: reply, suppression, pause...
  sentOn,    \* mailbox_send_days.automated_sent, by business date
  today,     \* the workspace's business date
  grant,     \* the mailbox can be reached: connected, and no incident on it
  gmail,     \* what reached the provider: the calls made and the message, if it left
  at         \* where each process stands, and what it remembers

vars == <<fence, hold, stopped, sentOn, today, grant, gmail, at>>

States == {"absent", "prepared", "held", "dispatching", "reconciling", "sent",
           "unknown_terminal"}

\* The reasons of the holds a fence opens: `refusal` stands for what
\* holdReasonForRefusal gives, the others are the two send_unknown_ codes.
Reasons == {"refusal", "reconciling", "terminal"}

\* token: how many attempt tokens were minted, the number being the last one.
\* overdue: reconcile_deadline_at has passed. answered: admin_resolution is set.
\* settled: the step took the fence's outcome.
FenceRows == [state : States, token : Nat, date : Days \cup {None},
              overdue : BOOLEAN, answered : BOOLEAN, settled : BOOLEAN]

Holds == [fence : Fences, reason : Reasons]

\* The stages of dispatchOutboundMessage:
\*   clearing, releasing     a held fence's holds, then the fence itself
\*   prechecking             decideSend, then the token refresh
\*   refusing                holdFence outside a transaction
\*   claiming                about to begin the claiming transaction
\*   deciding, reserving     inside it: the fence locked; the day's row locked too
\*   calling                 the one call is next
\*   recording, doubting     the answer was ok; the answer was anything else
\* those of reconcileOutboundMessage:
\*   searching               the Sent search is next
\*   settling, expiring      it found the message; it did not
\*   lifting, closing        the reconciling hold is released next
\* and of both: gating, inserting   openHold's two statements
Stages == {"idle", "clearing", "releasing", "prechecking", "refusing", "claiming",
           "deciding", "reserving", "calling", "recording", "doubting",
           "searching", "settling", "expiring", "lifting", "closing",
           "gating", "inserting"}

Places == [pc : Stages, fence : Fences \cup {None}, token : Nat,
           date : Days \cup {None}, late : BOOLEAN, reason : Reasons \cup {None}]

Idle == [pc |-> "idle", fence |-> None, token |-> 0, date |-> None,
         late |-> FALSE, reason |-> None]

Init ==
  /\ fence = [f \in Fences |-> [state |-> "absent", token |-> 0, date |-> None,
                                overdue |-> FALSE, answered |-> FALSE, settled |-> FALSE]]
  /\ hold = {}
  /\ stopped = {}
  /\ sentOn = [d \in Days |-> 0]
  /\ today = 1
  /\ grant = TRUE
  /\ gmail = [f \in Fences |-> [calls |-> 0, left |-> FALSE]]
  /\ at = [p \in Procs |-> Idle]

-----------------------------------------------------------------------------
(* Locks and decisions.                                                    *)

Claiming(p) == at[p].pc \in {"deciding", "reserving"}

\* A plausible slip: a stop is written without asking for the gate.
GateFreeAlways == TRUE

\* pg_advisory_xact_lock: no claim holds the gate shared.
GateFree == \A p \in Dispatchers : ~Claiming(p)

\* The claim's FOR UPDATE on the fence; an UPDATE of the row waits for it too.
Unlocked(f) == \A p \in Dispatchers : ~(Claiming(p) /\ at[p].fence = f)

\* openSendDay's upsert locks the day's row until the claim's transaction ends.
DayUnlocked(d) == \A p \in Dispatchers : ~(at[p].pc = "reserving" /\ at[p].date = d)

\* A plausible slip: the cap compared with <=.
CapLeftOffByOne(d) == sentOn[d] <= Cap

\* day.automatedSent < cap, and the WHERE of countAutomatedSend.
CapLeft(d) == sentOn[d] < Cap

Admissible(f) ==
  /\ FirmOf[f] \notin stopped
  /\ \A h \in hold : FirmOf[h.fence] # FirmOf[f]
  /\ CapLeft(today)
  /\ grant

\* A plausible slip: a fence in doubt may be prepared again.
ReleasableInDoubt(f) == fence[f].state \in {"held", "reconciling"}

\* releaseFence: WHERE state = 'held'.
Releasable(f) == fence[f].state = "held"

\* A plausible slip: the claim keeps the date its placement planned.
ChargedDatePlanned(p) == fence[at[p].fence].date

\* claimForDispatch records the business date of the decision.
ChargedDate(p) == at[p].date

\* A plausible slip: the late answer is recorded without the state it is due in.
RecordableAnyState(p) == fence[at[p].fence].token = at[p].token

\* recordSent: WHERE attempt_token = $3 AND state = 'dispatching'.
Recordable(p) ==
  /\ fence[at[p].fence].token = at[p].token
  /\ fence[at[p].fence].state = "dispatching"

Move(f, state) == fence' = [fence EXCEPT ![f].state = state]
Goto(p, pc) == at' = [at EXCEPT ![p].pc = pc]
Leave(p) == at' = [at EXCEPT ![p] = Idle]

\* openHold comes next.
Opening(p, reason) == at' = [at EXCEPT ![p].pc = "gating", ![p].reason = reason]

-----------------------------------------------------------------------------
(* dispatchOutboundMessage.                                                *)

\* prepareOutboundMessage, in the step's transaction; its uniqueness makes one
\* fence of any number of calls. The placement plans a business date.
Prepare(f, planned) ==
  /\ fence[f].state = "absent"
  /\ planned >= today
  /\ fence' = [fence EXCEPT ![f].state = "prepared", ![f].date = planned]
  /\ UNCHANGED <<hold, stopped, sentOn, today, grant, gmail, at>>

\* readFence: in any other state dispatchOutboundMessage returns at once.
StartDispatch(p, f) ==
  /\ at[p].pc = "idle"
  /\ fence[f].state \in {"prepared", "held"}
  /\ at' = [at EXCEPT ![p].fence = f,
                      ![p].pc = IF fence[f].state = "held" THEN "clearing" ELSE "prechecking"]
  /\ UNCHANGED <<fence, hold, stopped, sentOn, today, grant, gmail>>

\* A plausible slip: every hold the fence opened is cleared.
StaleWhatever(h) == TRUE

\* A fence in doubt is not a held fence, and its holds are not a retry's to clear.
StaleOnRetry(h) == h.reason \notin {"reconciling", "terminal"}

\* The holds the held fence opened last time.
ClearHolds(p) ==
  /\ at[p].pc = "clearing"
  /\ hold' = {h \in hold : ~(h.fence = at[p].fence /\ StaleOnRetry(h))}
  /\ Goto(p, "releasing")
  /\ UNCHANGED <<fence, stopped, sentOn, today, grant, gmail>>

ReleaseFence(p) ==
  /\ at[p].pc = "releasing"
  /\ IF Releasable(at[p].fence)
     THEN Move(at[p].fence, "prepared") /\ Goto(p, "prechecking")
     ELSE Leave(p) /\ UNCHANGED fence
  /\ UNCHANGED <<hold, stopped, sentOn, today, grant, gmail>>

\* decideSend and accessForMailbox, both before the claim. `licensed` is every
\* question no state here answers: window, attestation, route, template...
Precheck(p, licensed) ==
  /\ at[p].pc = "prechecking"
  /\ IF licensed /\ Admissible(at[p].fence)
     THEN DayUnlocked(today) /\ Goto(p, "claiming")
     ELSE Goto(p, "refusing")
  /\ UNCHANGED <<fence, hold, stopped, sentOn, today, grant, gmail>>

\* What a refusal does to the step: a hold, unless holdReasonForRefusal has none.
AfterRefusal(p, opens) == IF opens THEN Opening(p, "refusal") ELSE Leave(p)

\* hold(): holdFence's result is not looked at.
Refuse(p, opens) ==
  /\ at[p].pc = "refusing"
  /\ Unlocked(at[p].fence)
  /\ IF fence[at[p].fence].state = "prepared"
     THEN Move(at[p].fence, "held")
     ELSE UNCHANGED fence
  /\ AfterRefusal(p, opens)
  /\ UNCHANGED <<hold, stopped, sentOn, today, grant, gmail>>

\* BEGIN, the gate SHARED, lockFenceForClaim.
BeginClaim(p) ==
  /\ at[p].pc = "claiming"
  /\ Unlocked(at[p].fence)
  /\ IF fence[at[p].fence].state = "prepared" THEN Goto(p, "deciding") ELSE Leave(p)
  /\ UNCHANGED <<fence, hold, stopped, sentOn, today, grant, gmail>>

\* The recheck under the gate. A refusal commits the fence's `held`; an admission
\* keeps today's counter row locked.
Recheck(p, licensed, opens) ==
  /\ at[p].pc = "deciding"
  /\ IF licensed /\ Admissible(at[p].fence)
     THEN /\ DayUnlocked(today)
          /\ at' = [at EXCEPT ![p].pc = "reserving", ![p].date = today]
          /\ UNCHANGED fence
     ELSE Move(at[p].fence, "held") /\ AfterRefusal(p, opens)
  /\ UNCHANGED <<hold, stopped, sentOn, today, grant, gmail>>

\* countAutomatedSend, claimForDispatch, COMMIT; or the cap is spent and the
\* transaction commits the fence's `held`.
CommitClaim(p) ==
  /\ at[p].pc = "reserving"
  /\ LET f == at[p].fence
         token == fence[f].token + 1 IN
     IF CapLeft(at[p].date)
     THEN /\ sentOn' = [sentOn EXCEPT ![at[p].date] = @ + 1]
          /\ fence' = [fence EXCEPT ![f].state = "dispatching", ![f].token = token,
                                    ![f].date = ChargedDate(p)]
          /\ at' = [at EXCEPT ![p].pc = "calling", ![p].token = token]
     ELSE /\ Move(f, "held")
          /\ Opening(p, "refusal")
          /\ UNCHANGED sentOn
  /\ UNCHANGED <<hold, stopped, today, grant, gmail>>

\* gmail.sendMessage. Gmail accepts the message or not; an acceptance may still
\* be answered by a timeout, a refusal never is an acceptance.
CallGmail(p, accepts, answers) ==
  /\ at[p].pc = "calling"
  /\ answers => accepts
  /\ gmail' = [gmail EXCEPT ![at[p].fence] =
                 [calls |-> @.calls + 1, left |-> @.left \/ accepts]]
  /\ Goto(p, IF answers THEN "recording" ELSE "doubting")
  /\ UNCHANGED <<fence, hold, stopped, sentOn, today, grant>>

RecordSent(p) ==
  /\ at[p].pc = "recording"
  /\ IF Recordable(p) THEN Move(at[p].fence, "sent") ELSE UNCHANGED fence
  /\ Leave(p)
  /\ UNCHANGED <<hold, stopped, sentOn, today, grant, gmail>>

\* beginReconciling's result is not looked at either: the hold is opened next.
BeginReconciling(p) ==
  /\ at[p].pc = "doubting"
  /\ IF fence[at[p].fence].state = "dispatching"
     THEN Move(at[p].fence, "reconciling")
     ELSE UNCHANGED fence
  /\ Opening(p, "reconciling")
  /\ UNCHANGED <<hold, stopped, sentOn, today, grant, gmail>>

\* openHold outside a transaction: the gate is waited for and let go, by one
\* statement; the row is inserted by the next.
PassGate(p) ==
  /\ at[p].pc = "gating"
  /\ GateFree
  /\ Goto(p, "inserting")
  /\ UNCHANGED <<fence, hold, stopped, sentOn, today, grant, gmail>>

InsertHold(p) ==
  /\ at[p].pc = "inserting"
  /\ hold' = hold \cup {[fence |-> at[p].fence, reason |-> at[p].reason]}
  /\ Leave(p)
  /\ UNCHANGED <<fence, stopped, sentOn, today, grant, gmail>>

\* The process dies or a statement throws. A claiming transaction rolls back, as
\* it also does on every `not_ready` of recheckAndClaim.
Abandon(p) ==
  /\ at[p].pc # "idle"
  /\ Leave(p)
  /\ UNCHANGED <<fence, hold, stopped, sentOn, today, grant, gmail>>

-----------------------------------------------------------------------------
(* reconcileOutboundMessage.                                               *)

\* A plausible slip: the sweep only looks at the fences already in `reconciling`.
AdoptableReconciling(f) == fence[f].state = "reconciling"

\* In `dispatching` for more than adoptAfterSeconds; its process may be alive.
Adoptable(f) == fence[f].state = "dispatching"

Adopt(p, f) ==
  /\ at[p].pc = "idle"
  /\ Adoptable(f)
  /\ Move(f, "reconciling")
  /\ UNCHANGED <<hold, stopped, sentOn, today, grant, gmail, at>>

\* The fence is read once; the deadline compared later is the one read here.
StartSweep(p, f) ==
  /\ at[p].pc = "idle"
  /\ fence[f].state = "reconciling"
  /\ at' = [at EXCEPT ![p].pc = "searching", ![p].fence = f,
                      ![p].late = fence[f].overdue]
  /\ UNCHANGED <<fence, hold, stopped, sentOn, today, grant, gmail>>

\* No access, an open incident or a failed search: nothing was learned.
CannotLook(p) ==
  /\ at[p].pc = "searching"
  /\ ~grant
  /\ Leave(p)
  /\ UNCHANGED <<fence, hold, stopped, sentOn, today, grant, gmail>>

\* searchSentByMessageId. The Sent index lags: a message that left may be missed.
Search(p, found) ==
  /\ at[p].pc = "searching"
  /\ grant
  /\ found => gmail[at[p].fence].left
  /\ Goto(p, IF found THEN "settling" ELSE "expiring")
  /\ UNCHANGED <<fence, hold, stopped, sentOn, today, grant, gmail>>

\* recordReconciledSent; the hold comes off next if it won.
RecordReconciledSent(p) ==
  /\ at[p].pc = "settling"
  /\ IF fence[at[p].fence].state = "reconciling"
     THEN Move(at[p].fence, "sent") /\ Goto(p, "lifting")
     ELSE Leave(p) /\ UNCHANGED fence
  /\ UNCHANGED <<hold, stopped, sentOn, today, grant, gmail>>

\* The deadline as read, and the WHERE of markUnknownTerminal.
Expired(p) ==
  /\ at[p].late
  /\ fence[at[p].fence].state = "reconciling"
  /\ fence[at[p].fence].overdue

\* recordReconcileMiss, and markUnknownTerminal when the window is over.
MarkUnknownTerminal(p) ==
  /\ at[p].pc = "expiring"
  /\ IF Expired(p)
     THEN Move(at[p].fence, "unknown_terminal") /\ Goto(p, "closing")
     ELSE Leave(p) /\ UNCHANGED fence
  /\ UNCHANGED <<hold, stopped, sentOn, today, grant, gmail>>

\* releaseHoldsOfEvent(send_unknown_reconciling), then the terminal hold if due.
ReleaseDoubt(p) ==
  /\ at[p].pc \in {"lifting", "closing"}
  /\ hold' = hold \ {[fence |-> at[p].fence, reason |-> "reconciling"]}
  /\ IF at[p].pc = "closing" THEN Opening(p, "terminal") ELSE Leave(p)
  /\ UNCHANGED <<fence, stopped, sentOn, today, grant, gmail>>

-----------------------------------------------------------------------------
(* The rest of the system, as far as it writes what is modelled here.      *)

\* A writer of a stop fact takes the gate EXCLUSIVE inside its transaction.
CommitStop(firm) ==
  /\ firm \notin stopped
  /\ GateFree
  /\ stopped' = stopped \cup {firm}
  /\ UNCHANGED <<fence, hold, sentOn, today, grant, gmail, at>>

\* A permissive write takes no lock.
LiftStop(firm) ==
  /\ firm \in stopped
  /\ stopped' = stopped \ {firm}
  /\ UNCHANGED <<fence, hold, sentOn, today, grant, gmail, at>>

\* resolveUnknownTerminal.
Answer(f) ==
  /\ fence[f].state = "unknown_terminal"
  /\ ~fence[f].answered
  /\ fence' = [fence EXCEPT ![f].answered = TRUE]
  /\ UNCHANGED <<hold, stopped, sentOn, today, grant, gmail, at>>

\* settleFromFence, in the step's transaction: once, for the step completes.
SettleStep(f) ==
  /\ ~fence[f].settled
  /\ \/ fence[f].state = "sent" /\ UNCHANGED hold
     \/ /\ fence[f].state = "unknown_terminal"
        /\ fence[f].answered
        /\ hold' = hold \ {[fence |-> f, reason |-> "terminal"]}
  /\ fence' = [fence EXCEPT ![f].settled = TRUE]
  /\ UNCHANGED <<stopped, sentOn, today, grant, gmail, at>>

DeadlinePasses(f) ==
  /\ fence[f].state = "reconciling"
  /\ ~fence[f].overdue
  /\ fence' = [fence EXCEPT ![f].overdue = TRUE]
  /\ UNCHANGED <<hold, stopped, sentOn, today, grant, gmail, at>>

NewDay ==
  /\ today < LastDay
  /\ today' = today + 1
  /\ UNCHANGED <<fence, hold, stopped, sentOn, grant, gmail, at>>

\* The owner revokes the grant, or an incident is recorded; and back.
GrantChanges ==
  /\ grant' = ~grant
  /\ UNCHANGED <<fence, hold, stopped, sentOn, today, gmail, at>>

-----------------------------------------------------------------------------
Dispatch(p) ==
  \/ ClearHolds(p) \/ ReleaseFence(p)
  \/ \E licensed \in BOOLEAN : Precheck(p, licensed)
  \/ \E opens \in BOOLEAN : Refuse(p, opens)
  \/ BeginClaim(p)
  \/ \E licensed, opens \in BOOLEAN : Recheck(p, licensed, opens)
  \/ CommitClaim(p)
  \/ \E accepts, answers \in BOOLEAN : CallGmail(p, accepts, answers)
  \/ RecordSent(p) \/ BeginReconciling(p)

Sweep(p) ==
  \/ CannotLook(p)
  \/ \E found \in BOOLEAN : Search(p, found)
  \/ RecordReconciledSent(p) \/ MarkUnknownTerminal(p) \/ ReleaseDoubt(p)

Environment ==
  \/ \E f \in Fences : \/ \E d \in Days : Prepare(f, d)
                       \/ Answer(f) \/ SettleStep(f) \/ DeadlinePasses(f)
  \/ \E firm \in Firms : CommitStop(firm) \/ LiftStop(firm)
  \/ NewDay \/ GrantChanges

Next ==
  \/ \E p \in Dispatchers : Dispatch(p) \/ \E f \in Fences : StartDispatch(p, f)
  \/ \E p \in Sweepers : Sweep(p) \/ \E f \in Fences : Adopt(p, f) \/ StartSweep(p, f)
  \/ \E p \in Procs : PassGate(p) \/ InsertHold(p) \/ Abandon(p)
  \/ Environment

Spec == Init /\ [][Next]_vars

\* What the code's scheduling justifies. A slot that holds a fence goes on with it:
\* every network call has a timeout, and the gate is granted in turn. Each pass of
\* the scheduler queues mail.reconcile again for every fence that is due one, so
\* sweeping a fence is retried for ever, however often a sweep is cut short.
Fairness ==
  /\ \A p \in Procs : WF_vars(Dispatch(p)) /\ WF_vars(InsertHold(p)) /\ SF_vars(PassGate(p))
  /\ \A f \in Fences :
       /\ WF_vars(DeadlinePasses(f))
       /\ SF_vars(\E p \in Sweepers : Adopt(p, f))
       /\ SF_vars(\E p \in Sweepers : StartSweep(p, f))
       /\ SF_vars(\E p \in Sweepers, found \in BOOLEAN : at[p].fence = f /\ Search(p, found))
       /\ SF_vars(\E p \in Sweepers : at[p].fence = f /\ RecordReconciledSent(p))
       /\ SF_vars(\E p \in Sweepers : at[p].fence = f /\ MarkUnknownTerminal(p))
  /\ \A p \in Sweepers : WF_vars(CannotLook(p) \/ ReleaseDoubt(p))

FairSpec == Spec /\ Fairness

-----------------------------------------------------------------------------
(* Properties.                                                             *)

\* Every row and every process has its type; in particular automated_sent never
\* passes the cap, whichever claims race for the last slot of the day.
TypeOK ==
  /\ fence \in [Fences -> FenceRows]
  /\ hold \subseteq Holds
  /\ stopped \subseteq Firms
  /\ sentOn \in [Days -> 0..Cap]
  /\ today \in Days
  /\ grant \in BOOLEAN
  /\ gmail \in [Fences -> [calls : Nat, left : BOOLEAN]]
  /\ at \in [Procs -> Places]

Unasked == {"absent", "prepared", "held"}

\* Gmail is asked at most once for a fence, under the one token it ever got, and
\* a fence that may still be sent, or be held and sent later, was never asked:
\* no interleaving of two dispatches, a retry of a held fence, a crash and the
\* sweep leads back before the call (claimForDispatch, releaseFence).
OneCallPerFence ==
  \A f \in Fences :
    /\ gmail[f].calls <= fence[f].token
    /\ fence[f].token <= 1
    /\ fence[f].state \in Unasked => fence[f].token = 0

\* automated_sent of a date is the number of fences claimed on that date, so no
\* crash, refusal or race leaves a count no fence explains and none goes missing:
\* the comment of claimedAutomatedSends (ramp.ts), which derives the one from the
\* other.
DayCountExplained ==
  \A d \in Days :
    sentOn[d] = Cardinality({f \in Fences : fence[f].token # 0 /\ fence[f].date = d})

\* No dispatch is authorized for a firm that a committed stop forbids: whatever
\* was read before the token refresh, the recheck and the claim see every stop
\* that committed before them (sendGate.ts: there is no third interleaving).
NoClaimUnderStop ==
  [][\A f \in Fences :
       fence[f].state = "prepared" /\ fence'[f].state = "dispatching" =>
         FirmOf[f] \notin stopped]_vars

\* The hold a doubt opened on the firm outlives the doubt: only a fence that has
\* its verdict loses it, although a slow retry of the fence, started when it was
\* held, may clear its holds at any later time (send.ts, the retry of a held fence).
DoubtKeepsItsHold ==
  [][\A h \in hold :
       h.reason = "reconciling" /\ h \notin hold' =>
         fence[h.fence].state \in {"sent", "unknown_terminal"}]_vars

Promise == INSTANCE SendPromise WITH
  authorized <- {f \in Fences : fence[f].token # 0},
  asked <- {f \in Fences : gmail[f].calls # 0},
  left <- {f \in Fences : gmail[f].left},
  verdict <- [f \in Fences |->
                IF fence[f].state = "sent" THEN "sent"
                ELSE IF fence[f].state = "unknown_terminal" THEN "unknown" ELSE "open"]

\* The fence, its dispatchers and its sweeps implement the promise: asked at most
\* once and only when authorized, `sent` only of what left, no verdict revised.
RefinesPromise == Promise!Spec

InDoubt(f) == fence[f].state \in {"dispatching", "reconciling"}

Decided(f) == fence[f].state \in {"sent", "unknown_terminal"}

\* Once the mailbox stays reachable, every fence that was ever authorized gets a
\* verdict, whoever died with it: the sweep adopts what a dead dispatcher left
\* and the window ends what the Sent folder does not answer.
EveryDoubtEnds ==
  \A f \in Fences : <>[]grant => (InDoubt(f) ~> Decided(f))

=============================================================================
