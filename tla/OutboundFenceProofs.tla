------------------------- MODULE OutboundFenceProofs -------------------------
(***************************************************************************)
(* What holds of the outbound fence for any number of fences, firms,       *)
(* dispatchers and sweeps, any daily cap and any number of days.           *)
(***************************************************************************)
EXTENDS OutboundFence, FiniteSetTheorems, TLAPS

USE ConstantsAssumption

-----------------------------------------------------------------------------
(* The inductive invariant.                                                *)

\* A fence has a token exactly when it is past the call's authorization; Gmail was asked
\* at most as often as tokens were given, has nothing it was not asked to send, and
\* nobody says `sent` of what did not leave.
FenceSound(f) ==
  /\ fence[f].token <= 1
  /\ fence[f].token = 0 <=> fence[f].state \in Unasked
  /\ gmail[f].calls <= fence[f].token
  /\ gmail[f].left => gmail[f].calls # 0
  /\ fence[f].state = "sent" => gmail[f].left

\* What a process remembers at each stage is still true of the fence it works on: the
\* row a claim has locked stays `prepared`, the firm of an admitted claim is not stopped,
\* a call about to be made was not made, and a verdict stands.
Remembers(p) ==
  /\ at[p].pc # "idle" => at[p].fence \in Fences
  /\ p \in Dispatchers /\ Claiming(p) => fence[at[p].fence].state = "prepared"
  /\ p \in Dispatchers /\ at[p].pc = "reserving" =>
       at[p].date \in Days /\ FirmOf[at[p].fence] \notin stopped
  /\ at[p].pc = "calling" => /\ fence[at[p].fence].token # 0
                             /\ gmail[at[p].fence].calls = 0
  /\ at[p].pc \in {"recording", "settling"} => gmail[at[p].fence].left
  /\ at[p].pc = "lifting" => fence[at[p].fence].state = "sent"
  /\ at[p].pc = "closing" => fence[at[p].fence].state = "unknown_terminal"
  /\ at[p].pc \in {"gating", "inserting"} => at[p].reason \in Reasons

\* One fence is in one claim, and in the hands of one caller.
Alone(p) ==
  /\ p \in Dispatchers /\ Claiming(p) =>
       \A q \in Dispatchers \ {p} : Claiming(q) => at[q].fence # at[p].fence
  /\ at[p].pc = "calling" =>
       \A q \in Procs \ {p} : at[q].pc = "calling" => at[q].fence # at[p].fence

IInv ==
  /\ TypeOK
  /\ DayCountExplained
  /\ \A f \in Fences : FenceSound(f)
  /\ \A p \in Procs : Remembers(p) /\ Alone(p)

LEMMA InitInv == Init => IInv
<1> SUFFICES ASSUME Init PROVE IInv
  OBVIOUS
<1> USE DEF Init, Idle
<1>1. TypeOK
  <2>1. Idle \in Places
    BY DEF Places, Stages, Idle
  <2>2. 1 \in Days /\ 0 \in 0..Cap
    BY DEF Days
  <2>3. fence \in [Fences -> FenceRows]
    BY DEF FenceRows, States
  <2> QED BY <2>1, <2>2, <2>3 DEF TypeOK, Holds
<1>2. DayCountExplained
  <2>1. ASSUME NEW d \in Days PROVE {f \in Fences : fence[f].token # 0 /\ fence[f].date = d} = {}
    OBVIOUS
  <2> QED BY <2>1, FS_EmptySet DEF DayCountExplained
<1>3. \A f \in Fences : FenceSound(f)
  BY DEF FenceSound, Unasked
<1>4. \A p \in Procs : Remembers(p) /\ Alone(p)
  BY DEF Remembers, Alone, Claiming, Procs
<1> QED BY <1>1, <1>2, <1>3, <1>4 DEF IInv

-----------------------------------------------------------------------------
(* What a step has to respect.                                             *)

\* Every write of a fence but the claim: it mints no token, moves no charged date, does
\* not lead back before the call, revises no verdict, says `sent` only of what left and
\* waits for the claim that holds the row.
FenceKept(f) ==
  /\ fence'[f].token = fence[f].token
  /\ fence[f].token # 0 => fence'[f].date = fence[f].date
  /\ fence'[f].state \in Unasked <=> fence[f].state \in Unasked
  /\ fence'[f].state = "sent" => gmail[f].left
  /\ fence[f].state \in {"sent", "unknown_terminal"} => fence'[f].state = fence[f].state
  /\ \/ fence[f].state = "prepared" => fence'[f].state = "prepared"
     \/ \A q \in Dispatchers : Claiming(q)' => at'[q].fence # f

\* No step but the claim and the call does more to fences than that, and a process
\* that moves knows what it has to know.
LEMMA StepKeeps ==
  ASSUME IInv, TypeOK', UNCHANGED <<gmail, sentOn>>,
         stopped' \subseteq stopped \/ GateFree,
         \A f \in Fences : FenceKept(f),
         \A p \in Procs : at'[p] = at[p] \/ (Remembers(p)' /\ Alone(p)')
  PROVE  IInv'
<1>1. DayCountExplained'
  <2> SUFFICES ASSUME NEW d \in Days
               PROVE  sentOn[d] = Cardinality({f \in Fences : fence'[f].token # 0 /\ fence'[f].date = d})
    BY DEF DayCountExplained
  <2>1. {f \in Fences : fence'[f].token # 0 /\ fence'[f].date = d}
          = {f \in Fences : fence[f].token # 0 /\ fence[f].date = d}
    BY DEF FenceKept
  <2> QED BY <2>1 DEF IInv, DayCountExplained
<1>2. \A f \in Fences : FenceSound(f)'
  BY DEF IInv, FenceSound, FenceKept
<1>3. ASSUME NEW p \in Procs PROVE Remembers(p)'
  <2>1. CASE at'[p] = at[p]
    <3>1. Remembers(p) /\ Alone(p)
      BY DEF IInv
    <3>2. at[p].pc # "idle" => at[p].fence \in Fences
      BY <3>1 DEF Remembers
    <3>3. p \in Dispatchers /\ Claiming(p) => fence'[at[p].fence].state = "prepared"
      BY <2>1, <3>1, <3>2 DEF Remembers, FenceKept, Claiming
    <3>4. p \in Dispatchers /\ at[p].pc = "reserving" => FirmOf[at[p].fence] \notin stopped'
      BY <3>1 DEF Remembers, GateFree, Claiming
    <3>5. at[p].pc = "calling" => fence'[at[p].fence].token # 0
      BY <3>1, <3>2 DEF Remembers, FenceKept
    <3>6. at[p].pc \in {"lifting", "closing"} => fence'[at[p].fence].state = fence[at[p].fence].state
      BY <3>1, <3>2 DEF Remembers, FenceKept
    <3> QED BY <2>1, <3>1, <3>2, <3>3, <3>4, <3>5, <3>6 DEF Remembers, Claiming
  <2> QED BY <2>1
<1>4. ASSUME NEW p \in Procs PROVE Alone(p)'
  <2>1. CASE at'[p] = at[p]
    <3> SUFFICES ASSUME NEW q \in Procs \ {p}, at'[q].fence = at'[p].fence
                 PROVE  /\ ~(p \in Dispatchers /\ q \in Dispatchers /\ Claiming(p)' /\ Claiming(q)')
                        /\ ~(at'[p].pc = "calling" /\ at'[q].pc = "calling")
      BY DEF Alone, Procs
    <3>1. CASE at'[q] = at[q]
      BY <2>1, <3>1 DEF IInv, Alone, Claiming
    <3>2. CASE Alone(q)'
      BY <3>2 DEF Alone, Procs
    <3> QED BY <3>1, <3>2
  <2> QED BY <2>1
<1> QED BY <1>1, <1>2, <1>3, <1>4 DEF IInv

\* The fields of a fence that moves, and the fences that do not.
LEMMA Moved ==
  ASSUME TypeOK, NEW f \in Fences, NEW state \in States, Move(f, state)
  PROVE  /\ fence' \in [Fences -> FenceRows]
         /\ fence'[f].state = state
         /\ fence'[f].token = fence[f].token
         /\ fence'[f].date = fence[f].date
         /\ \A e \in Fences \ {f} : fence'[e] = fence[e]
<1> DEFINE row == [fence[f] EXCEPT !.state = state]
<1>1. fence[f] \in FenceRows /\ fence' = [fence EXCEPT ![f] = row]
  BY DEF TypeOK, Move
<1>2. /\ row \in FenceRows /\ row.state = state /\ row.token = fence[f].token
      /\ row.date = fence[f].date
  BY <1>1 DEF FenceRows
<1> QED BY <1>1, <1>2 DEF TypeOK

\* The fences of a step that writes none of them.
LEMMA FencesKept ==
  ASSUME IInv, UNCHANGED <<fence, gmail>>
  PROVE  \A f \in Fences : FenceKept(f)
BY DEF FenceKept, IInv, FenceSound

\* The places of a step in which one process moves.
LEMMA PlaceTyped ==
  ASSUME TypeOK, NEW p \in Procs, NEW r \in Places, at' = [at EXCEPT ![p] = r]
  PROVE  /\ at' \in [Procs -> Places]
         /\ at'[p] = r
         /\ \A q \in Procs \ {p} : at'[q] = at[q]
BY DEF TypeOK

\* Goto, Opening and Leave as the place they lead to.
LEMMA Went ==
  ASSUME TypeOK, NEW p \in Procs, NEW pc \in Stages, Goto(p, pc)
  PROVE  /\ at' \in [Procs -> Places]
         /\ at'[p].pc = pc
         /\ at'[p].fence = at[p].fence /\ at'[p].token = at[p].token
         /\ at'[p].date = at[p].date /\ at'[p].reason = at[p].reason
         /\ \A q \in Procs \ {p} : at'[q] = at[q]
BY DEF TypeOK, Goto, Places

LEMMA Opened ==
  ASSUME TypeOK, NEW p \in Procs, NEW reason \in Reasons, Opening(p, reason)
  PROVE  /\ at' \in [Procs -> Places]
         /\ at'[p].pc = "gating" /\ at'[p].reason = reason
         /\ at'[p].fence = at[p].fence
         /\ \A q \in Procs \ {p} : at'[q] = at[q]
<1> DEFINE r == [at[p] EXCEPT !.pc = "gating", !.reason = reason]
<1>1. at[p] \in Places /\ at' = [at EXCEPT ![p] = r]
  BY DEF TypeOK, Opening
<1>2. r \in Places /\ r.pc = "gating" /\ r.reason = reason /\ r.fence = at[p].fence
  BY <1>1 DEF Places, Stages
<1> HIDE DEF r
<1> QED BY <1>1, <1>2, PlaceTyped

LEMMA Left ==
  ASSUME TypeOK, NEW p \in Procs, Leave(p)
  PROVE  /\ at' \in [Procs -> Places]
         /\ at'[p].pc = "idle"
         /\ \A q \in Procs \ {p} : at'[q] = at[q]
<1>1. Idle \in Places /\ Idle.pc = "idle"
  BY DEF Idle, Places, Stages
<1> QED BY <1>1, PlaceTyped DEF Leave

\* A process that leaves, or opens a hold, has nothing more to know.
LEMMA Carefree ==
  ASSUME NEW p \in Procs,
         at'[p].pc = "idle" \/ /\ at'[p].pc \in {"gating", "inserting"}
                               /\ at'[p].fence \in Fences /\ at'[p].reason \in Reasons
  PROVE  Remembers(p)' /\ Alone(p)'
BY DEF Remembers, Alone, Claiming

\* A step of one process that writes no fence.
LEMMA PlaceChange ==
  ASSUME IInv, NEW p \in Procs,
         UNCHANGED <<fence, stopped, sentOn, today, grant, gmail>>, hold' \subseteq Holds,
         at' \in [Procs -> Places], \A q \in Procs \ {p} : at'[q] = at[q],
         Remembers(p)', Alone(p)'
  PROVE  IInv'
<1>1. TypeOK'
  BY DEF IInv, TypeOK
<1> QED BY <1>1, FencesKept, StepKeeps

\* A step of one process that writes one fence.
LEMMA FenceChange ==
  ASSUME IInv, NEW p \in Procs, NEW f \in Fences,
         UNCHANGED <<stopped, sentOn, today, grant, gmail>>, hold' \subseteq Holds,
         fence' \in [Fences -> FenceRows], \A e \in Fences \ {f} : fence'[e] = fence[e],
         at' \in [Procs -> Places], \A q \in Procs \ {p} : at'[q] = at[q],
         FenceKept(f), Remembers(p)', Alone(p)'
  PROVE  IInv'
<1>1. TypeOK'
  BY DEF IInv, TypeOK
<1>2. \A e \in Fences : FenceKept(e)
  <2> SUFFICES ASSUME NEW e \in Fences \ {f} PROVE FenceKept(e)
    OBVIOUS
  <2> QED BY DEF FenceKept, IInv, FenceSound
<1> QED BY <1>1, <1>2, StepKeeps

-----------------------------------------------------------------------------
(* Dispatches, up to the claim.                                            *)

\* What is known of a process in the middle of its work.
LEMMA AtWork ==
  ASSUME IInv, NEW p \in Procs, at[p].pc # "idle"
  PROVE  /\ TypeOK /\ hold \subseteq Holds
         /\ at[p] \in Places /\ at[p].fence \in Fences
         /\ fence[at[p].fence] \in FenceRows
         /\ FenceSound(at[p].fence) /\ Remembers(p) /\ Alone(p)
<1>1. TypeOK /\ Remembers(p) /\ Alone(p) /\ at[p].fence \in Fences
  BY DEF IInv, Remembers
<1> QED BY <1>1 DEF IInv, TypeOK

LEMMA StartDispatchStep ==
  ASSUME IInv, NEW p \in Dispatchers, NEW f \in Fences, StartDispatch(p, f)
  PROVE  IInv'
<1> DEFINE pc == IF fence[f].state = "held" THEN "clearing" ELSE "prechecking"
           r == [at[p] EXCEPT !.fence = f, !.pc = pc]
<1>1. p \in Procs /\ TypeOK /\ at[p] \in Places /\ pc \in Stages
  BY DEF Procs, IInv, TypeOK, Stages
<1>2. at' = [at EXCEPT ![p] = r]
  BY <1>1 DEF StartDispatch, TypeOK
<1>3. r \in Places /\ r.pc = pc /\ r.fence = f
  <2> HIDE DEF pc
  <2> QED BY <1>1 DEF Places
<1>4. pc \in {"clearing", "prechecking"}
  OBVIOUS
<1> HIDE DEF r, pc
<1>5. /\ at' \in [Procs -> Places] /\ at'[p] = r
      /\ \A q \in Procs \ {p} : at'[q] = at[q]
  BY <1>1, <1>2, <1>3, PlaceTyped
<1>6. Remembers(p)' /\ Alone(p)'
  BY <1>3, <1>4, <1>5 DEF Remembers, Alone, Claiming
<1> QED BY <1>1, <1>5, <1>6, PlaceChange DEF StartDispatch, TypeOK

LEMMA ClearHoldsStep ==
  ASSUME IInv, NEW p \in Dispatchers, ClearHolds(p)
  PROVE  IInv'
<1>1. p \in Procs /\ at[p].pc # "idle"
  BY DEF Procs, ClearHolds
<1>2. hold' \subseteq Holds
  BY <1>1, AtWork DEF ClearHolds
<1>3. /\ at' \in [Procs -> Places] /\ at'[p].pc = "releasing" /\ at'[p].fence = at[p].fence
      /\ \A q \in Procs \ {p} : at'[q] = at[q]
  BY <1>1, AtWork, Went DEF ClearHolds, Stages
<1>4. Remembers(p)' /\ Alone(p)'
  BY <1>1, <1>3, AtWork DEF Remembers, Alone, Claiming
<1> QED BY <1>1, <1>2, <1>3, <1>4, PlaceChange DEF ClearHolds

LEMMA ReleaseFenceStep ==
  ASSUME IInv, NEW p \in Dispatchers, ReleaseFence(p)
  PROVE  IInv'
<1> DEFINE f == at[p].fence
<1>1. p \in Procs /\ at[p].pc # "idle" /\ hold' = hold
  BY DEF Procs, ReleaseFence
<1>2. CASE Releasable(f)
  <2>1. Move(f, "prepared") /\ Goto(p, "prechecking")
    BY <1>2 DEF ReleaseFence
  <2>2. /\ fence' \in [Fences -> FenceRows] /\ fence'[f].state = "prepared"
        /\ fence'[f].token = fence[f].token /\ fence'[f].date = fence[f].date
        /\ \A e \in Fences \ {f} : fence'[e] = fence[e]
    BY <1>1, <2>1, AtWork, Moved DEF States
  <2>3. /\ at' \in [Procs -> Places] /\ at'[p].pc = "prechecking" /\ at'[p].fence = f
        /\ \A q \in Procs \ {p} : at'[q] = at[q]
    BY <1>1, <2>1, AtWork, Went DEF Stages
  <2>4. FenceKept(f)
    BY <1>2, <2>2 DEF FenceKept, Releasable, Unasked
  <2>5. Remembers(p)' /\ Alone(p)'
    BY <1>1, <2>3, AtWork DEF Remembers, Alone, Claiming
  <2> QED BY <1>1, <2>2, <2>3, <2>4, <2>5, AtWork, FenceChange DEF ReleaseFence
<1>3. CASE ~Releasable(f)
  <2>1. Leave(p) /\ UNCHANGED fence
    BY <1>3 DEF ReleaseFence
  <2>2. /\ at' \in [Procs -> Places] /\ at'[p].pc = "idle"
        /\ \A q \in Procs \ {p} : at'[q] = at[q]
    BY <1>1, <2>1, AtWork, Left
  <2> QED BY <1>1, <2>1, <2>2, Carefree, AtWork, PlaceChange DEF ReleaseFence
<1> QED BY <1>2, <1>3

LEMMA PrecheckStep ==
  ASSUME IInv, NEW p \in Dispatchers, NEW licensed \in BOOLEAN, Precheck(p, licensed)
  PROVE  IInv'
<1>1. p \in Procs /\ at[p].pc # "idle" /\ hold' = hold
  BY DEF Procs, Precheck
<1>2. \E pc \in {"claiming", "refusing"} : Goto(p, pc)
  BY DEF Precheck
<1>3. /\ at' \in [Procs -> Places] /\ at'[p].pc \in {"claiming", "refusing"}
      /\ at'[p].fence = at[p].fence
      /\ \A q \in Procs \ {p} : at'[q] = at[q]
  BY <1>1, <1>2, AtWork, Went DEF Stages
<1>4. Remembers(p)' /\ Alone(p)'
  BY <1>1, <1>3, AtWork DEF Remembers, Alone, Claiming
<1> QED BY <1>1, <1>3, <1>4, AtWork, PlaceChange DEF Precheck

\* What every refusal does to the process.
LEMMA Refused ==
  ASSUME IInv, NEW p \in Procs, NEW opens \in BOOLEAN, at[p].pc # "idle",
         AfterRefusal(p, opens)
  PROVE  /\ at' \in [Procs -> Places] /\ at'[p].pc \in {"idle", "gating"}
         /\ \A q \in Procs \ {p} : at'[q] = at[q]
         /\ Remembers(p)' /\ Alone(p)'
<1>1. CASE opens
  <2>1. /\ at' \in [Procs -> Places] /\ at'[p].pc = "gating" /\ at'[p].reason \in Reasons
        /\ at'[p].fence \in Fences
        /\ \A q \in Procs \ {p} : at'[q] = at[q]
    BY <1>1, AtWork, Opened DEF AfterRefusal, Reasons
  <2> QED BY <2>1, Carefree
<1>2. CASE ~opens
  BY <1>2, AtWork, Left, Carefree DEF AfterRefusal
<1> QED BY <1>1, <1>2

LEMMA RefuseStep ==
  ASSUME IInv, NEW p \in Dispatchers, NEW opens \in BOOLEAN, Refuse(p, opens)
  PROVE  IInv'
<1> DEFINE f == at[p].fence
<1>1. p \in Procs /\ at[p].pc # "idle" /\ hold' = hold
  BY DEF Procs, Refuse
<1>2. /\ at' \in [Procs -> Places] /\ at'[p].pc \in {"idle", "gating"}
      /\ \A q \in Procs \ {p} : at'[q] = at[q]
      /\ Remembers(p)' /\ Alone(p)'
  BY <1>1, Refused DEF Refuse
<1>3. CASE fence[f].state = "prepared"
  <2>1. /\ fence' \in [Fences -> FenceRows] /\ fence'[f].state = "held"
        /\ fence'[f].token = fence[f].token /\ fence'[f].date = fence[f].date
        /\ \A e \in Fences \ {f} : fence'[e] = fence[e]
    BY <1>1, <1>3, AtWork, Moved DEF Refuse, States
  <2>2. ASSUME NEW q \in Dispatchers, Claiming(q)' PROVE at'[q].fence # f
    BY <1>2, <2>2 DEF Refuse, Unlocked, Claiming, Procs
  <2>3. FenceKept(f)
    BY <1>3, <2>1, <2>2 DEF FenceKept, Unasked
  <2> QED BY <1>1, <1>2, <2>1, <2>3, AtWork, FenceChange DEF Refuse
<1>4. CASE fence[f].state # "prepared"
  BY <1>1, <1>2, <1>4, AtWork, PlaceChange DEF Refuse
<1> QED BY <1>3, <1>4

LEMMA BeginClaimStep ==
  ASSUME IInv, NEW p \in Dispatchers, BeginClaim(p)
  PROVE  IInv'
<1> DEFINE f == at[p].fence
<1>1. p \in Procs /\ at[p].pc # "idle" /\ hold' = hold
  BY DEF Procs, BeginClaim
<1>2. CASE fence[f].state = "prepared"
  <2>1. /\ at' \in [Procs -> Places] /\ at'[p].pc = "deciding" /\ at'[p].fence = f
        /\ \A q \in Procs \ {p} : at'[q] = at[q]
    BY <1>1, <1>2, AtWork, Went DEF BeginClaim, Stages
  <2>2. Remembers(p)'
    BY <1>1, <1>2, <2>1, AtWork DEF Remembers, BeginClaim
  <2>3. Alone(p)'
    BY <2>1 DEF Alone, BeginClaim, Unlocked, Claiming, Procs
  <2> QED BY <1>1, <2>1, <2>2, <2>3, AtWork, PlaceChange DEF BeginClaim
<1>3. CASE fence[f].state # "prepared"
  BY <1>1, <1>3, AtWork, Left, Carefree, PlaceChange DEF BeginClaim
<1> QED BY <1>2, <1>3

-----------------------------------------------------------------------------
(* The claim, the call and what is made of the answer.                     *)

\* A claim that ends without a token: the row it has locked goes to `held`.
LEMMA ClaimRefused ==
  ASSUME IInv, NEW p \in Dispatchers, NEW opens \in BOOLEAN, Claiming(p),
         Move(at[p].fence, "held"), AfterRefusal(p, opens),
         UNCHANGED <<hold, stopped, sentOn, today, grant, gmail>>
  PROVE  IInv'
<1> DEFINE f == at[p].fence
<1>1. p \in Procs /\ at[p].pc # "idle"
  BY DEF Procs, Claiming
<1>2. fence[f].state = "prepared"
  BY <1>1, AtWork DEF Remembers
<1>3. /\ at' \in [Procs -> Places] /\ at'[p].pc \in {"idle", "gating"}
      /\ \A q \in Procs \ {p} : at'[q] = at[q]
      /\ Remembers(p)' /\ Alone(p)'
  BY <1>1, Refused
<1>4. /\ fence' \in [Fences -> FenceRows] /\ fence'[f].state = "held"
      /\ fence'[f].token = fence[f].token /\ fence'[f].date = fence[f].date
      /\ \A e \in Fences \ {f} : fence'[e] = fence[e]
  BY <1>1, AtWork, Moved DEF States
<1>5. ASSUME NEW q \in Dispatchers, Claiming(q)' PROVE at'[q].fence # f
  <2>1. q # p /\ Claiming(q) /\ at'[q] = at[q]
    BY <1>3, <1>5 DEF Claiming, Procs
  <2> QED BY <1>1, <2>1, AtWork DEF Alone
<1>6. FenceKept(f)
  BY <1>2, <1>4, <1>5 DEF FenceKept, Unasked
<1> QED BY <1>1, <1>3, <1>4, <1>6, AtWork, FenceChange

LEMMA RecheckStep ==
  ASSUME IInv, NEW p \in Dispatchers, NEW licensed \in BOOLEAN, NEW opens \in BOOLEAN,
         Recheck(p, licensed, opens)
  PROVE  IInv'
<1> DEFINE f == at[p].fence
<1>1. p \in Procs /\ at[p].pc = "deciding" /\ Claiming(p) /\ hold' = hold
  BY DEF Procs, Recheck, Claiming
<1>2. CASE licensed /\ Admissible(f)
  <2> DEFINE r == [at[p] EXCEPT !.pc = "reserving", !.date = today]
  <2>1. at' = [at EXCEPT ![p] = r] /\ at[p] \in Places /\ today \in Days
    BY <1>1, <1>2, AtWork DEF Recheck, TypeOK
  <2>2. r \in Places /\ r.pc = "reserving" /\ r.fence = f /\ r.date = today
    BY <2>1 DEF Places, Stages
  <2> HIDE DEF r
  <2>3. /\ at' \in [Procs -> Places] /\ at'[p] = r
        /\ \A q \in Procs \ {p} : at'[q] = at[q]
    BY <1>1, <2>1, <2>2, AtWork, PlaceTyped
  <2>4. fence[f].state = "prepared" /\ f \in Fences
    BY <1>1, AtWork DEF Remembers
  <2>5. FirmOf[f] \notin stopped /\ UNCHANGED <<fence, stopped, sentOn, today, grant, gmail>>
    BY <1>2 DEF Recheck, Admissible
  <2>6. Remembers(p)'
    BY <2>1, <2>2, <2>3, <2>4, <2>5 DEF Remembers
  <2>7. Alone(p)'
    <3>1. \A q \in Dispatchers \ {p} : Claiming(q) => at[q].fence # f
      BY <1>1, AtWork DEF Alone
    <3> QED BY <2>2, <2>3, <3>1 DEF Alone, Claiming, Procs
  <2> QED BY <1>1, <2>3, <2>5, <2>6, <2>7, AtWork, PlaceChange
<1>3. CASE ~(licensed /\ Admissible(f))
  BY <1>1, <1>3, ClaimRefused DEF Recheck
<1> QED BY <1>2, <1>3

\* The count of a day grows with the fences that explain it.
LEMMA OneMoreClaimed ==
  ASSUME TypeOK, DayCountExplained, NEW f \in Fences, NEW d \in Days,
         fence[f].token = 0, fence'[f].token # 0, fence'[f].date = d,
         \A e \in Fences \ {f} : fence'[e] = fence[e],
         sentOn' = [sentOn EXCEPT ![d] = @ + 1]
  PROVE  DayCountExplained'
<1> DEFINE Claimed(day) == {e \in Fences : fence[e].token # 0 /\ fence[e].date = day}
           Now(day) == {e \in Fences : fence'[e].token # 0 /\ fence'[e].date = day}
<1>1. Now(d) = Claimed(d) \cup {f} /\ f \notin Claimed(d)
  OBVIOUS
<1>2. IsFiniteSet(Claimed(d))
  BY FS_Subset
<1>3. Cardinality(Now(d)) = Cardinality(Claimed(d)) + 1
  <2> HIDE DEF Now, Claimed
  <2>1. Cardinality(Claimed(d) \cup {f})
          = IF f \in Claimed(d) THEN Cardinality(Claimed(d)) ELSE Cardinality(Claimed(d)) + 1
    BY <1>2, FS_AddElement
  <2> QED BY <1>1, <2>1
<1>4. ASSUME NEW day \in Days \ {d} PROVE Now(day) = Claimed(day)
  OBVIOUS
<1>5. ASSUME NEW day \in Days PROVE sentOn'[day] = Cardinality(Now(day))
  <2>1. sentOn[day] = Cardinality(Claimed(day))
    BY DEF DayCountExplained
  <2>2. CASE day = d
    BY <1>3, <2>1, <2>2 DEF TypeOK
  <2>3. CASE day # d
    BY <1>4, <2>1, <2>3 DEF TypeOK
  <2> QED BY <2>2, <2>3
<1> QED BY <1>5 DEF DayCountExplained

LEMMA CommitClaimStep ==
  ASSUME IInv, NEW p \in Dispatchers, CommitClaim(p)
  PROVE  IInv'
<1> DEFINE f == at[p].fence  d == at[p].date
<1>1. p \in Procs /\ at[p].pc = "reserving" /\ Claiming(p)
  BY DEF Procs, CommitClaim, Claiming
<1>2. /\ f \in Fences /\ fence[f] \in FenceRows /\ fence[f].state = "prepared" /\ fence[f].token = 0
      /\ d \in Days /\ at[p] \in Places /\ TypeOK /\ gmail[f].calls = 0
  <2>1. Remembers(p) /\ FenceSound(f) /\ TypeOK /\ f \in Fences /\ fence[f] \in FenceRows /\ at[p] \in Places
    BY <1>1, AtWork
  <2>2. gmail[f].calls \in Nat
    BY <2>1 DEF TypeOK
  <2> QED BY <1>1, <2>1, <2>2 DEF Remembers, FenceSound, Unasked
<1>3. CASE CapLeft(d)
  <2> DEFINE row == [fence[f] EXCEPT !.state = "dispatching", !.token = 1, !.date = d]
             r == [at[p] EXCEPT !.pc = "calling", !.token = 1]
  <2>1. /\ sentOn' = [sentOn EXCEPT ![d] = @ + 1]
        /\ fence' = [fence EXCEPT ![f] = row] /\ at' = [at EXCEPT ![p] = r]
        /\ UNCHANGED <<hold, stopped, today, grant, gmail>>
    <3>1. /\ sentOn' = [sentOn EXCEPT ![d] = @ + 1]
          /\ fence' = [fence EXCEPT ![f].state = "dispatching", ![f].token = fence[f].token + 1,
                                    ![f].date = d]
          /\ at' = [at EXCEPT ![p].pc = "calling", ![p].token = fence[f].token + 1]
          /\ UNCHANGED <<hold, stopped, today, grant, gmail>>
      BY <1>3 DEF CommitClaim, ChargedDate
    <3>2. fence[f].token + 1 = 1
      BY <1>2
    <3>3. fence' = [fence EXCEPT ![f] = row]
      BY <1>2, <3>1, <3>2 DEF TypeOK
    <3>4. at' = [at EXCEPT ![p] = r]
      BY <1>1, <1>2, <3>1, <3>2 DEF TypeOK
    <3> QED BY <3>1, <3>3, <3>4
  <2>2. /\ row \in FenceRows /\ row.state = "dispatching" /\ row.token = 1 /\ row.date = d
    BY <1>2 DEF FenceRows, States
  <2>3. r \in Places /\ r.pc = "calling" /\ r.fence = f
    BY <1>2 DEF Places, Stages
  <2> HIDE DEF row, r
  <2>4. /\ at' \in [Procs -> Places] /\ at'[p] = r
        /\ \A q \in Procs \ {p} : at'[q] = at[q]
    BY <1>1, <1>2, <2>1, <2>3, PlaceTyped
  <2>5. /\ fence' \in [Fences -> FenceRows] /\ fence'[f] = row
        /\ \A e \in Fences \ {f} : fence'[e] = fence[e]
    BY <1>2, <2>1, <2>2 DEF TypeOK
  <2>6. TypeOK'
    <3>1. sentOn' \in [Days -> 0..Cap]
      BY <1>2, <1>3, <2>1 DEF TypeOK, CapLeft
    <3> QED BY <1>2, <2>1, <2>4, <2>5, <3>1 DEF TypeOK
  <2>7. DayCountExplained'
    <3>1. fence'[f].token # 0 /\ fence'[f].date = d
      BY <2>2, <2>5
    <3> QED BY <1>2, <2>1, <2>5, <3>1, OneMoreClaimed DEF IInv
  <2>8. ASSUME NEW e \in Fences PROVE FenceSound(e)'
    <3>1. CASE e = f
      BY <1>2, <2>1, <2>2, <2>5, <3>1 DEF FenceSound, Unasked, IInv
    <3>2. CASE e # f
      BY <2>1, <2>5, <3>2 DEF FenceSound, IInv
    <3> QED BY <3>1, <3>2
  <2>9. ASSUME NEW q \in Procs, q # p PROVE Remembers(q)' /\ Alone(q)'
    <3>1. Remembers(q) /\ Alone(q) /\ Alone(p) /\ at'[q] = at[q]
      BY <1>1, <2>4, <2>9 DEF IInv
    <3>2. at[q].fence = f => /\ ~(q \in Dispatchers /\ Claiming(q)) /\ at[q].pc # "calling"
                             /\ at[q].pc \notin {"lifting", "closing"}
      BY <1>1, <1>2, <2>9, <3>1 DEF Remembers, Alone
    <3>3. Remembers(q)'
      BY <2>1, <2>5, <3>1, <3>2 DEF Remembers, Claiming
    <3>4. Alone(q)'
      BY <2>3, <2>4, <3>1, <3>2 DEF Alone, Claiming, Procs
    <3> QED BY <3>3, <3>4
  <2>10. Remembers(p)'
    BY <1>2, <2>1, <2>2, <2>3, <2>4, <2>5 DEF Remembers, Claiming
  <2>11. Alone(p)'
    <3> SUFFICES ASSUME NEW q \in Procs \ {p}, at'[q].pc = "calling", at'[q].fence = f
                 PROVE  FALSE
      BY <2>3, <2>4 DEF Alone, Claiming
    <3> QED BY <1>2, <2>4 DEF IInv, Remembers
  <2> QED BY <2>6, <2>7, <2>8, <2>9, <2>10, <2>11 DEF IInv
<1>4. CASE ~CapLeft(d)
  <2>1. AfterRefusal(p, TRUE)
    BY <1>4 DEF CommitClaim, AfterRefusal
  <2> QED BY <1>1, <1>4, <2>1, ClaimRefused DEF CommitClaim
<1> QED BY <1>3, <1>4

LEMMA CallGmailStep ==
  ASSUME IInv, NEW p \in Dispatchers, NEW accepts \in BOOLEAN, NEW answers \in BOOLEAN,
         CallGmail(p, accepts, answers)
  PROVE  IInv'
<1> DEFINE f == at[p].fence
           g == [calls |-> gmail[f].calls + 1, left |-> gmail[f].left \/ accepts]
<1>1. p \in Procs /\ at[p].pc = "calling" /\ (answers => accepts)
  BY DEF Procs, CallGmail
<1>2. /\ TypeOK /\ f \in Fences /\ fence[f].token = 1 /\ gmail[f].calls = 0
      /\ gmail[f] \in [calls : Nat, left : BOOLEAN]
  <2>1. Remembers(p) /\ FenceSound(f) /\ TypeOK /\ f \in Fences /\ fence[f] \in FenceRows
    BY <1>1, AtWork
  <2>2. gmail[f] \in [calls : Nat, left : BOOLEAN]
    BY <2>1 DEF TypeOK
  <2>3. fence[f].token \in Nat
    BY <2>1 DEF FenceRows
  <2>4. fence[f].token <= 1 /\ fence[f].token # 0 /\ gmail[f].calls = 0
    BY <1>1, <2>1 DEF Remembers, FenceSound
  <2> QED BY <2>1, <2>2, <2>3, <2>4
<1>3. gmail' = [gmail EXCEPT ![f] = g] /\ UNCHANGED <<fence, hold, stopped, sentOn, today, grant>>
  BY <1>2 DEF CallGmail, TypeOK
<1>4. g \in [calls : Nat, left : BOOLEAN] /\ g.calls = 1 /\ g.left = (gmail[f].left \/ accepts)
  BY <1>2
<1> HIDE DEF g
<1>5. /\ gmail' \in [Fences -> [calls : Nat, left : BOOLEAN]] /\ gmail'[f] = g
      /\ \A e \in Fences \ {f} : gmail'[e] = gmail[e]
  BY <1>2, <1>3, <1>4 DEF TypeOK
<1>6. /\ at' \in [Procs -> Places] /\ at'[p].fence = f
      /\ at'[p].pc \in {"recording", "doubting"} /\ (at'[p].pc = "recording" => answers)
      /\ \A q \in Procs \ {p} : at'[q] = at[q]
  <2>1. CASE answers
    BY <1>1, <1>2, <2>1, Went DEF CallGmail, Stages
  <2>2. CASE ~answers
    BY <1>1, <1>2, <2>2, Went DEF CallGmail, Stages
  <2> QED BY <2>1, <2>2
<1>7. TypeOK'
  BY <1>2, <1>3, <1>5, <1>6 DEF TypeOK
<1>8. DayCountExplained'
  BY <1>3 DEF IInv, DayCountExplained
<1>9. ASSUME NEW e \in Fences PROVE FenceSound(e)'
  <2>1. CASE e = f
    BY <1>2, <1>3, <1>4, <1>5, <2>1 DEF FenceSound, IInv
  <2>2. CASE e # f
    BY <1>3, <1>5, <2>2 DEF FenceSound, IInv
  <2> QED BY <2>1, <2>2
<1>10. ASSUME NEW q \in Procs, q # p PROVE Remembers(q)' /\ Alone(q)'
  <2>1. Remembers(q) /\ Alone(q) /\ Alone(p) /\ at'[q] = at[q]
    BY <1>1, <1>6, <1>10 DEF IInv
  <2>2. at[q].pc = "calling" => at[q].fence # f
    BY <1>1, <1>10, <2>1 DEF Alone
  <2>3. Remembers(q)'
    BY <1>3, <1>4, <1>5, <2>1, <2>2 DEF Remembers, Claiming
  <2>4. Alone(q)'
    BY <1>6, <2>1 DEF Alone, Claiming, Procs
  <2> QED BY <2>3, <2>4
<1>11. Remembers(p)' /\ Alone(p)'
  BY <1>1, <1>2, <1>4, <1>5, <1>6 DEF Remembers, Alone, Claiming
<1> QED BY <1>7, <1>8, <1>9, <1>10, <1>11 DEF IInv

LEMMA RecordSentStep ==
  ASSUME IInv, NEW p \in Dispatchers, RecordSent(p)
  PROVE  IInv'
<1> DEFINE f == at[p].fence
<1>1. p \in Procs /\ at[p].pc = "recording" /\ hold' = hold
  BY DEF Procs, RecordSent
<1>2. /\ at' \in [Procs -> Places] /\ at'[p].pc = "idle"
      /\ \A q \in Procs \ {p} : at'[q] = at[q]
  BY <1>1, AtWork, Left DEF RecordSent
<1>3. CASE Recordable(p)
  <2>1. /\ fence' \in [Fences -> FenceRows] /\ fence'[f].state = "sent"
        /\ fence'[f].token = fence[f].token /\ fence'[f].date = fence[f].date
        /\ \A e \in Fences \ {f} : fence'[e] = fence[e]
    BY <1>1, <1>3, AtWork, Moved DEF RecordSent, States
  <2>2. FenceKept(f)
    BY <1>1, <1>3, <2>1, AtWork DEF FenceKept, Recordable, Unasked, Remembers
  <2> QED BY <1>1, <1>2, <2>1, <2>2, Carefree, AtWork, FenceChange DEF RecordSent
<1>4. CASE ~Recordable(p)
  BY <1>1, <1>2, <1>4, Carefree, AtWork, PlaceChange DEF RecordSent
<1> QED BY <1>3, <1>4

LEMMA BeginReconcilingStep ==
  ASSUME IInv, NEW p \in Dispatchers, BeginReconciling(p)
  PROVE  IInv'
<1> DEFINE f == at[p].fence
<1>1. p \in Procs /\ at[p].pc = "doubting" /\ hold' = hold
  BY DEF Procs, BeginReconciling
<1>2. /\ at' \in [Procs -> Places] /\ Remembers(p)' /\ Alone(p)'
      /\ \A q \in Procs \ {p} : at'[q] = at[q]
  <2>1. /\ at' \in [Procs -> Places] /\ at'[p].pc = "gating" /\ at'[p].reason \in Reasons
        /\ at'[p].fence \in Fences
        /\ \A q \in Procs \ {p} : at'[q] = at[q]
    BY <1>1, AtWork, Opened DEF BeginReconciling, Reasons
  <2> QED BY <1>1, <2>1, Carefree
<1>3. CASE fence[f].state = "dispatching"
  <2>1. /\ fence' \in [Fences -> FenceRows] /\ fence'[f].state = "reconciling"
        /\ fence'[f].token = fence[f].token /\ fence'[f].date = fence[f].date
        /\ \A e \in Fences \ {f} : fence'[e] = fence[e]
    BY <1>1, <1>3, AtWork, Moved DEF BeginReconciling, States
  <2>2. FenceKept(f)
    BY <1>3, <2>1 DEF FenceKept, Unasked
  <2> QED BY <1>1, <1>2, <2>1, <2>2, AtWork, FenceChange DEF BeginReconciling
<1>4. CASE fence[f].state # "dispatching"
  BY <1>1, <1>2, <1>4, AtWork, PlaceChange DEF BeginReconciling
<1> QED BY <1>3, <1>4

LEMMA PassGateStep ==
  ASSUME IInv, NEW p \in Procs, PassGate(p)
  PROVE  IInv'
<1>1. at[p].pc = "gating" /\ hold' = hold
  BY DEF PassGate
<1>2. /\ at' \in [Procs -> Places] /\ at'[p].pc = "inserting"
      /\ at'[p].fence = at[p].fence /\ at'[p].reason = at[p].reason
      /\ \A q \in Procs \ {p} : at'[q] = at[q]
  BY <1>1, AtWork, Went DEF PassGate, Stages
<1>3. at[p].fence \in Fences /\ at[p].reason \in Reasons
  BY <1>1, AtWork DEF Remembers
<1> QED BY <1>1, <1>2, <1>3, Carefree, AtWork, PlaceChange DEF PassGate

LEMMA InsertHoldStep ==
  ASSUME IInv, NEW p \in Procs, InsertHold(p)
  PROVE  IInv'
<1>1. at[p].pc = "inserting"
  BY DEF InsertHold
<1>2. hold' \subseteq Holds
  BY <1>1, AtWork DEF InsertHold, Remembers, Holds
<1>3. /\ at' \in [Procs -> Places] /\ at'[p].pc = "idle"
      /\ \A q \in Procs \ {p} : at'[q] = at[q]
  BY <1>1, AtWork, Left DEF InsertHold
<1> QED BY <1>2, <1>3, Carefree, PlaceChange DEF InsertHold

LEMMA AbandonStep ==
  ASSUME IInv, NEW p \in Procs, Abandon(p)
  PROVE  IInv'
<1>1. at[p].pc # "idle" /\ hold' = hold
  BY DEF Abandon
<1>2. /\ at' \in [Procs -> Places] /\ at'[p].pc = "idle"
      /\ \A q \in Procs \ {p} : at'[q] = at[q]
  BY <1>1, AtWork, Left DEF Abandon
<1> QED BY <1>1, <1>2, Carefree, AtWork, PlaceChange DEF Abandon

-----------------------------------------------------------------------------
(* Sweeps.                                                                 *)

LEMMA AdoptStep ==
  ASSUME IInv, NEW p \in Sweepers, NEW f \in Fences, Adopt(p, f)
  PROVE  IInv'
<1>1. p \in Procs /\ at[p].pc = "idle" /\ hold' = hold /\ at' = at
  BY DEF Procs, Adopt
<1>2. /\ fence' \in [Fences -> FenceRows] /\ fence'[f].state = "reconciling"
      /\ fence'[f].token = fence[f].token /\ fence'[f].date = fence[f].date
      /\ \A e \in Fences \ {f} : fence'[e] = fence[e]
  BY Moved DEF IInv, Adopt, States
<1>3. FenceKept(f)
  BY <1>2 DEF FenceKept, Unasked, Adopt, Adoptable
<1>4. at' \in [Procs -> Places] /\ hold' \subseteq Holds
  BY <1>1 DEF IInv, TypeOK
<1>5. Remembers(p)' /\ Alone(p)'
  BY <1>1, Carefree
<1> QED BY <1>1, <1>2, <1>3, <1>4, <1>5, FenceChange DEF Adopt

LEMMA StartSweepStep ==
  ASSUME IInv, NEW p \in Sweepers, NEW f \in Fences, StartSweep(p, f)
  PROVE  IInv'
<1> DEFINE r == [at[p] EXCEPT !.pc = "searching", !.fence = f, !.late = fence[f].overdue]
<1>1. /\ p \in Procs /\ TypeOK /\ at[p] \in Places /\ fence[f].overdue \in BOOLEAN
      /\ hold' \subseteq Holds
  BY DEF Procs, IInv, TypeOK, FenceRows, StartSweep
<1>2. at' = [at EXCEPT ![p] = r]
  BY <1>1 DEF StartSweep, TypeOK
<1>3. r \in Places /\ r.pc = "searching" /\ r.fence = f
  BY <1>1 DEF Places, Stages
<1> HIDE DEF r
<1>4. /\ at' \in [Procs -> Places] /\ at'[p] = r
      /\ \A q \in Procs \ {p} : at'[q] = at[q]
  BY <1>1, <1>2, <1>3, PlaceTyped
<1>5. Remembers(p)' /\ Alone(p)'
  BY <1>3, <1>4 DEF Remembers, Alone, Claiming
<1> QED BY <1>1, <1>4, <1>5, PlaceChange DEF StartSweep

LEMMA CannotLookStep ==
  ASSUME IInv, NEW p \in Sweepers, CannotLook(p)
  PROVE  IInv'
<1>1. p \in Procs /\ at[p].pc # "idle" /\ hold' = hold
  BY DEF Procs, CannotLook
<1>2. /\ at' \in [Procs -> Places] /\ at'[p].pc = "idle"
      /\ \A q \in Procs \ {p} : at'[q] = at[q]
  BY <1>1, AtWork, Left DEF CannotLook
<1> QED BY <1>1, <1>2, Carefree, AtWork, PlaceChange DEF CannotLook

LEMMA SearchStep ==
  ASSUME IInv, NEW p \in Sweepers, NEW found \in BOOLEAN, Search(p, found)
  PROVE  IInv'
<1> DEFINE f == at[p].fence
<1>1. p \in Procs /\ at[p].pc # "idle" /\ hold' = hold /\ (found => gmail[f].left)
  BY DEF Procs, Search
<1>2. /\ at' \in [Procs -> Places] /\ at'[p].fence = f
      /\ at'[p].pc \in {"settling", "expiring"} /\ (at'[p].pc = "settling" => found)
      /\ \A q \in Procs \ {p} : at'[q] = at[q]
  <2>1. CASE found
    BY <1>1, <2>1, AtWork, Went DEF Search, Stages
  <2>2. CASE ~found
    BY <1>1, <2>2, AtWork, Went DEF Search, Stages
  <2> QED BY <2>1, <2>2
<1>3. Remembers(p)' /\ Alone(p)'
  BY <1>1, <1>2, AtWork DEF Remembers, Alone, Claiming, Search
<1> QED BY <1>1, <1>2, <1>3, AtWork, PlaceChange DEF Search

\* The end of a doubt: the row goes to its verdict, and the sweep knows it.
LEMMA Concluded ==
  ASSUME IInv, NEW p \in Sweepers, NEW pc \in {"lifting", "closing"}, at[p].pc # "idle",
         fence[at[p].fence].state = "reconciling",
         Move(at[p].fence, IF pc = "lifting" THEN "sent" ELSE "unknown_terminal"),
         Goto(p, pc), pc = "lifting" => gmail[at[p].fence].left,
         UNCHANGED <<hold, stopped, sentOn, today, grant, gmail>>
  PROVE  IInv'
<1> DEFINE f == at[p].fence  verdict == IF pc = "lifting" THEN "sent" ELSE "unknown_terminal"
<1>1. p \in Procs /\ verdict \in States
  BY DEF Procs, States
<1>2. /\ at' \in [Procs -> Places] /\ at'[p].pc = pc /\ at'[p].fence = f
      /\ \A q \in Procs \ {p} : at'[q] = at[q]
  BY <1>1, AtWork, Went DEF Stages
<1>3. /\ fence' \in [Fences -> FenceRows] /\ fence'[f].state = verdict
      /\ fence'[f].token = fence[f].token /\ fence'[f].date = fence[f].date
      /\ \A e \in Fences \ {f} : fence'[e] = fence[e]
  BY <1>1, AtWork, Moved
<1>4. FenceKept(f)
  BY <1>3 DEF FenceKept, Unasked
<1>5. Remembers(p)' /\ Alone(p)'
  BY <1>1, <1>2, <1>3, AtWork DEF Remembers, Alone, Claiming
<1> QED BY <1>1, <1>2, <1>3, <1>4, <1>5, AtWork, FenceChange

LEMMA RecordReconciledSentStep ==
  ASSUME IInv, NEW p \in Sweepers, RecordReconciledSent(p)
  PROVE  IInv'
<1>1. p \in Procs /\ at[p].pc = "settling" /\ hold' = hold
  BY DEF Procs, RecordReconciledSent
<1>2. CASE fence[at[p].fence].state = "reconciling"
  BY <1>1, <1>2, AtWork, Concluded DEF RecordReconciledSent, Remembers
<1>3. CASE fence[at[p].fence].state # "reconciling"
  BY <1>1, <1>3, AtWork, Left, Carefree, PlaceChange DEF RecordReconciledSent
<1> QED BY <1>2, <1>3

LEMMA MarkUnknownTerminalStep ==
  ASSUME IInv, NEW p \in Sweepers, MarkUnknownTerminal(p)
  PROVE  IInv'
<1>1. p \in Procs /\ at[p].pc = "expiring" /\ hold' = hold
  BY DEF Procs, MarkUnknownTerminal
<1>2. CASE Expired(p)
  BY <1>1, <1>2, AtWork, Concluded DEF MarkUnknownTerminal, Expired
<1>3. CASE ~Expired(p)
  BY <1>1, <1>3, AtWork, Left, Carefree, PlaceChange DEF MarkUnknownTerminal
<1> QED BY <1>2, <1>3

LEMMA ReleaseDoubtStep ==
  ASSUME IInv, NEW p \in Sweepers, ReleaseDoubt(p)
  PROVE  IInv'
<1>1. p \in Procs /\ at[p].pc \in {"lifting", "closing"}
  BY DEF Procs, ReleaseDoubt
<1>2. hold' \subseteq Holds
  BY <1>1, AtWork DEF ReleaseDoubt
<1>3. CASE at[p].pc = "closing"
  <2>1. /\ at' \in [Procs -> Places] /\ at'[p].pc = "gating" /\ at'[p].reason \in Reasons
        /\ at'[p].fence \in Fences
        /\ \A q \in Procs \ {p} : at'[q] = at[q]
    BY <1>1, <1>3, AtWork, Opened DEF ReleaseDoubt, Reasons
  <2> QED BY <1>1, <1>2, <2>1, Carefree, PlaceChange DEF ReleaseDoubt
<1>4. CASE at[p].pc # "closing"
  BY <1>1, <1>2, <1>4, AtWork, Left, Carefree, PlaceChange DEF ReleaseDoubt
<1> QED BY <1>3, <1>4

-----------------------------------------------------------------------------
(* The rest of the system.                                                 *)

LEMMA FenceWritten ==
  ASSUME IInv, NEW f \in Fences, UNCHANGED <<stopped, sentOn, today, grant, gmail, at>>,
         hold' \subseteq Holds, fence' \in [Fences -> FenceRows], FenceKept(f),
         \A e \in Fences \ {f} : fence'[e] = fence[e]
  PROVE  IInv'
<1>1. TypeOK'
  BY DEF IInv, TypeOK
<1>2. \A e \in Fences : FenceKept(e)
  <2> SUFFICES ASSUME NEW e \in Fences \ {f} PROVE FenceKept(e)
    OBVIOUS
  <2> QED BY DEF FenceKept, IInv, FenceSound
<1> QED BY <1>1, <1>2, StepKeeps

LEMMA PrepareStep ==
  ASSUME IInv, NEW f \in Fences, NEW planned \in Days, Prepare(f, planned)
  PROVE  IInv'
<1> DEFINE row == [fence[f] EXCEPT !.state = "prepared", !.date = planned]
<1>1. TypeOK /\ fence[f] \in FenceRows /\ fence[f].token = 0 /\ hold' \subseteq Holds
  BY DEF IInv, TypeOK, FenceSound, Unasked, Prepare
<1>2. fence' = [fence EXCEPT ![f] = row]
  BY <1>1 DEF Prepare, TypeOK
<1>3. /\ row \in FenceRows /\ row.state = "prepared" /\ row.token = fence[f].token
  BY <1>1 DEF FenceRows, States
<1> HIDE DEF row
<1>4. /\ fence' \in [Fences -> FenceRows] /\ fence'[f] = row
      /\ \A e \in Fences \ {f} : fence'[e] = fence[e]
  BY <1>1, <1>2, <1>3 DEF TypeOK
<1>5. FenceKept(f)
  BY <1>1, <1>3, <1>4 DEF FenceKept, Unasked, Prepare
<1> QED BY <1>1, <1>4, <1>5, FenceWritten DEF Prepare

\* Answer, SettleStep and DeadlinePasses set one flag of a fence.
LEMMA FlagRaised ==
  ASSUME IInv, NEW f \in Fences, UNCHANGED <<stopped, sentOn, today, grant, gmail, at>>,
         hold' \subseteq hold,
         \/ fence' = [fence EXCEPT ![f].answered = TRUE]
         \/ fence' = [fence EXCEPT ![f].settled = TRUE]
         \/ fence' = [fence EXCEPT ![f].overdue = TRUE]
  PROVE  IInv'
<1>1. TypeOK /\ fence[f] \in FenceRows /\ hold' \subseteq Holds /\ FenceSound(f)
  BY DEF IInv, TypeOK
<1>2. PICK row \in {[fence[f] EXCEPT !.answered = TRUE], [fence[f] EXCEPT !.settled = TRUE],
                    [fence[f] EXCEPT !.overdue = TRUE]} :
        fence' = [fence EXCEPT ![f] = row]
  BY <1>1 DEF TypeOK
<1>3. /\ row \in FenceRows /\ row.state = fence[f].state /\ row.token = fence[f].token
      /\ row.date = fence[f].date
  BY <1>1, <1>2 DEF FenceRows
<1>4. /\ fence' \in [Fences -> FenceRows] /\ fence'[f] = row
      /\ \A e \in Fences \ {f} : fence'[e] = fence[e]
  BY <1>1, <1>2, <1>3 DEF TypeOK
<1>5. FenceKept(f)
  BY <1>1, <1>3, <1>4 DEF FenceKept, FenceSound
<1> QED BY <1>1, <1>4, <1>5, FenceWritten

\* A stop that commits finds no admitted claim; one that is lifted, a new day and a
\* grant that comes or goes touch no claim.
LEMMA StopsAndDaysStep ==
  ASSUME IInv,
         \/ \E firm \in Firms : CommitStop(firm) \/ LiftStop(firm)
         \/ NewDay \/ GrantChanges
  PROVE  IInv'
<1>1. UNCHANGED <<fence, hold, sentOn, gmail, at>>
  BY DEF CommitStop, LiftStop, NewDay, GrantChanges
<1>2. stopped' \subseteq stopped \/ GateFree
  BY DEF CommitStop, LiftStop, NewDay, GrantChanges
<1>3. stopped' \subseteq Firms /\ today' \in Days /\ grant' \in BOOLEAN
  <2>1. TypeOK
    BY DEF IInv
  <2>2. ASSUME NEW firm \in Firms, CommitStop(firm) \/ LiftStop(firm)
        PROVE  stopped' \subseteq Firms /\ today' \in Days /\ grant' \in BOOLEAN
    BY <2>1, <2>2 DEF TypeOK, CommitStop, LiftStop
  <2>3. CASE NewDay
    BY <2>1, <2>3 DEF TypeOK, NewDay, Days
  <2>4. CASE GrantChanges
    BY <2>1, <2>4 DEF TypeOK, GrantChanges
  <2> QED BY <2>2, <2>3, <2>4
<1>4. TypeOK'
  BY <1>1, <1>3 DEF IInv, TypeOK
<1> QED BY <1>1, <1>2, <1>4, FencesKept, StepKeeps

LEMMA EnvironmentStep ==
  ASSUME IInv, Environment
  PROVE  IInv'
<1>1. hold \subseteq Holds
  BY DEF IInv, TypeOK
<1>2. CASE \E f \in Fences, d \in Days : Prepare(f, d)
  BY <1>2, PrepareStep
<1>3. CASE \E f \in Fences : Answer(f) \/ SettleStep(f) \/ DeadlinePasses(f)
  <2> PICK f \in Fences : Answer(f) \/ SettleStep(f) \/ DeadlinePasses(f)
    BY <1>3
  <2>1. hold' \subseteq hold /\ UNCHANGED <<stopped, sentOn, today, grant, gmail, at>>
    BY DEF Answer, SettleStep, DeadlinePasses
  <2>2. \/ fence' = [fence EXCEPT ![f].answered = TRUE]
        \/ fence' = [fence EXCEPT ![f].settled = TRUE]
        \/ fence' = [fence EXCEPT ![f].overdue = TRUE]
    BY DEF Answer, SettleStep, DeadlinePasses
  <2> QED BY <2>1, <2>2, FlagRaised
<1> QED BY <1>2, <1>3, StopsAndDaysStep DEF Environment

LEMMA StutterStep ==
  ASSUME IInv, UNCHANGED vars
  PROVE  IInv'
<1>1. TypeOK'
  BY DEF IInv, TypeOK, vars
<1> QED BY <1>1, FencesKept, StepKeeps DEF vars

LEMMA NextStep == IInv /\ [Next]_vars => IInv'
<1> SUFFICES ASSUME IInv, [Next]_vars PROVE IInv'
  OBVIOUS
<1>1. ASSUME NEW p \in Dispatchers, Dispatch(p) PROVE IInv'
  BY <1>1, ClearHoldsStep, ReleaseFenceStep, PrecheckStep, RefuseStep, BeginClaimStep,
     RecheckStep, CommitClaimStep, CallGmailStep, RecordSentStep, BeginReconcilingStep
     DEF Dispatch
<1>2. ASSUME NEW p \in Sweepers, Sweep(p) PROVE IInv'
  BY <1>2, CannotLookStep, SearchStep, RecordReconciledSentStep, MarkUnknownTerminalStep,
     ReleaseDoubtStep DEF Sweep
<1>3. ASSUME NEW p \in Sweepers, NEW f \in Fences, Adopt(p, f) \/ StartSweep(p, f) PROVE IInv'
  BY <1>3, AdoptStep, StartSweepStep
<1>4. ASSUME NEW p \in Procs, PassGate(p) \/ InsertHold(p) \/ Abandon(p) PROVE IInv'
  BY <1>4, PassGateStep, InsertHoldStep, AbandonStep
<1> QED BY <1>1, <1>2, <1>3, <1>4, StartDispatchStep, EnvironmentStep, StutterStep DEF Next

-----------------------------------------------------------------------------
(* What follows.                                                           *)

THEOREM Invariance == Spec => []IInv
BY InitInv, NextStep, PTL DEF Spec

\* Every row and every process keeps its type, automated_sent never passes the cap.
THEOREM TypeCorrect == Spec => []TypeOK
<1>1. IInv => TypeOK
  BY DEF IInv
<1> QED BY <1>1, Invariance, PTL

\* Gmail is asked at most once for a fence, under its only token, and never for a fence
\* that may still be sent or held: claimForDispatch and releaseFence against retries,
\* crashes and sweeps.
THEOREM OneCall == Spec => []OneCallPerFence
<1>1. IInv => OneCallPerFence
  BY DEF IInv, FenceSound, OneCallPerFence
<1> QED BY <1>1, Invariance, PTL

\* What countAutomatedSend counted is what claimedAutomatedSends finds in the fences.
THEOREM DayCount == Spec => []DayCountExplained
<1>1. IInv => DayCountExplained
  BY DEF IInv
<1> QED BY <1>1, Invariance, PTL

-----------------------------------------------------------------------------
(* What one step may do, and the promise.                                  *)

\* A step that authorizes nothing, asks nothing and concludes nothing.
Quiet ==
  /\ gmail' = gmail
  /\ \A f \in Fences :
       /\ fence'[f].token = fence[f].token
       /\ fence'[f].state # fence[f].state =>
            /\ fence'[f].state \notin {"dispatching", "sent", "unknown_terminal"}
            /\ fence[f].state \notin {"sent", "unknown_terminal"}

\* The row of one fence goes from one state to another.
Moves(f, from, to) ==
  /\ fence[f].state = from /\ fence'[f].state = to
  /\ fence'[f].token = fence[f].token
  /\ \A e \in Fences \ {f} : fence'[e] = fence[e]

\* The four steps that are not quiet.
Authorizes(f) ==
  /\ gmail' = gmail /\ FirmOf[f] \notin stopped
  /\ fence[f].token = 0 /\ fence'[f].token # 0
  /\ fence[f].state = "prepared" /\ fence'[f].state = "dispatching"
  /\ \A e \in Fences \ {f} : fence'[e] = fence[e]

Calls(f) ==
  /\ fence' = fence /\ fence[f].token # 0 /\ gmail[f].calls = 0
  /\ \E accepts \in BOOLEAN :
       gmail' = [gmail EXCEPT ![f] = [calls |-> @.calls + 1, left |-> @.left \/ accepts]]

Concludes(f) ==
  /\ gmail' = gmail
  /\ \/ gmail[f].left /\ \E from \in {"dispatching", "reconciling"} : Moves(f, from, "sent")
     \/ Moves(f, "reconciling", "unknown_terminal")

LEMMA MoveIsQuiet ==
  ASSUME TypeOK, NEW f \in Fences, NEW state \in {"prepared", "held", "reconciling"},
         Move(f, state), fence[f].state \notin {"sent", "unknown_terminal"}, gmail' = gmail
  PROVE  Quiet
BY Moved DEF Quiet, States

LEMMA DispatchKinds ==
  ASSUME IInv, NEW p \in Dispatchers, Dispatch(p)
  PROVE  Quiet \/ \E f \in Fences : Authorizes(f) \/ Calls(f) \/ Concludes(f)
<1> DEFINE f == at[p].fence
<1>1. TypeOK /\ p \in Procs
  BY DEF IInv, Procs
<1>2. at[p].pc # "idle" => /\ f \in Fences /\ FenceSound(f) /\ Remembers(p)
                           /\ fence[f] \in FenceRows
  BY <1>1, AtWork
<1>3. CASE ClearHolds(p) \/ (\E licensed \in BOOLEAN : Precheck(p, licensed)) \/ BeginClaim(p)
  BY <1>3 DEF ClearHolds, Precheck, BeginClaim, Quiet
<1>4. CASE ReleaseFence(p)
  <2>1. CASE Releasable(f)
    BY <1>1, <1>2, <1>4, <2>1, MoveIsQuiet DEF ReleaseFence, Releasable
  <2> QED BY <1>4, <2>1 DEF ReleaseFence, Quiet
<1>5. ASSUME NEW opens \in BOOLEAN, Refuse(p, opens) PROVE Quiet
  <2>1. CASE fence[f].state = "prepared"
    BY <1>1, <1>2, <1>5, <2>1, MoveIsQuiet DEF Refuse
  <2> QED BY <1>5, <2>1 DEF Refuse, Quiet
<1>6. ASSUME NEW licensed \in BOOLEAN, NEW opens \in BOOLEAN, Recheck(p, licensed, opens)
      PROVE  Quiet
  <2>1. fence[f].state = "prepared"
    BY <1>1, <1>2, <1>6 DEF Recheck, Remembers, Claiming
  <2>2. CASE Move(f, "held")
    BY <1>1, <1>2, <1>6, <2>1, <2>2, MoveIsQuiet DEF Recheck
  <2> QED BY <1>6, <2>2 DEF Recheck, Quiet
<1>7. CASE CommitClaim(p)
  <2>1. /\ f \in Fences /\ fence[f] \in FenceRows /\ fence[f].state = "prepared"
        /\ FirmOf[f] \notin stopped /\ fence[f].token = 0 /\ gmail' = gmail
    BY <1>1, <1>2, <1>7 DEF CommitClaim, Remembers, Claiming, FenceSound, Unasked
  <2>2. CASE CapLeft(at[p].date)
    <3> DEFINE row == [fence[f] EXCEPT !.state = "dispatching", !.token = fence[f].token + 1,
                                       !.date = at[p].date]
    <3>1. fence' = [fence EXCEPT ![f] = row]
      BY <1>1, <1>7, <2>1, <2>2 DEF CommitClaim, ChargedDate, TypeOK
    <3>2. row.state = "dispatching" /\ row.token # 0
      BY <2>1 DEF FenceRows
    <3> HIDE DEF row
    <3>3. fence'[f] = row /\ \A e \in Fences \ {f} : fence'[e] = fence[e]
      BY <1>1, <2>1, <3>1 DEF TypeOK
    <3> QED BY <2>1, <3>2, <3>3 DEF Authorizes
  <2>3. CASE ~CapLeft(at[p].date)
    BY <1>1, <1>7, <2>1, <2>3, MoveIsQuiet DEF CommitClaim
  <2> QED BY <2>2, <2>3
<1>8. ASSUME NEW accepts \in BOOLEAN, NEW answers \in BOOLEAN, CallGmail(p, accepts, answers)
      PROVE  Calls(f) /\ f \in Fences
  BY <1>1, <1>2, <1>8 DEF CallGmail, Calls, Remembers
<1>9. CASE RecordSent(p)
  <2>1. CASE Recordable(p)
    <3>1. f \in Fences /\ gmail[f].left /\ gmail' = gmail
      BY <1>2, <1>9 DEF RecordSent, Remembers
    <3>2. Moves(f, "dispatching", "sent")
      BY <1>1, <1>9, <2>1, <3>1, Moved DEF RecordSent, Recordable, Moves, States
    <3> QED BY <3>1, <3>2 DEF Concludes
  <2> QED BY <1>9, <2>1 DEF RecordSent, Quiet
<1>10. CASE BeginReconciling(p)
  <2>1. CASE fence[f].state = "dispatching"
    BY <1>1, <1>2, <1>10, <2>1, MoveIsQuiet DEF BeginReconciling
  <2> QED BY <1>10, <2>1 DEF BeginReconciling, Quiet
<1> QED BY <1>3, <1>4, <1>5, <1>6, <1>7, <1>8, <1>9, <1>10 DEF Dispatch

LEMMA SweepKinds ==
  ASSUME IInv, NEW p \in Sweepers,
         Sweep(p) \/ \E f \in Fences : Adopt(p, f) \/ StartSweep(p, f)
  PROVE  Quiet \/ \E f \in Fences : Concludes(f)
<1> DEFINE f == at[p].fence
<1>1. TypeOK /\ p \in Procs
  BY DEF IInv, Procs
<1>2. at[p].pc # "idle" => f \in Fences /\ Remembers(p)
  BY <1>1, AtWork
<1>3. CASE \/ CannotLook(p) \/ ReleaseDoubt(p)
           \/ \E found \in BOOLEAN : Search(p, found)
           \/ \E e \in Fences : StartSweep(p, e)
  BY <1>3 DEF CannotLook, ReleaseDoubt, Search, StartSweep, Quiet
<1>4. ASSUME NEW e \in Fences, Adopt(p, e) PROVE Quiet
  BY <1>1, <1>4, MoveIsQuiet DEF Adopt, Adoptable
<1>5. CASE RecordReconciledSent(p)
  <2>1. CASE fence[f].state = "reconciling"
    <3>1. f \in Fences /\ gmail[f].left /\ gmail' = gmail
      BY <1>2, <1>5 DEF RecordReconciledSent, Remembers
    <3>2. Moves(f, "reconciling", "sent")
      BY <1>1, <1>5, <2>1, <3>1, Moved DEF RecordReconciledSent, Moves, States
    <3> QED BY <3>1, <3>2 DEF Concludes
  <2> QED BY <1>5, <2>1 DEF RecordReconciledSent, Quiet
<1>6. CASE MarkUnknownTerminal(p)
  <2>1. CASE Expired(p)
    <3>1. f \in Fences /\ gmail' = gmail
      BY <1>2, <1>6 DEF MarkUnknownTerminal
    <3>2. Moves(f, "reconciling", "unknown_terminal")
      BY <1>1, <1>6, <2>1, <3>1, Moved DEF MarkUnknownTerminal, Expired, Moves, States
    <3> QED BY <3>1, <3>2 DEF Concludes
  <2> QED BY <1>6, <2>1 DEF MarkUnknownTerminal, Quiet
<1> QED BY <1>3, <1>4, <1>5, <1>6 DEF Sweep

LEMMA EnvironmentIsQuiet ==
  ASSUME IInv, Environment
  PROVE  Quiet
<1>1. TypeOK
  BY DEF IInv
<1>2. ASSUME NEW f \in Fences, NEW d \in Days, Prepare(f, d) PROVE Quiet
  <2> DEFINE row == [fence[f] EXCEPT !.state = "prepared", !.date = d]
  <2>1. fence[f] \in FenceRows /\ fence' = [fence EXCEPT ![f] = row]
    BY <1>1, <1>2 DEF Prepare, TypeOK
  <2>2. row.state = "prepared" /\ row.token = fence[f].token
    BY <2>1 DEF FenceRows
  <2> HIDE DEF row
  <2>3. fence'[f] = row /\ \A e \in Fences \ {f} : fence'[e] = fence[e]
    BY <1>1, <2>1 DEF TypeOK
  <2> QED BY <1>2, <2>2, <2>3 DEF Prepare, Quiet
<1>3. ASSUME NEW f \in Fences, Answer(f) \/ SettleStep(f) \/ DeadlinePasses(f) PROVE Quiet
  <2>1. PICK row \in {[fence[f] EXCEPT !.answered = TRUE], [fence[f] EXCEPT !.settled = TRUE],
                      [fence[f] EXCEPT !.overdue = TRUE]} :
          fence[f] \in FenceRows /\ fence' = [fence EXCEPT ![f] = row]
    BY <1>1, <1>3 DEF Answer, SettleStep, DeadlinePasses, TypeOK
  <2>2. row.state = fence[f].state /\ row.token = fence[f].token
    BY <2>1 DEF FenceRows
  <2>3. fence'[f] = row /\ \A e \in Fences \ {f} : fence'[e] = fence[e]
    BY <1>1, <2>1 DEF TypeOK
  <2> QED BY <1>3, <2>2, <2>3 DEF Answer, SettleStep, DeadlinePasses, Quiet
<1>4. CASE (\E firm \in Firms : CommitStop(firm) \/ LiftStop(firm)) \/ NewDay \/ GrantChanges
  BY <1>4 DEF CommitStop, LiftStop, NewDay, GrantChanges, Quiet
<1> QED BY <1>2, <1>3, <1>4 DEF Environment

\* Every step is quiet or one of the four.
LEMMA StepKinds ==
  ASSUME IInv, [Next]_vars
  PROVE  Quiet \/ \E f \in Fences : Authorizes(f) \/ Calls(f) \/ Concludes(f)
<1>1. ASSUME NEW p \in Dispatchers, NEW f \in Fences, StartDispatch(p, f) PROVE Quiet
  BY <1>1 DEF StartDispatch, Quiet
<1>2. ASSUME NEW p \in Procs, PassGate(p) \/ InsertHold(p) \/ Abandon(p) PROVE Quiet
  BY <1>2 DEF PassGate, InsertHold, Abandon, Quiet
<1>3. UNCHANGED vars => Quiet
  BY DEF vars, Quiet
<1> QED BY <1>1, <1>2, <1>3, DispatchKinds, SweepKinds, EnvironmentIsQuiet DEF Next

\* No claim is authorized for a firm that a committed stop forbids: of the three
\* interleavings with recheckAndClaim that sendGate.ts discusses, none is left.
THEOREM NoStopIsPassed == Spec => NoClaimUnderStop
<1>1. ASSUME IInv, [Next]_vars, NEW f \in Fences,
             fence[f].state = "prepared", fence'[f].state = "dispatching"
      PROVE  FirmOf[f] \notin stopped
  <2>1. ~Quiet
    BY <1>1 DEF Quiet
  <2>2. PICK e \in Fences : Authorizes(e) \/ Calls(e) \/ Concludes(e)
    BY <1>1, <2>1, StepKinds
  <2>3. e = f
    BY <1>1, <2>2 DEF Authorizes, Calls, Concludes, Moves
  <2> QED BY <1>1, <2>2, <2>3 DEF Authorizes, Calls, Concludes, Moves
<1>2. IInv /\ [Next]_vars =>
        [\A f \in Fences :
           fence[f].state = "prepared" /\ fence'[f].state = "dispatching" =>
             FirmOf[f] \notin stopped]_vars
  BY <1>1
<1> QED BY <1>2, Invariance, PTL DEF Spec, NoClaimUnderStop

\* A hold for a doubt goes only when the fence has its verdict: ReleaseDoubt comes after
\* it, and neither a retry of the held fence nor the settling of the step takes it.
THEOREM DoubtHoldsFirm == Spec => DoubtKeepsItsHold
<1>1. ASSUME IInv, [Next]_vars, NEW h \in hold, h.reason = "reconciling", h \notin hold'
      PROVE  fence[h.fence].state \in {"sent", "unknown_terminal"}
  <2>1. PICK p \in Sweepers : ReleaseDoubt(p)
    <3>1. ASSUME NEW p \in Dispatchers, ClearHolds(p) PROVE FALSE
      BY <1>1, <3>1 DEF ClearHolds, StaleOnRetry
    <3>2. ASSUME NEW f \in Fences, SettleStep(f) PROVE FALSE
      BY <1>1, <3>2 DEF SettleStep
    <3>3. ASSUME NEW p \in Dispatchers, Dispatch(p) PROVE FALSE
      BY <1>1, <3>1, <3>3 DEF Dispatch, ReleaseFence, Precheck, Refuse, BeginClaim, Recheck,
         CommitClaim, CallGmail, RecordSent, BeginReconciling
    <3>4. ASSUME Environment PROVE FALSE
      BY <1>1, <3>2, <3>4 DEF Environment, Prepare, Answer, DeadlinePasses, CommitStop, LiftStop,
         NewDay, GrantChanges
    <3>5. ASSUME NEW p \in Procs, PassGate(p) \/ InsertHold(p) \/ Abandon(p) PROVE FALSE
      BY <1>1, <3>5 DEF PassGate, InsertHold, Abandon
    <3>6. ASSUME UNCHANGED vars PROVE FALSE
      BY <1>1, <3>6 DEF vars
    <3> QED BY <1>1, <3>3, <3>4, <3>5, <3>6 DEF Next, Sweep, StartDispatch, Adopt, StartSweep,
         CannotLook, Search, RecordReconciledSent, MarkUnknownTerminal
  <2>2. h.fence = at[p].fence
    BY <1>1, <2>1 DEF ReleaseDoubt
  <2>3. p \in Procs /\ at[p].pc \in {"lifting", "closing"}
    BY <2>1 DEF Procs, ReleaseDoubt
  <2> QED BY <1>1, <2>2, <2>3, AtWork DEF Remembers
<1>2. IInv /\ [Next]_vars =>
        [\A h \in hold :
           h.reason = "reconciling" /\ h \notin hold' =>
             fence[h.fence].state \in {"sent", "unknown_terminal"}]_vars
  BY <1>1
<1> QED BY <1>2, Invariance, PTL DEF Spec, DoubtKeepsItsHold

\* The fence, its dispatchers and its sweeps implement the promise of SendPromise: an
\* email is authorized once, asked for at most once and only then, `sent` is said only of
\* a message that left and no verdict is revised.
THEOREM FenceKeepsPromise == Spec => RefinesPromise
<1> DEFINE authorized == {f \in Fences : fence[f].token # 0}
           asked == {f \in Fences : gmail[f].calls # 0}
           left == {f \in Fences : gmail[f].left}
           Verdict(f) == IF fence[f].state = "sent" THEN "sent"
                         ELSE IF fence[f].state = "unknown_terminal" THEN "unknown" ELSE "open"
           verdict == [f \in Fences |-> Verdict(f)]
<1>1. Init => Promise!Init
  BY DEF Init, Promise!Init
<1>2. ASSUME IInv, [Next]_vars PROVE [Promise!Next]_(Promise!vars)
  <2>1. TypeOK /\ \A f \in Fences : FenceSound(f)
    BY <1>2 DEF IInv
  <2>2. CASE Quiet
    <3>1. authorized' = authorized
      BY <2>2 DEF Quiet
    <3>2. asked' = asked /\ left' = left
      BY <2>2 DEF Quiet
    <3>3. \A f \in Fences : Verdict(f)' = Verdict(f)
      BY <2>2 DEF Quiet
    <3>4. verdict' = verdict
      BY <3>3
    <3> QED BY <3>1, <3>2, <3>4 DEF Promise!vars
  <2>3. ASSUME NEW f \in Fences, Authorizes(f) PROVE Promise!Authorize(f)
    <3>1. f \notin authorized /\ authorized' = authorized \cup {f}
      BY <2>3 DEF Authorizes
    <3>2. asked' = asked /\ left' = left
      BY <2>3 DEF Authorizes
    <3>3. \A e \in Fences : Verdict(e)' = Verdict(e)
      BY <2>3 DEF Authorizes
    <3>4. verdict' = verdict
      BY <3>3
    <3> QED BY <3>1, <3>2, <3>4 DEF Promise!Authorize
  <2>4. ASSUME NEW f \in Fences, Calls(f) PROVE Promise!Ask(f)
    <3>1. PICK accepts \in BOOLEAN :
            gmail' = [gmail EXCEPT ![f] = [calls |-> gmail[f].calls + 1,
                                           left |-> gmail[f].left \/ accepts]]
      BY <2>4 DEF Calls
    <3>2. gmail'[f].calls = 1 /\ gmail'[f].left = (gmail[f].left \/ accepts)
      BY <2>1, <2>4, <3>1 DEF TypeOK, Calls
    <3>3. \A e \in Fences \ {f} : gmail'[e] = gmail[e]
      BY <2>1, <3>1 DEF TypeOK
    <3>4. f \in authorized \ asked /\ asked' = asked \cup {f}
      BY <2>4, <3>2, <3>3 DEF Calls
    <3>5. left' \in {left, left \cup {f}}
      BY <3>2, <3>3
    <3>6. authorized' = authorized /\ verdict' = verdict
      BY <2>4 DEF Calls
    <3> QED BY <3>4, <3>5, <3>6 DEF Promise!Ask
  <2>5. ASSUME NEW f \in Fences, Concludes(f)
        PROVE  Promise!ConcludeSent(f) \/ Promise!ConcludeUnknown(f)
    <3>1. \E from \in {"dispatching", "reconciling"}, to \in {"sent", "unknown_terminal"} :
            Moves(f, from, to)
      BY <2>5 DEF Concludes
    <3>2. /\ fence[f].state \in {"dispatching", "reconciling"}
          /\ \A e \in Fences : fence'[e].token = fence[e].token
          /\ \A e \in Fences \ {f} : fence'[e] = fence[e]
      BY <3>1 DEF Moves
    <3>3. authorized' = authorized /\ asked' = asked /\ left' = left
      BY <2>5, <3>2 DEF Concludes
    <3>4. Verdict(f) = "open" /\ \A e \in Fences \ {f} : Verdict(e)' = Verdict(e)
      BY <3>2
    <3>5. verdict' = [verdict EXCEPT ![f] = Verdict(f)'] /\ verdict[f] = "open"
      <4>1. verdict = [e \in Fences |-> Verdict(e)] /\ verdict' = [e \in Fences |-> Verdict(e)']
        OBVIOUS
      <4> HIDE DEF Verdict, verdict
      <4> QED BY <3>4, <4>1
    <3>6. f \in authorized
      BY <2>1, <3>2 DEF FenceSound, Unasked
    <3>7. CASE fence'[f].state = "sent"
      <4>1. f \in left /\ Verdict(f)' = "sent"
        BY <2>5, <3>7 DEF Concludes, Moves
      <4> QED BY <3>3, <3>5, <4>1 DEF Promise!ConcludeSent
    <3>8. CASE fence'[f].state = "unknown_terminal"
      <4>1. Verdict(f)' = "unknown"
        BY <3>8
      <4> QED BY <3>3, <3>5, <3>6, <4>1 DEF Promise!ConcludeUnknown
    <3> QED BY <3>1, <3>7, <3>8 DEF Moves
  <2> QED BY <1>2, <2>2, <2>3, <2>4, <2>5, StepKinds DEF Promise!Next
<1> QED BY <1>1, <1>2, Invariance, PTL DEF Spec, RefinesPromise, Promise!Spec

=============================================================================
