-------------------------- MODULE AgentSessionProofs --------------------------
(* Theorems about AgentSession, for any goroutines, sessions, inputs and       *)
(* quotas: the ledger of pressed inputs and the claim on the desktop implement *)
(* OwnedInputs, and what an action reports is honest.  The invariants are      *)
(* layered: types, what a session has been through, who is inside its gate,    *)
(* what its ledger holds, and what an action rests on.                         *)
EXTENDS AgentSession, TLAPS

-----------------------------------------------------------------------------
(* Between Enter and Return, and from the admission on.                        *)
Committed == Executing \cup {"comparing", "ready", "verifying"}
Inside == Committed \cup {"admitted"}
Pressing == {"holding", "releasing"}

(* The owner is the one session that was created and is not cleaned up; a      *)
(* session is cleaned up only after its Close has passed the gate.             *)
Claims ==
    /\ owner # None => owner \in born
    /\ owner \notin complete
    /\ \A s \in born : s \in complete \/ s = owner
    /\ \A s \in Sessions :
         /\ s \notin born => once[s] = "no"
         /\ s \in complete => once[s] = "done"
         /\ once[s] # "no" => s \in over

Sealing ==
    \A p \in Procs :
        /\ pc[p] \in Closing => S(p) \in over
        /\ pc[p] \in {"cleaning", "sweeping"} => once[S(p)] = "done"

Claimed == Claims /\ Sealing

(* Who is inside has the gate, and a Close has not passed it since.            *)
Gated ==
    \A p \in Procs :
        /\ pc[p] \in Inside => gate[S(p)] = p
        /\ pc[p] \in Committed => once[S(p)] # "done"
        /\ pc[p] \in {"comparing", "ready"} => used[S(p)] < MaxActions

(* The pc follows the kind of the action.                                      *)
Kinds ==
    \A p \in Procs :
        /\ pc[p] = "click" => call[p].kind = "click"
        /\ pc[p] \in {"drag", "moved"} => call[p].kind = "drag"
        /\ pc[p] = "chord" => call[p].kind = "chord"
        /\ pc[p] \in Pressing => call[p].kind \in {"drag", "chord"}

(* What is down is in the owner's ledger, unless a failed action left it down; *)
(* the ledger of a session that admits actions has only what the action under  *)
(* way presses.                                                                *)
Books ==
    /\ \A i \in down \ stray : owner # None /\ i \in pressed[owner]
    /\ \A p \in Procs :
         /\ pc[p] \in Committed \ Pressing => pressed[S(p)] = {}
         /\ pc[p] \in Pressing => pressed[S(p)] = {call[p].input}
    /\ \A s \in Sessions :
         pressed[s] # {} => \/ s \in tainted
                            \/ \E p \in Procs : pc[p] \in Pressing /\ S(p) = s

(* A call that may have changed the desktop is past its first mutation.        *)
Touched ==
    \A p \in Procs :
        /\ p \in touched =>
             pc[p] \in Pressing \cup {"idle", "wheel", "moved", "verifying"}
        /\ pc[p] = "releasing" => result[p] \in {"succeeded", "unverified"}

(* The buffer that justifies an action belongs to its session; from the        *)
(* comparison on the action has its lock.                                      *)
Grounds ==
    \A p \in Procs : call[p].pre # None =>
        /\ pc[p] \in Executing \cup {"comparing", "ready"} =>
             obs[call[p].pre].of = S(p)
        /\ pc[p] \in Executing \cup {"ready"} =>
             /\ use[call[p].pre] = p
             /\ obs[call[p].pre].state \in {"live", "dropped"}
-----------------------------------------------------------------------------
(* Nobody is no goroutine, session, input or observation.                      *)
LEMMA Names ==
  /\ None \notin Procs /\ None \notin Sessions /\ None \notin Observations
  /\ \A i \in Inputs : i # None
  /\ MaxActions \in Nat /\ MaxReads \in [Sessions -> Nat] /\ Attempts \in Nat
BY SessionAssumption DEF Inputs

(* What the type of a call says about it.                                      *)
LEMMA RequestFacts ==
  ASSUME NEW r \in Requests
  PROVE  /\ r.session \in Sessions
         /\ r.kind \in {"plain", "scroll", "click", "drag", "chord"}
         /\ r.input \in Inputs \cup {None} /\ r.pre \in Observations \cup {None}
         /\ r.dry \in BOOLEAN /\ r.verify \in BOOLEAN
         /\ r.kind \in {"click", "drag", "chord"} => r.input \in Inputs
         /\ r.verify => r.pre # None
<1>1. PICK s \in Sessions, a \in Actions : r = Request(s, a)
  BY DEF Requests
<1>2. WellFormed(a)
  BY SessionAssumption
<1> QED
  BY <1>1, <1>2 DEF WellFormed, Request, Inputs

(* What the type of a goroutine says about the call it is in.                  *)
LEMMA CallFacts ==
  ASSUME TypeOK, NEW p \in Procs
  PROVE  /\ pc[p] # "idle" => S(p) \in Sessions /\ S(p) \in born
         /\ pc[p] \notin Closing \cup {"idle"} =>
              /\ call[p] \in Requests
              /\ call[p].kind \in {"plain", "scroll", "click", "drag", "chord"}
              /\ call[p].pre \in Observations \cup {None}
              /\ call[p].input \in Inputs \cup {None}
              /\ call[p].dry \in BOOLEAN /\ call[p].verify \in BOOLEAN
              /\ call[p].kind \in {"click", "drag", "chord"} => call[p].input \in Inputs
              /\ call[p].verify => call[p].pre # None
         /\ pc[p] \in Closing \cup {"idle"} => call[p].pre = None
<1>1. CallOK(p)
  BY DEF TypeOK, TypeCalls
<1>2. CASE pc[p] = "idle"
  BY <1>1, <1>2 DEF CallOK, NoCall, NoAction, Request, Closing
<1>3. CASE pc[p] \in Closing
  <2>1. PICK s \in Sessions : call[p] = Request(s, NoAction("close"))
    BY <1>1, <1>3 DEF CallOK, Closes
  <2> QED
    BY <1>1, <1>3, <2>1 DEF CallOK, Request, NoAction, S, Closing
<1>4. CASE pc[p] \notin Closing \cup {"idle"}
  BY <1>1, <1>4, RequestFacts DEF CallOK, S, Closing
<1> QED
  BY <1>2, <1>3, <1>4
-----------------------------------------------------------------------------
(* A step of a process, by itself or asked to, leaves the others where they    *)
(* are, and takes no gate from them.                                           *)
Called(p) == Ask(p) \/ CancelCall(p) \/ Step(p) \/ \E s \in Sessions : CloseBegins(p, s)

LEMMA LeavesOthers ==
  ASSUME TypeOK, NEW p \in Procs, Called(p), NEW q \in Procs \ {p}
  PROVE  /\ pc'[q] = pc[q] /\ call'[q] = call[q] /\ result'[q] = result[q]
         /\ q \in touched' <=> q \in touched
         /\ \A s \in Sessions : gate[s] = q => gate'[s] = q
         /\ \A o \in Observations : use[o] = q =>
              use'[o] = q \/ (call[p].pre = o /\ pc[p] \in Executing)
<1> USE DEF TypeOK, TypeLocks, TypeCalls, Go, calls, locks
<1>1. CASE Ask(p)
  BY <1>1 DEF Ask, evidence
<1>2. CASE CancelCall(p) \/ \E s \in Sessions : CloseBegins(p, s)
  BY <1>2 DEF CancelCall, CloseBegins, evidence
<1>3. CASE GiveUp(p) \/ Deny(p) \/ Refuse(p) \/ DryRun(p) \/ VerifyFails(p)
  BY <1>3 DEF GiveUp, Deny, Refuse, DryRun, VerifyFails, Return
<1>4. CASE Enter(p) \/ Admit(p) \/ Recapture(p) \/ Acquire(p) \/ Dispatch(p)
  BY <1>4, Names DEF Enter, Admit, Recapture, Acquire, Acquirable, Dispatch, evidence
<1>5. CASE Forbidden(p) \/ Mutate(p) \/ MoveFirst(p) \/ Interrupted(p)
  BY <1>5 DEF Forbidden, Mutate, Ambiguous, Succeeds, MoveFirst, Interrupted, Finish, Return, Touch, Executing
<1>6. CASE Click(p)
  BY <1>6 DEF Click, ClickResult, Ambiguous, Succeeds, Finish, Return, Touch, Executing
<1>7. CASE Press(p)
  BY <1>7 DEF Press, PressResult, Finish, Return, Touch, Executing
<1>8. CASE Held(p)
  BY <1>8 DEF Held, evidence
<1>9. CASE Release(p)
  BY <1>9 DEF Release, Finish, Return, Executing
<1>10. CASE Verify(p)
  BY <1>10 DEF Verify, Return, evidence
<1>11. CASE CloseWaits(p) \/ CloseEnters(p) \/ CloseLocks(p)
  BY <1>11 DEF CloseWaits, CloseEnters, CloseLocks, evidence
<1>12. CASE Sweep(p) \/ GiveBack(p) \/ AlreadyClosed(p)
  BY <1>12 DEF Sweep, GiveBack, AlreadyClosed, Unlock, evidence
<1> QED
  BY <1>1, <1>2, <1>3, <1>4, <1>5, <1>6, <1>7, <1>8, <1>9, <1>10, <1>11, <1>12
     DEF Called, Step
(* A new process is well typed.                                                *)
LEMMA InitTyped == Init => TypeOK
<1> SUFFICES ASSUME Init PROVE TypeOK
  OBVIOUS
<1> USE Names DEF Init
<1>1. TypeClaim
  BY DEF TypeClaim
<1>2. TypeLocks
  BY DEF TypeLocks
<1>3. TypeLedger
  BY DEF TypeLedger
<1>4. TypeQuota
  BY DEF TypeQuota
<1>5. TypeCalls
  BY DEF TypeCalls, CallOK, Closing
<1> QED
  BY <1>1, <1>2, <1>3, <1>4, <1>5 DEF TypeOK

(* What happens outside of the calls keeps the types.                          *)
Outside ==
    \/ \E s \in Sessions : NewSession(s) \/ LifetimeEnds(s)
    \/ \E s \in Sessions, o \in Observations : Observe(s, o)
    \/ \E o \in Observations : ReleaseObservation(o) \/ CloseBuffer(o)
    \/ \E i \in Inputs : Lose(i)

LEMMA OutsideTyped ==
  ASSUME TypeOK, Outside
  PROVE  TypeOK'
<1> USE Names DEF TypeOK, locks, inputs, quota, evidence, calls, claim
<1>1. TypeClaim'
  BY DEF Outside, NewSession, LifetimeEnds, Observe, ReleaseObservation,
         CloseBuffer, Lose, TypeClaim
<1>2. TypeLocks'
  BY DEF Outside, NewSession, LifetimeEnds, Observe, ReleaseObservation,
         CloseBuffer, Lose, TypeLocks
<1>3. TypeLedger'
  BY DEF Outside, NewSession, LifetimeEnds, Observe, ReleaseObservation,
         CloseBuffer, Lose, TypeLedger
<1>4. TypeQuota'
  BY DEF Outside, NewSession, LifetimeEnds, Observe, Retain, ReleaseObservation,
         CloseBuffer, Lose, TypeQuota
<1>5. born \subseteq born' /\ calls' = calls
  BY DEF Outside, NewSession, LifetimeEnds, Observe, ReleaseObservation,
         CloseBuffer, Lose
<1>6. TypeCalls'
  BY <1>5 DEF TypeCalls, CallOK, S
<1> QED
  BY <1>1, <1>2, <1>3, <1>4, <1>6

(* Only a Close touches the claim.                                             *)
LEMMA ClaimRests ==
  ASSUME NEW p \in Procs, Called(p)
  PROVE  \/ claim' = claim
         \/ (\E s \in Sessions : CloseBegins(p, s)) \/ CloseEnters(p) \/ GiveBack(p)
<1>1. CASE Ask(p) \/ CancelCall(p)
  BY <1>1 DEF Ask, CancelCall
<1>2. CASE \/ GiveUp(p) \/ Enter(p) \/ Deny(p) \/ Refuse(p) \/ Admit(p)
           \/ Recapture(p) \/ Acquire(p) \/ DryRun(p) \/ Dispatch(p)
  BY <1>2 DEF GiveUp, Enter, Deny, Refuse, Admit, Recapture, Acquire, DryRun, Dispatch
<1>3. CASE \/ Forbidden(p) \/ Mutate(p) \/ MoveFirst(p) \/ Interrupted(p)
           \/ Click(p) \/ Press(p) \/ Held(p) \/ Release(p)
           \/ Verify(p) \/ VerifyFails(p)
  BY <1>3 DEF Forbidden, Mutate, Ambiguous, Succeeds, MoveFirst, Interrupted, Click, Press, Held,
              Release, Verify, VerifyFails
<1>4. CASE CloseWaits(p) \/ CloseLocks(p) \/ Sweep(p) \/ AlreadyClosed(p)
  BY <1>4 DEF CloseWaits, CloseLocks, Sweep, AlreadyClosed
<1> QED
  BY <1>1, <1>2, <1>3, <1>4 DEF Called, Step

(* A step keeps the claim's types, and forgets no session.                     *)
LEMMA ClaimTyped ==
  ASSUME TypeOK, NEW p \in Procs, Called(p)
  PROVE  TypeClaim' /\ born' = born
<1> USE DEF TypeOK, TypeClaim
<1>1. ASSUME NEW s \in Sessions, CloseBegins(p, s) PROVE TypeClaim' /\ born' = born
  BY <1>1 DEF CloseBegins
<1>2. CASE CloseEnters(p)
  BY <1>2, CallFacts DEF CloseEnters
<1>3. CASE GiveBack(p)
  BY <1>3, CallFacts DEF GiveBack
<1>4. CASE claim' = claim
  BY <1>4 DEF claim
<1> QED
  BY <1>1, <1>2, <1>3, <1>4, ClaimRests

(* A step keeps the types of the locks.                                        *)
LEMMA LocksTyped ==
  ASSUME TypeOK, NEW p \in Procs, Called(p)
  PROVE  TypeLocks'
<1> USE DEF TypeOK, TypeLocks, locks
<1>1. CASE Ask(p) \/ CancelCall(p) \/ \E s \in Sessions : CloseBegins(p, s)
  BY <1>1 DEF Ask, CancelCall, CloseBegins, evidence
<1>2. CASE GiveUp(p) \/ Deny(p) \/ Refuse(p) \/ DryRun(p) \/ VerifyFails(p)
  BY <1>2 DEF GiveUp, Deny, Refuse, DryRun, VerifyFails, Return
<1>3. CASE Enter(p) \/ Admit(p) \/ Recapture(p) \/ Acquire(p) \/ Dispatch(p)
  BY <1>3 DEF Enter, Admit, Recapture, Acquire, Dispatch, evidence
<1>4. CASE Forbidden(p) \/ Mutate(p) \/ MoveFirst(p) \/ Interrupted(p)
  BY <1>4 DEF Forbidden, Mutate, Ambiguous, Succeeds, MoveFirst, Interrupted, Finish, Return
<1>5. CASE Click(p) \/ Press(p)
  BY <1>5 DEF Click, ClickResult, Ambiguous, Succeeds, Press, PressResult, Finish, Return
<1>6. CASE Held(p) \/ Release(p)
  BY <1>6 DEF Held, Release, Finish, Return, evidence
<1>7. CASE Verify(p)
  BY <1>7 DEF Verify, Return, evidence
<1>8. CASE CloseWaits(p) \/ CloseEnters(p) \/ CloseLocks(p)
  BY <1>8 DEF CloseWaits, CloseEnters, CloseLocks, evidence
<1>9. CASE Sweep(p) \/ GiveBack(p) \/ AlreadyClosed(p)
  BY <1>9 DEF Sweep, GiveBack, AlreadyClosed, Unlock, evidence
<1> QED
  BY <1>1, <1>2, <1>3, <1>4, <1>5, <1>6, <1>7, <1>8, <1>9 DEF Called, Step

(* Only a dispatch and a Close touch the ledger.                               *)
LEMMA LedgerRests ==
  ASSUME NEW p \in Procs,
         \/ Ask(p) \/ CancelCall(p) \/ (\E s \in Sessions : CloseBegins(p, s))
         \/ GiveUp(p) \/ Enter(p) \/ Deny(p) \/ Refuse(p) \/ Admit(p)
         \/ Recapture(p) \/ Acquire(p) \/ DryRun(p) \/ Dispatch(p)
         \/ Forbidden(p) \/ MoveFirst(p) \/ Interrupted(p)
         \/ Held(p) \/ Verify(p) \/ VerifyFails(p)
         \/ CloseWaits(p) \/ CloseEnters(p) \/ CloseLocks(p) \/ GiveBack(p)
         \/ AlreadyClosed(p)
  PROVE  inputs' = inputs
BY DEF Ask, CancelCall, CloseBegins, GiveUp, Enter, Deny, Refuse, Admit, Recapture,
       Acquire, DryRun, Dispatch, Forbidden, MoveFirst, Interrupted, Held,
       Verify, VerifyFails, CloseWaits, CloseEnters, CloseLocks, GiveBack,
       AlreadyClosed, inputs

(* An action leaves its input down, or enters it in the ledger.                *)
Strays(p) ==
    /\ UNCHANGED <<pressed, tainted>>
    /\ call[p].input \in Inputs
    /\ down' = down \cup {call[p].input}
    /\ stray' = stray \cup {call[p].input}
Recorded(p) ==
    /\ pressed' = [pressed EXCEPT ![S(p)] = @ \cup {call[p].input}]
    /\ tainted' \in {tainted, tainted \cup {S(p)}}
    /\ down' \in {down, down \cup {call[p].input}}
    /\ stray' = stray \ {call[p].input}

(* What a mutation, a press and a release do to the ledger.                    *)
LEMMA LedgerMoves ==
  ASSUME TypeOK, Kinds, NEW p \in Procs
  PROVE  /\ Click(p) \/ Press(p) \/ Release(p) => call[p].input \in Inputs
         /\ Mutate(p) => inputs' = inputs \/ Strays(p)
         /\ Click(p) => inputs' = inputs \/ Strays(p) \/ Recorded(p)
         /\ Press(p) => inputs' = inputs \/ Recorded(p)
         /\ Release(p) => \/ Raised(S(p), call[p].input)
                          \/ Retained(S(p), call[p].input)
         /\ Sweep(p) => \E i \in pressed[S(p)] : Raised(S(p), i) \/ Retained(S(p), i)
<1>1. Click(p) \/ Press(p) \/ Release(p) => call[p].input \in Inputs
  BY CallFacts DEF Click, Press, Release, Kinds, Pressing, Closing
<1>2. Mutate(p) => inputs' = inputs \/ Strays(p)
  <2>1. Mutate(p) => call[p].input \in Inputs \cup {None}
    BY CallFacts DEF Mutate, Closing
  <2> QED BY <2>1 DEF Mutate, Ambiguous, Succeeds, Strays, inputs
<1>3. Click(p) => inputs' = inputs \/ Strays(p) \/ Recorded(p)
  BY <1>1 DEF Click, ClickResult, Ambiguous, Succeeds, Strays, Record, Recorded, inputs
<1>4. Press(p) => inputs' = inputs \/ Recorded(p)
  BY DEF Press, PressResult, Record, Recorded, inputs
<1>5. Release(p) => Raised(S(p), call[p].input) \/ Retained(S(p), call[p].input)
  BY DEF Release
<1>6. Sweep(p) => \E i \in pressed[S(p)] : Raised(S(p), i) \/ Retained(S(p), i)
  BY DEF Sweep
<1> QED
  BY <1>1, <1>2, <1>3, <1>4, <1>5, <1>6

(* A step keeps the ledger's types.                                            *)
LEMMA LedgerTyped ==
  ASSUME TypeOK, Kinds, NEW p \in Procs, Called(p)
  PROVE  TypeLedger'
<1>1. CASE inputs' = inputs
  BY <1>1 DEF TypeOK, TypeLedger, inputs
<1>2. CASE (Mutate(p) \/ Click(p) \/ Press(p)) /\ inputs' # inputs
  <2>1. S(p) \in Sessions
    BY <1>2, CallFacts DEF Mutate, Click, Press
  <2>2. Strays(p) \/ (Recorded(p) /\ call[p].input \in Inputs)
    BY <1>2, LedgerMoves
  <2> QED BY <2>1, <2>2 DEF TypeOK, TypeLedger, Strays, Recorded
<1>3. CASE Release(p) \/ Sweep(p)
  <2>1. S(p) \in Sessions
    BY <1>3, CallFacts DEF Release, Sweep
  <2> QED BY <1>3, <2>1, LedgerMoves DEF TypeOK, TypeLedger, Raised, Retained
<1> QED
  BY <1>1, <1>2, <1>3, LedgerRests DEF Called, Step
(* A step keeps the quotas.                                                    *)
LEMMA QuotaTyped ==
  ASSUME TypeOK, Gated, NEW p \in Procs, Called(p)
  PROVE  TypeQuota'
<1> USE Names DEF TypeOK, TypeQuota, quota
<1>1. CASE Ask(p) \/ CancelCall(p) \/ \E s \in Sessions : CloseBegins(p, s)
  BY <1>1 DEF Ask, CancelCall, CloseBegins, evidence
<1>2. CASE GiveUp(p) \/ Deny(p) \/ Refuse(p) \/ DryRun(p) \/ VerifyFails(p)
  BY <1>2 DEF GiveUp, Deny, Refuse, DryRun, VerifyFails, Return
<1>3. CASE Enter(p) \/ Admit(p) \/ Acquire(p)
  BY <1>3 DEF Enter, Admit, Acquire, evidence
<1>4. CASE Recapture(p)
  <2>1. S(p) \in Sessions
    BY <1>4, CallFacts DEF Recapture
  <2>2. reads[S(p)] + 1 \in Nat /\ reads[S(p)] + 1 <= MaxReads[S(p)]
    BY <1>4, <2>1 DEF Recapture, Captures
  <2> QED BY <1>4, <2>1, <2>2 DEF Recapture, evidence
<1>5. CASE Dispatch(p)
  <2>1. S(p) \in Sessions /\ used[S(p)] < MaxActions
    BY <1>5, CallFacts DEF Dispatch, Gated
  <2> QED BY <1>5, <2>1 DEF Dispatch, evidence
<1>6. CASE Forbidden(p) \/ Mutate(p) \/ MoveFirst(p) \/ Interrupted(p)
  BY <1>6 DEF Forbidden, Mutate, Ambiguous, Succeeds, MoveFirst, Interrupted, Finish, Return
<1>7. CASE Click(p) \/ Press(p)
  BY <1>7 DEF Click, ClickResult, Ambiguous, Succeeds, Press, PressResult, Finish, Return
<1>8. CASE Held(p) \/ Release(p)
  BY <1>8 DEF Held, Release, Finish, Return, evidence
<1>9. CASE Verify(p)
  <2>1. S(p) \in Sessions
    BY <1>9, CallFacts DEF Verify
  <2>2. obs' \in [Observations -> [of : Sessions \cup {None},
                                   state : {"live", "dropped", "closed"}]]
    BY <1>9, <2>1 DEF Verify, Retain, evidence
  <2>3. tries' \in [Procs -> 0 .. Attempts]
    BY <1>9 DEF Verify, Return
  <2> QED BY <1>9, <2>1, <2>2, <2>3 DEF Verify
<1>10. CASE CloseWaits(p) \/ CloseLocks(p)
  BY <1>10 DEF CloseWaits, CloseLocks, evidence
<1>11. CASE CloseEnters(p)
  BY <1>11 DEF CloseEnters
<1>12. CASE Sweep(p) \/ GiveBack(p) \/ AlreadyClosed(p)
  BY <1>12 DEF Sweep, GiveBack, AlreadyClosed, Unlock, evidence, calls
<1> QED
  BY <1>1, <1>2, <1>3, <1>4, <1>5, <1>6, <1>7, <1>8, <1>9, <1>10, <1>11, <1>12
     DEF Called, Step

(* The end of a call and the way through it are well typed.                    *)
Statuses == {"none", "failed", "planned", "succeeded", "unverified"}
Points == Executing \cup Closing \cup
            {"idle", "queued", "admitted", "comparing", "ready", "verifying"}

OwnTyped(p) ==
    /\ pc' \in [Procs -> Points] /\ result' \in [Procs -> Statuses]
    /\ call' \in [Procs -> {NoCall} \cup Closes \cup Requests]
    /\ CallOK(p)'
    /\ cancelled' \subseteq Procs /\ touched' \subseteq Procs

(* A goroutine's own call stays well typed.                                    *)
LEMMA OwnCallTyped ==
  ASSUME TypeOK, Touched, NEW p \in Procs, Called(p)
  PROVE  OwnTyped(p)
<1> USE DEF TypeOK, TypeCalls, CallOK, OwnTyped, Points, Statuses, Closing, S, Go, calls
<1>1. born' = born
  BY ClaimTyped
<1>2. CASE Ask(p)
  <2>1. PICK s \in born, a \in Actions : call' = [call EXCEPT ![p] = Request(s, a)]
    BY <1>2 DEF Ask
  <2>2. Request(s, a) \in Requests /\ Request(s, a).session = s
    BY <2>1 DEF Requests, TypeClaim, Request
  <2> QED BY <1>1, <1>2, <2>1, <2>2 DEF Ask
<1>3. ASSUME NEW s \in Sessions, CloseBegins(p, s) PROVE OwnTyped(p)
  <2>1. Request(s, NoAction("close")) \in Closes
        /\ Request(s, NoAction("close")).session = s
    BY DEF Closes, Request
  <2> QED BY <1>1, <1>3, <2>1 DEF CloseBegins, TypeClaim
<1>4. CASE CancelCall(p)
  BY <1>1, <1>4 DEF CancelCall
<1>5. CASE GiveUp(p) \/ Deny(p) \/ Refuse(p) \/ DryRun(p) \/ VerifyFails(p)
  BY <1>1, <1>5 DEF GiveUp, Deny, Refuse, DryRun, VerifyFails, Return
<1>6. CASE Enter(p) \/ Admit(p) \/ Recapture(p) \/ Acquire(p)
  BY <1>1, <1>6 DEF Enter, Admit, Recapture, Acquire
<1>7. CASE Dispatch(p)
  BY <1>1, <1>7, CallFacts DEF Dispatch, Executing
<1>8. CASE Forbidden(p) \/ Mutate(p) \/ MoveFirst(p) \/ Interrupted(p)
  BY <1>1, <1>8 DEF Forbidden, Mutate, Ambiguous, Succeeds, MoveFirst, Interrupted, Finish, Return, Touch,
                    Executing
<1>9. CASE Click(p)
  BY <1>1, <1>9 DEF Click, ClickResult, Ambiguous, Succeeds, Finish, Return, Touch, Executing
<1>10. CASE Press(p)
  BY <1>1, <1>10 DEF Press, PressResult, Finish, Return, Touch, Executing
<1>11. CASE Held(p)
  BY <1>1, <1>11 DEF Held, Executing
<1>12. CASE Release(p)
  BY <1>1, <1>12 DEF Release, Finish, Return, Executing
<1>13. CASE Verify(p)
  BY <1>1, <1>13 DEF Verify, Return
<1>14. CASE CloseWaits(p) \/ CloseEnters(p) \/ CloseLocks(p)
  BY <1>1, <1>14 DEF CloseWaits, CloseEnters, CloseLocks
<1>15. CASE Sweep(p) \/ GiveBack(p) \/ AlreadyClosed(p)
  BY <1>1, <1>15 DEF Sweep, GiveBack, AlreadyClosed, Unlock
<1> QED
  BY <1>2, <1>3, <1>4, <1>5, <1>6, <1>7, <1>8, <1>9, <1>10, <1>11, <1>12, <1>13,
     <1>14, <1>15 DEF Called, Step

(* And so do all calls.                                                        *)
LEMMA CallsTyped ==
  ASSUME TypeOK, Touched, NEW p \in Procs, Called(p)
  PROVE  TypeCalls'
<1>1. ASSUME NEW q \in Procs \ {p} PROVE CallOK(q)'
  <2>1. CallOK(q) /\ pc'[q] = pc[q] /\ call'[q] = call[q] /\ born' = born
    BY LeavesOthers, ClaimTyped DEF TypeOK, TypeCalls
  <2> QED BY <2>1 DEF CallOK, S
<1> QED
  BY <1>1, OwnCallTyped DEF OwnTyped, TypeCalls, Points, Statuses

(* The first layer: the types and the kinds of the actions.                    *)
LEMMA StepTyped ==
  ASSUME TypeOK, Kinds, Gated, Touched, NEW p \in Procs, Called(p)
  PROVE  TypeOK'
BY ClaimTyped, LocksTyped, LedgerTyped, QuotaTyped, CallsTyped DEF TypeOK
-----------------------------------------------------------------------------
(* The claim is kept by a step.                                                *)
LEMMA StepClaimed ==
  ASSUME TypeOK, Claimed, NEW p \in Procs, Called(p)
  PROVE  Claimed'
<1> USE DEF Claimed, TypeOK, TypeClaim
<1>1. Claims'
  <2> USE DEF Claims
  <2>1. CASE claim' = claim
    BY <2>1 DEF claim
  <2>2. ASSUME NEW s \in Sessions, CloseBegins(p, s) PROVE Claims'
    BY <2>2 DEF CloseBegins
  <2>3. CASE CloseEnters(p)
    <3>1. S(p) \in born /\ S(p) \in over
      BY <2>3, CallFacts DEF CloseEnters, Sealing, Closing
    <3> QED BY <2>3, <3>1 DEF CloseEnters
  <2>4. CASE GiveBack(p)
    <3>1. S(p) \in born /\ once[S(p)] = "done"
      BY <2>4, CallFacts DEF GiveBack, Sealing
    <3> QED BY <2>4, <3>1, Names DEF GiveBack
  <2> QED BY <2>1, <2>2, <2>3, <2>4, ClaimRests
<1>2. over \subseteq over' /\ \A s \in Sessions : once[s] = "done" => once'[s] = "done"
  <2>1. CASE \E s \in Sessions : CloseBegins(p, s)
    BY <2>1 DEF CloseBegins
  <2>2. CASE CloseEnters(p) \/ GiveBack(p)
    BY <2>2 DEF CloseEnters, GiveBack
  <2> QED BY <2>1, <2>2, ClaimRests DEF claim
<1>3. ASSUME NEW q \in Procs \ {p}, pc'[q] \in Closing
      PROVE  /\ S(q)' \in over'
             /\ pc'[q] \in {"cleaning", "sweeping"} => once'[S(q)'] = "done"
  BY <1>2, <1>3, LeavesOthers, CallFacts DEF Sealing, S, Closing
<1>4. /\ pc'[p] \in Closing => S(p)' \in over'
      /\ pc'[p] \in {"cleaning", "sweeping"} => once'[S(p)'] = "done"
  <2> USE DEF TypeCalls, Sealing, Closing, S, Go, claim
  <2>1. ASSUME NEW s \in Sessions, CloseBegins(p, s) PROVE <1>4
    BY <2>1 DEF CloseBegins, Request
  <2>2. CASE CloseWaits(p) \/ CloseEnters(p) \/ CloseLocks(p)
    BY <2>2, CallFacts DEF CloseWaits, CloseEnters, CloseLocks
  <2>3. CASE Sweep(p) \/ GiveBack(p) \/ AlreadyClosed(p)
    BY <2>3, <1>2, CallFacts DEF Sweep, GiveBack, AlreadyClosed, Unlock, calls
  <2>4. CASE CancelCall(p)
    BY <2>4 DEF CancelCall
  <2>5. CASE Ask(p)
    BY <2>5 DEF Ask
  <2>6. CASE \/ GiveUp(p) \/ Enter(p) \/ Deny(p) \/ Refuse(p) \/ Admit(p)
             \/ Recapture(p) \/ Acquire(p) \/ DryRun(p) \/ VerifyFails(p)
    BY <2>6 DEF GiveUp, Enter, Deny, Refuse, Admit, Recapture, Acquire, DryRun,
                VerifyFails, Return
  <2>7. CASE Dispatch(p)
    BY <2>7, CallFacts DEF Dispatch
  <2>8. CASE Forbidden(p) \/ Mutate(p) \/ MoveFirst(p) \/ Interrupted(p)
    BY <2>8 DEF Forbidden, Mutate, Ambiguous, Succeeds, MoveFirst, Interrupted, Finish, Return
  <2>9. CASE Click(p) \/ Press(p)
    BY <2>9 DEF Click, ClickResult, Ambiguous, Succeeds, Press, PressResult, Finish, Return
  <2>10. CASE Held(p) \/ Release(p) \/ Verify(p)
    BY <2>10 DEF Held, Release, Verify, Finish, Return
  <2> QED BY <2>1, <2>2, <2>3, <2>4, <2>5, <2>6, <2>7, <2>8, <2>9, <2>10
             DEF Called, Step
<1> QED
  BY <1>1, <1>3, <1>4 DEF Sealing, Closing, S
-----------------------------------------------------------------------------
(* Who is inside after a step has entered in it or was inside before, goes on  *)
(* with the same call and keeps the gate.                                      *)
LEMMA Walk ==
  ASSUME TypeOK, NEW p \in Procs, Called(p), pc'[p] \in Inside
  PROVE  /\ call'[p] = call[p]
         /\ once' = once /\ owner' = owner
         /\ \/ Enter(p)
            \/ pc[p] \in Inside /\ (gate[S(p)] = p => gate'[S(p)] = p)
         /\ pc'[p] \in Committed => pc[p] \in Committed \/ Admit(p) \/ Recapture(p)
<1> USE DEF TypeOK, TypeCalls, TypeLocks, Go, Inside, Committed, Executing, calls, claim, locks
<1>1. CASE Ask(p)
  BY <1>1 DEF Ask
<1>2. CASE \E s \in Sessions : CloseBegins(p, s)
  BY <1>2 DEF CloseBegins
<1>3. CASE CancelCall(p) \/ Enter(p) \/ Admit(p) \/ Recapture(p) \/ Acquire(p)
  BY <1>3 DEF CancelCall, Enter, Admit, Recapture, Acquire
<1>4. CASE GiveUp(p) \/ Deny(p) \/ Refuse(p) \/ DryRun(p) \/ VerifyFails(p)
  BY <1>4 DEF GiveUp, Deny, Refuse, DryRun, VerifyFails, Return
<1>5. CASE Dispatch(p)
  BY <1>5 DEF Dispatch
<1>6. CASE Forbidden(p) \/ Mutate(p) \/ MoveFirst(p) \/ Interrupted(p)
  BY <1>6 DEF Forbidden, Mutate, Ambiguous, Succeeds, MoveFirst, Interrupted, Finish, Return
<1>7. CASE Click(p) \/ Press(p)
  BY <1>7 DEF Click, ClickResult, Ambiguous, Succeeds, Press, PressResult, Finish, Return
<1>8. CASE Held(p) \/ Release(p) \/ Verify(p)
  BY <1>8 DEF Held, Release, Verify, Finish, Return
<1>9. CASE CloseWaits(p) \/ CloseEnters(p) \/ CloseLocks(p)
  BY <1>9 DEF CloseWaits, CloseEnters, CloseLocks
<1>10. CASE Sweep(p) \/ GiveBack(p) \/ AlreadyClosed(p)
  BY <1>10 DEF Sweep, GiveBack, AlreadyClosed, Unlock
<1> QED
  BY <1>1, <1>2, <1>3, <1>4, <1>5, <1>6, <1>7, <1>8, <1>9, <1>10 DEF Called, Step

(* The pc goes on following the kind.                                          *)
LEMMA StepKinds ==
  ASSUME TypeOK, Kinds, NEW p \in Procs, Called(p)
  PROVE  Kinds'
<1> DEFINE Right(q) ==
      /\ pc'[q] = "click" => call'[q].kind = "click"
      /\ pc'[q] \in {"drag", "moved"} => call'[q].kind = "drag"
      /\ pc'[q] = "chord" => call'[q].kind = "chord"
      /\ pc'[q] \in Pressing => call'[q].kind \in {"drag", "chord"}
<1>1. ASSUME NEW q \in Procs \ {p} PROVE Right(q)
  BY LeavesOthers DEF Kinds
<1>2. Right(p)
  <2> USE DEF TypeOK, TypeCalls, Go, Pressing, Kinds, calls
  <2>1. CASE pc'[p] \notin Inside
    BY <2>1 DEF Inside, Committed, Executing
  <2>2. CASE pc'[p] \in Inside /\ pc'[p] = pc[p]
    BY <2>2, Walk
  <2>3. CASE Dispatch(p)
    BY <2>3, CallFacts DEF Dispatch, Closing
  <2>4. CASE Forbidden(p) \/ Mutate(p) \/ MoveFirst(p) \/ Interrupted(p)
    BY <2>4 DEF Forbidden, Mutate, Ambiguous, Succeeds, MoveFirst, Interrupted, Finish, Return
  <2>5. CASE Click(p) \/ Press(p)
    BY <2>5 DEF Click, ClickResult, Ambiguous, Succeeds, Press, PressResult, Finish, Return
  <2>6. CASE Held(p) \/ Release(p) \/ Verify(p)
    BY <2>6 DEF Held, Release, Verify, Finish, Return
  <2>7. CASE Enter(p) \/ Admit(p) \/ Recapture(p) \/ Acquire(p)
    BY <2>7 DEF Enter, Admit, Recapture, Acquire
  <2>8. CASE GiveUp(p) \/ Deny(p) \/ Refuse(p) \/ DryRun(p) \/ VerifyFails(p)
    BY <2>8 DEF GiveUp, Deny, Refuse, DryRun, VerifyFails, Return
  <2>9. CASE CloseWaits(p) \/ CloseEnters(p) \/ CloseLocks(p)
    BY <2>9 DEF CloseWaits, CloseEnters, CloseLocks
  <2>10. CASE Sweep(p) \/ GiveBack(p) \/ AlreadyClosed(p)
    BY <2>10 DEF Sweep, GiveBack, AlreadyClosed, Unlock
  <2>11. CASE Ask(p) \/ CancelCall(p) \/ \E s \in Sessions : CloseBegins(p, s)
    BY <2>11, <2>1, <2>2 DEF Ask, CancelCall, CloseBegins
  <2> QED
    BY <2>3, <2>4, <2>5, <2>6, <2>7, <2>8, <2>9, <2>10, <2>11 DEF Called, Step
<1> QED
  BY <1>1, <1>2 DEF Kinds

(* Only one goroutine is inside a session.                                     *)
LEMMA Alone ==
  ASSUME TypeOK, Gated, NEW p \in Procs, pc[p] \in Inside,
         NEW q \in Procs, pc[q] \in Inside, S(p) = S(q)
  PROVE  p = q
BY DEF Gated

(* Who is inside stays alone, and its session open.                            *)
LEMMA StepGated ==
  ASSUME TypeOK, Claimed, Gated, NEW p \in Procs, Called(p)
  PROVE  Gated'
<1> USE DEF Gated
<1>1. ASSUME NEW q \in Procs \ {p}, pc'[q] \in Inside
      PROVE  /\ gate'[S(q)'] = q
             /\ pc'[q] \in Committed => once'[S(q)'] # "done"
             /\ pc'[q] \in {"comparing", "ready"} => used'[S(q)'] < MaxActions
  <2>1. /\ pc[q] = pc'[q] /\ S(q)' = S(q) /\ gate[S(q)] = q /\ gate'[S(q)] = q
        /\ S(q) \in Sessions
    BY <1>1, LeavesOthers, CallFacts DEF S, Inside, Committed, Executing
  <2>2. once'[S(q)] = "done" => once[S(q)] = "done"
    <3>1. CASE CloseEnters(p)
      BY <2>1, <3>1, Names, CallFacts DEF CloseEnters, TypeOK, TypeClaim
    <3>2. CASE GiveBack(p) \/ \E s \in Sessions : CloseBegins(p, s)
      BY <2>1, <3>2 DEF GiveBack, CloseBegins, TypeOK, TypeClaim
    <3> QED BY <3>1, <3>2, ClaimRests DEF claim
  <2>3. used'[S(q)] = used[S(q)]
    <3>1. CASE Dispatch(p)
      BY <2>1, <3>1, CallFacts DEF Dispatch, TypeOK, TypeQuota, Inside, Committed
    <3>2. used' = used \/ Dispatch(p)
      BY DEF Called, Step, Ask, CancelCall, CloseBegins, GiveUp, Enter, Deny, Refuse,
             Admit, Recapture, Acquire, DryRun, Forbidden, Mutate, Ambiguous, Succeeds, MoveFirst,
             Interrupted, Click, Press, Held, Release, Verify, VerifyFails,
             CloseWaits, CloseEnters, CloseLocks, Sweep, GiveBack, AlreadyClosed, quota
    <3> QED BY <3>1, <3>2
  <2> QED BY <2>1, <2>2, <2>3
<1>2. ASSUME pc'[p] \in Inside
      PROVE  /\ gate'[S(p)'] = p
             /\ pc'[p] \in Committed => once'[S(p)'] # "done"
             /\ pc'[p] \in {"comparing", "ready"} => used'[S(p)'] < MaxActions
  <2>1. S(p)' = S(p) /\ once' = once
    BY <1>2, Walk DEF S
  <2>2. gate'[S(p)] = p
    <3>1. CASE Enter(p)
      BY <3>1, CallFacts DEF Enter, TypeOK, TypeLocks
    <3> QED BY <1>2, <3>1, Walk
  <2>3. pc'[p] \in Committed => once[S(p)] # "done"
    <3>1. CASE Admit(p) \/ Recapture(p)
      BY <3>1, CallFacts DEF Admit, Recapture, Stopped, Claimed, Claims
    <3> QED BY <1>2, <3>1, Walk
  <2>4. pc'[p] \in {"comparing", "ready"} => used'[S(p)] < MaxActions
    <3> SUFFICES ASSUME pc'[p] \in {"comparing", "ready"} PROVE used'[S(p)] < MaxActions
      OBVIOUS
    <3> USE DEF TypeOK, TypeCalls, Go, calls
    <3>1. CASE Admit(p) \/ Recapture(p) \/ Acquire(p) \/ Enter(p)
      BY <3>1 DEF Admit, Recapture, Acquire, Enter, quota
    <3>2. CASE Ask(p) \/ CancelCall(p) \/ \E s \in Sessions : CloseBegins(p, s)
      BY <3>2 DEF Ask, CancelCall, CloseBegins, quota
    <3>3. CASE GiveUp(p) \/ Deny(p) \/ Refuse(p) \/ DryRun(p) \/ VerifyFails(p)
      BY <3>3 DEF GiveUp, Deny, Refuse, DryRun, VerifyFails, Return
    <3>4. CASE Dispatch(p)
      BY <3>4, CallFacts DEF Dispatch, Closing
    <3>5. CASE Forbidden(p) \/ Mutate(p) \/ MoveFirst(p) \/ Interrupted(p)
      BY <3>5 DEF Forbidden, Mutate, Ambiguous, Succeeds, MoveFirst, Interrupted, Finish, Return
    <3>6. CASE Click(p) \/ Press(p)
      BY <3>6 DEF Click, ClickResult, Ambiguous, Succeeds, Press, PressResult, Finish, Return
    <3>7. CASE Held(p) \/ Release(p) \/ Verify(p)
      BY <3>7 DEF Held, Release, Verify, Finish, Return
    <3>8. CASE CloseWaits(p) \/ CloseEnters(p) \/ CloseLocks(p)
      BY <3>8 DEF CloseWaits, CloseEnters, CloseLocks
    <3>9. CASE Sweep(p) \/ GiveBack(p) \/ AlreadyClosed(p)
      BY <3>9 DEF Sweep, GiveBack, AlreadyClosed, Unlock
    <3> QED
      BY <3>1, <3>2, <3>3, <3>4, <3>5, <3>6, <3>7, <3>8, <3>9 DEF Called, Step
  <2> QED BY <2>1, <2>2, <2>3, <2>4
<1> QED
  BY <1>1, <1>2 DEF Inside, Committed, S
-----------------------------------------------------------------------------
(* An action that was admitted and is not done belongs to the owner.           *)
LEMMA Mine ==
  ASSUME TypeOK, Claimed, Gated, NEW p \in Procs, pc[p] \in Committed
  PROVE  S(p) = owner /\ S(p) \in Sessions /\ owner # None
BY CallFacts, Names DEF Claimed, Claims, Gated, Committed, Executing

(* An input is pressed until its release; nothing else begins or ends that.    *)
LEMMA HoldsOn ==
  ASSUME TypeOK, NEW p \in Procs, Called(p)
  PROVE  /\ pc[p] \in Pressing =>
              Release(p) \/ (pc'[p] \in Pressing /\ call'[p] = call[p])
         /\ pc'[p] \in Pressing => pc[p] \in Pressing \/ Press(p)
<1> USE DEF TypeOK, TypeCalls, Pressing, Go, calls
<1>1. CASE Ask(p) \/ CancelCall(p) \/ \E s \in Sessions : CloseBegins(p, s)
  BY <1>1 DEF Ask, CancelCall, CloseBegins
<1>2. CASE Enter(p) \/ Admit(p) \/ Recapture(p) \/ Acquire(p)
  BY <1>2 DEF Enter, Admit, Recapture, Acquire
<1>3. CASE GiveUp(p) \/ Deny(p) \/ Refuse(p) \/ DryRun(p) \/ VerifyFails(p)
  BY <1>3 DEF GiveUp, Deny, Refuse, DryRun, VerifyFails, Return
<1>4. CASE Dispatch(p)
  BY <1>4, CallFacts DEF Dispatch, Closing
<1>5. CASE Forbidden(p) \/ Mutate(p) \/ MoveFirst(p) \/ Interrupted(p)
  BY <1>5 DEF Forbidden, Mutate, Ambiguous, Succeeds, MoveFirst, Interrupted, Finish, Return
<1>6. CASE Click(p)
  BY <1>6 DEF Click, ClickResult, Ambiguous, Succeeds, Finish, Return
<1>7. CASE Press(p)
  BY <1>7 DEF Press
<1>8. CASE Held(p) \/ Verify(p)
  BY <1>8 DEF Held, Verify, Return
<1>9. CASE Release(p)
  BY <1>9 DEF Release, Finish, Return
<1>10. CASE CloseWaits(p) \/ CloseEnters(p) \/ CloseLocks(p)
  BY <1>10 DEF CloseWaits, CloseEnters, CloseLocks
<1>11. CASE Sweep(p) \/ GiveBack(p) \/ AlreadyClosed(p)
  BY <1>11 DEF Sweep, GiveBack, AlreadyClosed, Unlock
<1> QED
  BY <1>1, <1>2, <1>3, <1>4, <1>5, <1>6, <1>7, <1>8, <1>9, <1>10, <1>11 DEF Called, Step

(* What the three parts of Books say of a goroutine and of a session.          *)
BookOf(p) ==
    /\ pc[p] \in Committed \ Pressing => pressed[S(p)] = {}
    /\ pc[p] \in Pressing => pressed[S(p)] = {call[p].input}
Explained(s) ==
    pressed[s] # {} => \/ s \in tainted
                       \/ \E p \in Procs : pc[p] \in Pressing /\ S(p) = s
Answered == \A i \in down \ stray : owner # None /\ i \in pressed[owner]

(* Together they are Books.                                                    *)
LEMMA Parts == Books <=> /\ Answered /\ (\A p \in Procs : BookOf(p))
                         /\ \A s \in Sessions : Explained(s)
BY DEF Books, BookOf, Explained, Answered

(* A step that leaves the ledger alone and presses nothing for it.             *)
LEMMA BooksRest ==
  ASSUME TypeOK, Claimed, Gated, Books, NEW p \in Procs, Called(p),
         UNCHANGED <<pressed, tainted>>, down' \ stray' \subseteq down \ stray,
         ~Press(p), ~Release(p)
  PROVE  Books'
<1> USE Parts
<1>1. Answered'
  <2>1. CASE GiveBack(p)
    BY <2>1 DEF GiveBack, Answered
  <2>2. CASE owner' = owner
    BY <2>2 DEF Answered
  <2> QED BY <2>1, <2>2, ClaimRests DEF claim, CloseBegins, CloseEnters
<1>2. ASSUME NEW q \in Procs \ {p} PROVE BookOf(q)'
  BY <1>2, LeavesOthers DEF BookOf, S
<1>3. BookOf(p)'
  <2>1. CASE pc'[p] \in Pressing
    BY <2>1, HoldsOn DEF BookOf, S
  <2>2. CASE pc'[p] \in Committed \ Pressing
    <3>1. S(p)' = S(p) /\ pc[p] \notin Pressing
      BY <2>2, Walk, HoldsOn DEF S, Inside
    <3>2. CASE pc[p] \in Committed
      BY <2>2, <3>1, <3>2 DEF BookOf
    <3>3. CASE Admit(p) \/ Recapture(p)
      <4>1. pc[p] = "admitted" /\ S(p) \notin tainted /\ S(p) \in Sessions
        BY <3>3, CallFacts DEF Admit, Recapture
      <4>2. \A q \in Procs : pc[q] \in Pressing /\ S(q) = S(p) => FALSE
        BY <4>1, Alone DEF Inside, Committed, Executing, Pressing
      <4>3. Explained(S(p))
        BY <4>1
      <4> QED BY <2>2, <3>1, <4>1, <4>2, <4>3 DEF Explained, BookOf
    <3> QED BY <2>2, <3>2, <3>3, Walk DEF Inside
  <2> QED BY <2>1, <2>2 DEF BookOf
<1>4. ASSUME NEW s \in Sessions PROVE Explained(s)'
  <2>1. Explained(s)
    OBVIOUS
  <2>2. ASSUME NEW q \in Procs, pc[q] \in Pressing, S(q) = s
        PROVE  pc'[q] \in Pressing /\ S(q)' = s
    BY <2>2, LeavesOthers, HoldsOn DEF S
  <2> QED BY <2>1, <2>2 DEF Explained
<1> QED
  BY <1>1, <1>2, <1>3, <1>4 DEF Books, BookOf, Explained, Answered, S

(* Nobody else has pressed in the session of an admitted action, and nobody at *)
(* all in one that was closed.                                                 *)
LEMMA OthersElsewhere ==
  ASSUME TypeOK, Gated, NEW p \in Procs, NEW q \in Procs \ {p},
         pc[p] \in Committed \/ once[S(p)] = "done", pc[q] \in Committed
  PROVE  S(q) # S(p)
BY Alone DEF Gated, Inside, Committed

(* A click that may have left its button down, and a press.                    *)
LEMMA BooksPress ==
  ASSUME TypeOK, Claimed, Gated, Kinds, Books, NEW p \in Procs, Called(p),
         Click(p) \/ Press(p)
  PROVE  Books'
<1> USE Parts
<1> DEFINE s == S(p)
           i == call[p].input
<1>1. /\ pc[p] \in Committed \ Pressing /\ s = owner /\ owner # None
      /\ s \in Sessions /\ i \in Inputs /\ owner' = owner
  BY Mine, LedgerMoves DEF Click, Press, Committed, Executing, Pressing, claim
<1>2. pressed[s] = {} /\ down \ stray = {}
  BY <1>1 DEF BookOf, Answered
<1>3. CASE /\ UNCHANGED <<pressed, tainted>> /\ down' \ stray' \subseteq down \ stray
           /\ pc'[p] \notin Pressing
  <2>1. pc'[p] \in Committed => S(p)' = s
    BY Walk DEF S, Inside
  <2>2. BookOf(p)' /\ Answered'
    BY <1>1, <1>2, <1>3, <2>1 DEF BookOf, Answered
  <2>3. ASSUME NEW q \in Procs \ {p} PROVE BookOf(q)'
    BY <1>3, <2>3, LeavesOthers DEF BookOf, S
  <2>4. ASSUME NEW u \in Sessions PROVE Explained(u)'
    <3>1. Explained(u)
      OBVIOUS
    <3>2. \A q \in Procs : pc[q] \in Pressing => q # p
      BY <1>1
    <3> QED BY <1>3, <3>1, <3>2, LeavesOthers DEF Explained, S
  <2> QED BY <2>2, <2>3, <2>4 DEF Books, BookOf, Explained, Answered, S
<1>4. CASE /\ pressed' = [pressed EXCEPT ![s] = @ \cup {i}]
           /\ down' \ stray' \subseteq {i}
           /\ \/ tainted' = tainted \cup {s} /\ pc'[p] = "idle"
              \/ tainted' = tainted /\ pc'[p] \in Pressing /\ call'[p] = call[p]
  <2>1. pressed'[s] = {i}
    BY <1>1, <1>2, <1>4 DEF TypeOK, TypeLedger
  <2>2. BookOf(p)' /\ Answered'
    BY <1>1, <1>2, <1>4, <2>1 DEF BookOf, Answered, S, Committed, Executing, Pressing
  <2>3. ASSUME NEW q \in Procs \ {p} PROVE BookOf(q)'
    <3>1. CASE pc[q] \in Committed
      <4>1. pressed'[S(q)] = pressed[S(q)] /\ S(q) \in Sessions
        BY <1>1, <1>4, <3>1, OthersElsewhere, Mine DEF TypeOK, TypeLedger
      <4> QED BY <2>3, <4>1, LeavesOthers DEF BookOf, S
    <3> QED BY <2>3, <3>1, LeavesOthers DEF BookOf, Committed, Executing, Pressing
  <2>4. ASSUME NEW u \in Sessions PROVE Explained(u)'
    <3>1. CASE u = s
      BY <1>4, <3>1 DEF Explained, S
    <3>2. CASE u # s
      <4>1. pressed'[u] = pressed[u] /\ Explained(u)
        BY <1>4, <3>2 DEF TypeOK, TypeLedger
      <4>2. \A q \in Procs : pc[q] \in Pressing => q # p
        BY <1>1
      <4> QED BY <1>4, <4>1, <4>2, LeavesOthers DEF Explained, S
    <3> QED BY <3>1, <3>2
  <2> QED BY <2>2, <2>3, <2>4 DEF Books, BookOf, Explained, Answered, S
<1>5. CASE Click(p)
  <2>1. \/ inputs' = inputs \/ Strays(p)
        \/ Recorded(p) /\ tainted' = tainted \cup {s} /\ pc'[p] = "idle"
    <3>1. CASE Succeeds(p) \/ Ambiguous(p)
      BY <1>1, <3>1 DEF Succeeds, Ambiguous, Strays, inputs
    <3>2. CASE ~(Succeeds(p) \/ Ambiguous(p))
      BY <1>5, <3>2 DEF Click, ClickResult, Record, Recorded, Finish, Return, Go,
         TypeOK, TypeCalls
    <3> QED BY <3>1, <3>2
  <2>2. pc'[p] \notin Pressing
    BY <1>5 DEF Click, ClickResult, Ambiguous, Succeeds, Finish, Return, Go, TypeOK,
       TypeCalls, Pressing
  <2>3. CASE inputs' = inputs \/ Strays(p)
    BY <1>3, <2>2, <2>3 DEF inputs, Strays
  <2> QED BY <1>2, <1>4, <2>1, <2>3 DEF Recorded
<1>6. CASE Press(p)
  <2>1. \/ inputs' = inputs /\ pc'[p] \notin Pressing
        \/ /\ Recorded(p)
           /\ tainted' = tainted /\ pc'[p] \in Pressing /\ call'[p] = call[p]
    BY <1>6 DEF Press, PressResult, Record, Recorded, Finish, Return, Go, inputs, TypeOK,
                TypeCalls, Pressing
  <2>2. CASE inputs' = inputs /\ pc'[p] \notin Pressing
    BY <1>3, <2>2 DEF inputs
  <2> QED BY <1>2, <1>4, <2>1, <2>2 DEF Recorded
<1> QED
  BY <1>5, <1>6

(* An input that is raised leaves the ledger, one that is not stays in it.      *)
LEMMA BooksRaise ==
  ASSUME TypeOK, Claimed, Gated, Kinds, Books, NEW p \in Procs, Called(p),
         Release(p) \/ Sweep(p)
  PROVE  Books'
<1> USE Parts
<1> DEFINE s == S(p)
<1>1. /\ s \in Sessions /\ owner' = owner
      /\ pc[p] \in Committed \/ once[s] = "done"
      /\ Release(p) => pc[p] \in Pressing /\ pressed[s] = {call[p].input}
      /\ pc'[p] \in Committed => S(p)' = s /\ pc'[p] \notin Pressing
  <2>1. pc'[p] \in Committed => S(p)' = s
    BY Walk DEF S, Inside
  <2>2. CASE Release(p)
    <3>1. pc'[p] \notin Pressing
      BY <2>2 DEF Release, Finish, Return, Go, TypeOK, TypeCalls, Pressing
    <3>2. pc[p] \in Pressing /\ pc[p] \in Committed
      BY <2>2 DEF Release, Pressing, Committed, Executing
    <3> QED BY <2>1, <2>2, <3>1, <3>2, Mine DEF Release, claim, BookOf
  <2>3. CASE Sweep(p)
    <3>1. pc'[p] \notin Pressing
      BY <2>3 DEF Sweep, Unlock, Go, TypeOK, TypeCalls, Pressing, calls
    <3>2. s \in Sessions /\ once[s] = "done" /\ owner' = owner
      BY <2>3, CallFacts DEF Sweep, Claimed, Sealing, claim
    <3>3. ~Release(p)
      BY <2>3 DEF Sweep, Release
    <3> QED BY <2>1, <3>1, <3>2, <3>3
  <2> QED BY <2>2, <2>3
<1>2. PICK i \in pressed[s] : Raised(s, i) \/ Retained(s, i)
  BY <1>1, LedgerMoves
<1>3. pressed'[s] \subseteq pressed[s]
      /\ \A u \in Sessions : u # s => pressed'[u] = pressed[u]
  BY <1>1, <1>2 DEF Raised, Retained, TypeOK, TypeLedger
<1>4. Answered'
  <2>1. CASE Retained(s, i)
    BY <1>1, <2>1 DEF Retained, Answered
  <2>2. CASE Raised(s, i)
    <3> SUFFICES ASSUME NEW j \in down' \ stray' PROVE owner' # None /\ j \in pressed'[owner']
      BY DEF Answered
    <3>1. j \in down \ stray /\ j # i
      BY <2>2 DEF Raised
    <3>2. owner # None /\ j \in pressed[owner] /\ owner \in Sessions
      BY <3>1 DEF Answered, TypeOK, TypeClaim
    <3> QED BY <1>1, <2>2, <3>1, <3>2 DEF Raised, TypeOK, TypeLedger
  <2> QED BY <1>2, <2>1, <2>2
<1>5. ASSUME NEW q \in Procs \ {p} PROVE BookOf(q)'
  <2>1. CASE pc[q] \in Committed
    <3>1. pressed'[S(q)] = pressed[S(q)]
      BY <1>1, <1>3, <2>1, OthersElsewhere, Mine
    <3> QED BY <1>5, <3>1, LeavesOthers DEF BookOf, S
  <2> QED BY <1>5, <2>1, LeavesOthers DEF BookOf, Committed, Executing, Pressing
<1>6. BookOf(p)'
  <2>1. CASE pc'[p] \in Committed
    <3>1. Release(p) /\ Raised(s, i)
      <4>1. ~Sweep(p)
        BY <2>1 DEF Sweep, Unlock, Go, TypeOK, TypeCalls, calls, Committed, Executing
      <4>2. Release(p) /\ i = call[p].input
        BY <1>1, <4>1
      <4>3. Retained(s, i) => Raised(s, i) \/ pc'[p] = "idle"
        BY <4>2 DEF Release, Finish, Return, Go, TypeOK, TypeCalls
      <4> QED BY <1>2, <2>1, <4>2, <4>3 DEF Committed, Executing
    <3>2. pressed'[s] = {}
      BY <1>1, <3>1 DEF Raised, TypeOK, TypeLedger
    <3> QED BY <1>1, <2>1, <3>2 DEF BookOf
  <2> QED BY <2>1 DEF BookOf, Committed, Executing, Pressing
<1>7. ASSUME NEW u \in Sessions PROVE Explained(u)'
  <2>1. CASE u = s
    <3>1. CASE Retained(s, i)
      BY <2>1, <3>1 DEF Retained, Explained
    <3>2. CASE Raised(s, i) /\ pressed'[s] # {}
      <4>1. tainted' = tainted /\ pressed[s] # {}
        BY <1>1, <3>2 DEF Raised, TypeOK, TypeLedger
      <4>2. CASE \E q \in Procs : pc[q] \in Pressing /\ S(q) = s
        <5>1. PICK q \in Procs : pc[q] \in Pressing /\ S(q) = s
          BY <4>2
        <5>2. q = p
          BY <1>1, <5>1, OthersElsewhere DEF Pressing, Committed, Executing
        <5>3. Release(p)
          BY <5>1, <5>2 DEF Sweep, Pressing
        <5> QED BY <1>1, <1>2, <3>2, <5>3 DEF Raised, TypeOK, TypeLedger
      <4> QED BY <2>1, <4>1, <4>2 DEF Explained
    <3> QED BY <1>2, <2>1, <3>1, <3>2 DEF Explained
  <2>2. CASE u # s
    <3>1. pressed'[u] = pressed[u] /\ Explained(u) /\ (u \in tainted => u \in tainted')
      BY <1>2, <1>3, <2>2 DEF Raised, Retained
    <3>2. \A q \in Procs : S(q) = u => q # p
      BY <2>2
    <3> QED BY <3>1, <3>2, LeavesOthers DEF Explained, S
  <2> QED BY <2>1, <2>2
<1> QED
  BY <1>4, <1>5, <1>6, <1>7 DEF Books, BookOf, Explained, Answered, S

(* The ledger accounts for what is down after every step of a goroutine.       *)
LEMMA StepBooks ==
  ASSUME TypeOK, Claimed, Gated, Kinds, Books, NEW p \in Procs, Called(p)
  PROVE  Books'
<1>1. CASE Click(p) \/ Press(p) \/ Release(p) \/ Sweep(p)
  BY <1>1, BooksPress, BooksRaise
<1>2. CASE ~(Click(p) \/ Press(p) \/ Release(p) \/ Sweep(p))
  <2>1. inputs' = inputs \/ Strays(p)
    BY <1>2, LedgerRests, LedgerMoves DEF Called, Step
  <2>2. UNCHANGED <<pressed, tainted>> /\ down' \ stray' \subseteq down \ stray
    BY <2>1 DEF inputs, Strays
  <2> QED BY <1>2, <2>2, BooksRest
<1> QED
  BY <1>1, <1>2
-----------------------------------------------------------------------------
(* A goroutine that touched the desktop is past the first mutation of its call. *)
LEMMA StepTouched ==
  ASSUME TypeOK, Touched, NEW p \in Procs, Called(p)
  PROVE  Touched'
<1> DEFINE Marked(q) ==
      /\ q \in touched' => pc'[q] \in Pressing \cup {"idle", "wheel", "moved", "verifying"}
      /\ pc'[q] = "releasing" => result'[q] \in {"succeeded", "unverified"}
<1>1. ASSUME NEW q \in Procs \ {p} PROVE Marked(q)
  BY <1>1, LeavesOthers DEF Touched
<1>2. Marked(p)
  <2> USE DEF TypeOK, TypeCalls, Pressing, Touched, Go, calls
  <2>1. CASE Ask(p) \/ CancelCall(p) \/ \E s \in Sessions : CloseBegins(p, s)
    BY <2>1 DEF Ask, CancelCall, CloseBegins
  <2>2. CASE Enter(p) \/ Admit(p) \/ Recapture(p) \/ Acquire(p)
    BY <2>2 DEF Enter, Admit, Recapture, Acquire
  <2>3. CASE GiveUp(p) \/ Deny(p) \/ Refuse(p) \/ DryRun(p) \/ VerifyFails(p)
    BY <2>3 DEF GiveUp, Deny, Refuse, DryRun, VerifyFails, Return
  <2>4. CASE Dispatch(p)
    BY <2>4, CallFacts DEF Dispatch, Closing
  <2>5. CASE Forbidden(p) \/ Mutate(p) \/ MoveFirst(p) \/ Interrupted(p)
    BY <2>5 DEF Forbidden, Mutate, Ambiguous, Succeeds, MoveFirst, Interrupted, Finish, Return, Touch
  <2>6. CASE Click(p)
    BY <2>6 DEF Click, ClickResult, Ambiguous, Succeeds, Finish, Return, Touch
  <2>7. CASE Press(p)
    BY <2>7 DEF Press, PressResult, Finish, Return, Touch
  <2>8. CASE Held(p) \/ Verify(p)
    BY <2>8 DEF Held, Verify, Return
  <2>9. CASE Release(p)
    BY <2>9 DEF Release, Finish, Return
  <2>10. CASE CloseWaits(p) \/ CloseEnters(p) \/ CloseLocks(p)
    BY <2>10 DEF CloseWaits, CloseEnters, CloseLocks
  <2>11. CASE Sweep(p) \/ GiveBack(p) \/ AlreadyClosed(p)
    BY <2>11 DEF Sweep, GiveBack, AlreadyClosed, Unlock
  <2> QED
    BY <2>1, <2>2, <2>3, <2>4, <2>5, <2>6, <2>7, <2>8, <2>9, <2>10, <2>11
       DEF Called, Step
<1> QED
  BY <1>1, <1>2 DEF Touched

(* A goroutine changes observations only by the Close that passes the gate and *)
(* by the capture of a verification.                                           *)
LEMMA ObsMoves ==
  ASSUME NEW p \in Procs, Called(p)
  PROVE  \/ obs' = obs
         \/ CloseEnters(p)
         \/ pc[p] = "verifying" /\ \E o \in Observations : Retain(S(p), o)
<1>1. CASE Ask(p) \/ CancelCall(p) \/ \E s \in Sessions : CloseBegins(p, s)
  BY <1>1 DEF Ask, CancelCall, CloseBegins, evidence
<1>2. CASE \/ GiveUp(p) \/ Enter(p) \/ Deny(p) \/ Refuse(p) \/ Admit(p)
           \/ Recapture(p) \/ Acquire(p) \/ DryRun(p) \/ Dispatch(p)
  BY <1>2 DEF GiveUp, Enter, Deny, Refuse, Admit, Recapture, Acquire, DryRun, Dispatch,
              evidence
<1>3. CASE \/ Forbidden(p) \/ Mutate(p) \/ MoveFirst(p) \/ Interrupted(p)
           \/ Click(p) \/ Press(p) \/ Held(p) \/ Release(p) \/ VerifyFails(p)
  BY <1>3 DEF Forbidden, Mutate, Ambiguous, Succeeds, MoveFirst, Interrupted, Click, Press, Held,
              Release, VerifyFails, evidence
<1>4. CASE Verify(p)
  BY <1>4 DEF Verify, evidence
<1>5. CASE \/ CloseWaits(p) \/ CloseLocks(p) \/ Sweep(p) \/ GiveBack(p)
           \/ AlreadyClosed(p)
  BY <1>5 DEF CloseWaits, CloseLocks, Sweep, GiveBack, AlreadyClosed, evidence
<1> QED
  BY <1>1, <1>2, <1>3, <1>4, <1>5 DEF Called, Step

(* A goroutine that goes on with an action keeps the lock of its buffer.       *)
LEMMA KeepsUse ==
  ASSUME TypeOK, NEW p \in Procs, Called(p),
         pc'[p] \in Executing \cup {"comparing", "ready"}
  PROVE  /\ call'[p] = call[p] /\ obs' = obs
         /\ \/ Admit(p) \/ Recapture(p) \/ Acquire(p)
            \/ use' = use /\ pc'[p] = "comparing" /\ pc[p] = "comparing"
            \/ use' = use /\ pc'[p] # "comparing" /\ pc[p] \in Executing \cup {"ready"}
<1>1. call'[p] = call[p]
  BY Walk DEF Inside, Committed
<1> USE DEF TypeOK, TypeCalls, Go, Executing, calls, evidence
<1>2. CASE Ask(p) \/ CancelCall(p) \/ \E s \in Sessions : CloseBegins(p, s)
  BY <1>1, <1>2 DEF Ask, CancelCall, CloseBegins
<1>3. CASE Enter(p) \/ Admit(p) \/ Recapture(p) \/ Acquire(p)
  BY <1>1, <1>3 DEF Enter, Admit, Recapture, Acquire
<1>4. CASE GiveUp(p) \/ Deny(p) \/ Refuse(p) \/ DryRun(p) \/ VerifyFails(p)
  BY <1>4 DEF GiveUp, Deny, Refuse, DryRun, VerifyFails, Return
<1>5. CASE Dispatch(p)
  BY <1>1, <1>5, CallFacts DEF Dispatch, Closing
<1>6. CASE Forbidden(p) \/ Mutate(p) \/ MoveFirst(p) \/ Interrupted(p)
  BY <1>1, <1>6 DEF Forbidden, Mutate, Ambiguous, Succeeds, MoveFirst, Interrupted, Finish, Return, locks
<1>7. CASE Click(p) \/ Press(p)
  BY <1>1, <1>7 DEF Click, ClickResult, Ambiguous, Succeeds, Press, PressResult, Finish, Return, locks
<1>8. CASE Held(p)
  BY <1>1, <1>8 DEF Held
<1>9. CASE Release(p) \/ Verify(p)
  BY <1>9 DEF Release, Verify, Finish, Return
<1>10. CASE CloseWaits(p) \/ CloseEnters(p) \/ CloseLocks(p)
  BY <1>10 DEF CloseWaits, CloseEnters, CloseLocks
<1>11. CASE Sweep(p) \/ GiveBack(p) \/ AlreadyClosed(p)
  BY <1>11 DEF Sweep, GiveBack, AlreadyClosed, Unlock
<1> QED
  BY <1>2, <1>3, <1>4, <1>5, <1>6, <1>7, <1>8, <1>9, <1>10, <1>11 DEF Called, Step

(* What Grounds says of a goroutine.                                           *)
GroundOf(p) == call[p].pre # None =>
    /\ pc[p] \in Executing \cup {"comparing", "ready"} =>
         obs[call[p].pre].of = S(p)
    /\ pc[p] \in Executing \cup {"ready"} =>
         /\ use[call[p].pre] = p
         /\ obs[call[p].pre].state \in {"live", "dropped"}

(* An action is still grounded after any step of a goroutine.                  *)
LEMMA StepGrounds ==
  ASSUME TypeOK, Gated, Grounds, NEW p \in Procs, Called(p)
  PROVE  Grounds'
<1>1. ASSUME NEW q \in Procs \ {p} PROVE GroundOf(q)'
  <2>1. GroundOf(q) /\ GroundOf(p)
    BY DEF Grounds, GroundOf
  <2>2. pc'[q] = pc[q] /\ call'[q] = call[q]
    BY <1>1, LeavesOthers
  <2> SUFFICES ASSUME call[q].pre # None, pc[q] \in Executing \cup {"comparing", "ready"}
               PROVE  GroundOf(q)'
    BY <2>2 DEF GroundOf
  <2> DEFINE o == call[q].pre
  <2>3. o \in Observations /\ gate[S(q)] = q /\ S(q) \in Sessions
    BY CallFacts DEF Gated, Inside, Committed, Executing, Closing
  <2>4. obs'[o] = obs[o]
    <3>1. CASE CloseEnters(p)
      <4>1. S(q) # S(p)
        BY <2>3, <3>1, Names DEF CloseEnters
      <4> QED BY <2>1, <2>3, <3>1, <4>1 DEF CloseEnters, GroundOf, TypeOK, TypeQuota
    <3>2. CASE \E n \in Observations : Retain(S(p), n)
      BY <2>1, <2>3, <3>2 DEF Retain, GroundOf, TypeOK, TypeQuota, Executing
    <3> QED BY <3>1, <3>2, ObsMoves
  <2>5. use[o] = q => use'[o] = q
    <3>1. CASE use[o] = q /\ call[p].pre = o /\ pc[p] \in Executing
      BY <2>1, <2>3, <3>1, Names DEF GroundOf
    <3> QED BY <1>1, <2>3, <3>1, LeavesOthers
  <2> QED BY <2>1, <2>2, <2>4, <2>5 DEF GroundOf, S
<1>2. GroundOf(p)'
  <2>1. GroundOf(p)
    BY DEF Grounds, GroundOf
  <2> SUFFICES ASSUME pc'[p] \in Executing \cup {"comparing", "ready"}
               PROVE  GroundOf(p)'
    BY DEF GroundOf
  <2>2. CASE Admit(p) \/ Recapture(p)
    <3>1. pc'[p] \in {"comparing", "ready"} /\ (pc'[p] = "ready" => call[p].pre = None)
          /\ (call[p].pre # None => obs[call[p].pre] = [of |-> S(p), state |-> "live"])
      BY <2>2 DEF Admit, Recapture, Go, TypeOK, TypeCalls
    <3> QED BY <3>1, KeepsUse DEF GroundOf, S, Executing
  <2>3. CASE Acquire(p)
    BY <2>1, <2>3, KeepsUse, CallFacts DEF Acquire, Acquirable, GroundOf, S, TypeOK,
       TypeLocks, Closing
  <2> QED BY <2>1, <2>2, <2>3, KeepsUse DEF GroundOf, S
<1> QED
  BY <1>1, <1>2 DEF Grounds, GroundOf, S
-----------------------------------------------------------------------------
(* All of it is the inductive invariant.                                       *)
Inv == TypeOK /\ Claimed /\ Gated /\ Kinds /\ Books /\ Touched /\ Grounds

(* It holds when the process starts.                                           *)
LEMMA InvStarts == Init => Inv
<1> SUFFICES ASSUME Init PROVE Inv
  OBVIOUS
<1>1. Claimed
  BY Names DEF Init, Claimed, Claims, Sealing, Closing
<1>2. Gated /\ Kinds /\ Books /\ Touched /\ Grounds
  BY DEF Init, Gated, Kinds, Books, Touched, Grounds, Inside, Committed, Executing, Pressing
<1> QED
  BY <1>1, <1>2, InitTyped DEF Inv

(* What happens outside of the calls keeps it.                                 *)
LEMMA OutsideKeeps ==
  ASSUME Inv, Outside
  PROVE  Inv'
<1> USE DEF Inv
<1>1. UNCHANGED <<calls, gate, once, complete, used, use, pressed, tainted>>
  BY DEF Outside, NewSession, LifetimeEnds, Observe, ReleaseObservation, CloseBuffer,
         Lose, claim, locks, inputs, quota, evidence
<1> USE <1>1 DEF calls
<1>2. Claimed'
  <2>1. CASE \E s \in Sessions : NewSession(s)
    BY <2>1, Names DEF NewSession, Claimed, Claims, Sealing, S, TypeOK, TypeClaim
  <2>2. CASE ~\E s \in Sessions : NewSession(s)
    <3>1. owner' = owner /\ born' = born /\ over \subseteq over'
      BY <2>2 DEF Outside, LifetimeEnds, Observe, ReleaseObservation, CloseBuffer, Lose, claim
    <3> QED BY <3>1 DEF Claimed, Claims, Sealing, S
  <2> QED BY <2>1, <2>2
<1>3. Gated' /\ Kinds' /\ Touched'
  BY DEF Gated, Kinds, Touched, S
<1>4. Books'
  <2>1. down' \ stray' \subseteq down \ stray /\ (owner' = owner \/ owner = None)
    BY DEF Outside, NewSession, LifetimeEnds, Observe, ReleaseObservation, CloseBuffer,
           Lose, claim, locks, inputs
  <2> QED BY <2>1 DEF Books, S
<1>5. Grounds'
  <2> SUFFICES ASSUME NEW q \in Procs PROVE GroundOf(q)'
    BY DEF Grounds, GroundOf, S
  <2>1. GroundOf(q) /\ (call[q].pre # None => call[q].pre \in Observations)
    BY CallFacts, Names DEF Grounds, GroundOf, Closing
  <2>2. CASE \E s \in Sessions, o \in Observations : Observe(s, o)
    BY <2>1, <2>2 DEF Observe, Retain, GroundOf, S, TypeOK, TypeQuota, Executing
  <2>3. CASE \E o \in Observations : ReleaseObservation(o)
    BY <2>1, <2>3 DEF ReleaseObservation, GroundOf, S, TypeOK, TypeQuota
  <2>4. CASE \E o \in Observations : CloseBuffer(o)
    BY <2>1, <2>4, Names DEF CloseBuffer, GroundOf, S, TypeOK, TypeQuota, Executing
  <2>5. CASE obs' = obs
    BY <2>1, <2>5 DEF GroundOf, S
  <2> QED BY <2>2, <2>3, <2>4, <2>5 DEF Outside, NewSession, LifetimeEnds, Lose, evidence
<1> QED
  BY <1>2, <1>3, <1>4, <1>5, OutsideTyped

(* A step is one of a goroutine or happens outside of the calls.               *)
LEMMA Steps == Next => Outside \/ \E p \in Procs : Called(p)
BY DEF Next, Outside, Called

(* So does every step.                                                         *)
LEMMA InvStays == Inv /\ [Next]_vars => Inv'
<1> SUFFICES ASSUME Inv, [Next]_vars PROVE Inv'
  OBVIOUS
<1>1. CASE Outside
  BY <1>1, OutsideKeeps
<1>2. ASSUME NEW p \in Procs, Called(p) PROVE Inv'
  BY <1>2, StepTyped, StepClaimed, StepGated, StepKinds, StepBooks, StepTouched,
     StepGrounds DEF Inv
<1>3. CASE UNCHANGED vars
  BY <1>3 DEF Inv, TypeOK, TypeClaim, TypeLocks, TypeLedger, TypeQuota, TypeCalls, CallOK,
     Claimed, Claims, Sealing, Gated, Kinds, Books, Touched, Grounds, S,
     vars, claim, locks, inputs, quota, evidence, calls
<1> QED
  BY <1>1, <1>2, <1>3, Steps

(* Whatever the goroutines do, the invariant holds.                            *)
LEMMA InvHolds == Spec => []Inv
<1>1. Init => Inv
  BY InvStarts
<1>2. Inv /\ [Next]_vars => Inv'
  BY InvStays
<1> QED
  BY <1>1, <1>2, PTL DEF Spec

(* Every variable of the session keeps its type: no quota is exceeded, and     *)
(* a call belongs to a session that was created.                               *)
THEOREM TypeCorrect == Spec => []TypeOK
<1>1. Inv => TypeOK
  BY DEF Inv
<1> QED
  BY <1>1, InvHolds, PTL

(* A capture on which an action rests is not closed while it is dispatched     *)
(* (verification.go, prepareActionLineage).                                    *)
THEOREM DispatchIsGrounded == Spec => []DispatchGrounded
<1>1. Inv => DispatchGrounded
  BY DEF Inv, Grounds, DispatchGrounded
<1> QED
  BY <1>1, InvHolds, PTL
-----------------------------------------------------------------------------
(* What a goroutine leaves behind when its action returns.                     *)
LEMMA Returned ==
  ASSUME Inv, NEW p \in Procs, Called(p),
         pc[p] # "idle", pc'[p] = "idle", call[p].kind # "close"
  PROVE  /\ result'[p] \in {"failed", "planned"} => p \notin touched'
         /\ result'[p] = "succeeded" => pressed'[S(p)] = {}
         /\ pc[p] # "queued" /\ S(p) \notin tainted' => pressed'[S(p)] = {}
<1> USE DEF Inv
<1>1. pc[p] \notin Closing /\ S(p) \in Sessions
  BY CallFacts DEF TypeOK, TypeCalls, CallOK, Closes, Request, NoAction
<1>2. /\ result'[p] \in {"failed", "planned"} => p \notin touched'
      /\ result'[p] = "succeeded" => pressed'[S(p)] = {}
  <2> USE <1>1 DEF TypeOK, TypeCalls, Go, inputs
  <2>1. pc[p] \in Committed \ Pressing => pressed[S(p)] = {}
    BY DEF Books
  <2>2. CASE Ask(p) \/ CancelCall(p) \/ \E s \in Sessions : CloseBegins(p, s)
    BY <2>2 DEF Ask, CancelCall, CloseBegins
  <2>3. CASE GiveUp(p) \/ Deny(p) \/ Refuse(p) \/ DryRun(p) \/ VerifyFails(p)
    BY <2>3 DEF GiveUp, Deny, Refuse, DryRun, VerifyFails, Return, Touched, Pressing
  <2>4. CASE Enter(p) \/ Admit(p) \/ Recapture(p) \/ Acquire(p)
    BY <2>4 DEF Enter, Admit, Recapture, Acquire
  <2>5. CASE Dispatch(p)
    BY <2>5, CallFacts DEF Dispatch, Closing
  <2>6. CASE Mutate(p)
    BY <2>1, <2>6 DEF Mutate, Ambiguous, Succeeds, Finish, Return, Touch, Committed, Executing, Pressing
  <2>7. CASE Forbidden(p) \/ MoveFirst(p) \/ Interrupted(p)
    BY <2>7 DEF Forbidden, MoveFirst, Interrupted, Finish, Return, Touch, Touched, Pressing
  <2>8. CASE Click(p)
    BY <2>1, <2>8 DEF Click, ClickResult, Ambiguous, Succeeds, Finish, Return, Touch, Committed, Executing,
                      Pressing
  <2>9. CASE Press(p)
    BY <2>9 DEF Press, PressResult, Finish, Return, Touched, Pressing
  <2>10. CASE Release(p)
    <3>1. pressed[S(p)] = {call[p].input}
      BY <2>10 DEF Release, Books, Pressing
    <3>2. result[p] \in {"succeeded", "unverified"}
      BY <2>10 DEF Release, Touched
    <3>3. \/ Raised(S(p), call[p].input) /\ result'[p] = result[p]
          \/ result'[p] = "unverified"
      BY <2>10 DEF Release, Finish, Return
    <3> QED BY <3>1, <3>2, <3>3 DEF Raised, TypeLedger
  <2>11. CASE Held(p)
    BY <2>11 DEF Held
  <2>12. CASE Verify(p)
    BY <2>1, <2>12 DEF Verify, Return, Committed, Executing, Pressing
  <2>13. CASE CloseWaits(p) \/ CloseEnters(p) \/ CloseLocks(p)
    BY <2>13 DEF CloseWaits, CloseEnters, CloseLocks
  <2>14. CASE Sweep(p) \/ GiveBack(p) \/ AlreadyClosed(p)
    BY <2>14 DEF Sweep, GiveBack, AlreadyClosed, Closing
  <2> QED
    BY <2>2, <2>3, <2>4, <2>5, <2>6, <2>7, <2>8, <2>9, <2>10, <2>11, <2>12, <2>13,
       <2>14 DEF Called, Step
<1>3. pc[p] # "queued" /\ S(p) \notin tainted' => pressed'[S(p)] = {}
  <2> SUFFICES ASSUME pc[p] # "queued", S(p) \notin tainted', pressed'[S(p)] # {}
               PROVE  FALSE
    OBVIOUS
  <2>1. pc[p] \in Inside
    BY <1>1 DEF TypeOK, TypeCalls, Inside, Committed
  <2>2. Books'
    BY StepBooks
  <2>3. PICK q \in Procs : pc'[q] \in Pressing /\ S(q)' = S(p)
    BY <1>1, <2>2 DEF Books
  <2>4. q # p
    BY <2>3 DEF Pressing
  <2>5. pc[q] \in Inside /\ S(q) = S(p)
    BY <2>3, <2>4, LeavesOthers DEF S, Pressing, Inside, Committed, Executing
  <2> QED BY <2>1, <2>4, <2>5, Alone
<1> QED
  BY <1>2, <1>3

(* Whatever leaves an input down outside of the ledger says "unverified".      *)
LEMMA StraysSaid ==
  ASSUME TypeOK, Kinds, NEW p \in Procs, Called(p)
  PROVE  \/ stray' \subseteq stray
         \/ pc[p] \in Executing /\ pc'[p] = "idle" /\ result'[p] = "unverified"
<1>1. CASE inputs' = inputs \/ Recorded(p)
  BY <1>1 DEF inputs, Recorded
<1>2. CASE Mutate(p) \/ Click(p)
  <2>1. pc[p] \in Executing
    BY <1>2 DEF Mutate, Click, Executing
  <2>2. CASE Ambiguous(p)
    BY <2>1, <2>2 DEF Ambiguous, Finish, Return, Go, TypeOK, TypeCalls
  <2>3. CASE ~Ambiguous(p)
    BY <1>2, <2>3 DEF Mutate, Click, ClickResult, Succeeds, Record, inputs
  <2> QED BY <2>2, <2>3
<1>3. CASE Release(p) \/ Sweep(p)
  BY <1>3, LedgerMoves DEF Raised, Retained
<1> QED
  BY <1>1, <1>2, <1>3, LedgerRests, LedgerMoves DEF Called, Step

(* What an action reports when it returns is honest: it says that it failed    *)
(* only when it has not touched the desktop, it says that it succeeded only    *)
(* when everything it pressed is up, and it leaves nothing pressed in a        *)
(* session that is not tainted; what it leaves down outside of the ledger it   *)
(* reports as unverified (session.go, run).                                    *)
THEOREM StatusIsHonest == Spec => HonestStatus
<1> DEFINE Returns ==
      \A p \in Procs : pc[p] # "idle" /\ pc'[p] = "idle" /\ call[p].kind # "close" =>
        /\ result'[p] \in {"failed", "planned"} => p \notin touched'
        /\ result'[p] = "succeeded" => pressed'[S(p)] = {}
        /\ pc[p] # "queued" /\ S(p) \notin tainted' => pressed'[S(p)] = {}
    Says ==
      stray' \subseteq stray \/ \E p \in Procs :
        pc[p] \in Executing /\ pc'[p] = "idle" /\ result'[p] = "unverified"
<1>1. Inv /\ [Next]_vars => Returns
  <2> SUFFICES ASSUME Inv, [Next]_vars, NEW p \in Procs,
                      pc[p] # "idle", pc'[p] = "idle", call[p].kind # "close"
               PROVE  /\ result'[p] \in {"failed", "planned"} => p \notin touched'
                      /\ result'[p] = "succeeded" => pressed'[S(p)] = {}
                      /\ pc[p] # "queued" /\ S(p) \notin tainted' => pressed'[S(p)] = {}
    OBVIOUS
  <2>1. CASE Called(p)
    BY <2>1, Returned
  <2>2. ASSUME NEW q \in Procs \ {p}, Called(q) PROVE FALSE
    BY <2>2, LeavesOthers DEF Inv
  <2>3. CASE Outside \/ UNCHANGED vars
    BY <2>3 DEF Outside, NewSession, LifetimeEnds, Observe, ReleaseObservation,
       CloseBuffer, Lose, calls, vars
  <2> QED BY <2>1, <2>2, <2>3, Steps
<1>2. Inv /\ [Next]_vars => Says
  <2> SUFFICES ASSUME Inv, [Next]_vars PROVE Says
    OBVIOUS
  <2>1. ASSUME NEW p \in Procs, Called(p) PROVE Says
    BY <2>1, StraysSaid DEF Inv
  <2>2. CASE Outside \/ UNCHANGED vars
    BY <2>2 DEF Outside, NewSession, LifetimeEnds, Observe, ReleaseObservation,
       CloseBuffer, Lose, inputs, vars
  <2> QED BY <2>1, <2>2, Steps
<1>3. Inv /\ [Next]_vars => [Returns /\ Says]_vars
  BY <1>1, <1>2
<1> QED
  BY <1>3, InvHolds, PTL DEF Spec, HonestStatus
-----------------------------------------------------------------------------
(* A step of a goroutine is a step of OwnedInputs or leaves it alone.          *)
LEMMA CalledImplements ==
  ASSUME Inv, NEW p \in Procs, Called(p)
  PROVE  [Owned!Next]_(Owned!vars)
<1> USE DEF Inv, Owned!vars
<1>1. CASE claim' = claim /\ inputs' = inputs
  BY <1>1 DEF claim, inputs
<1>2. CASE (Mutate(p) \/ Click(p) \/ Press(p)) /\ inputs' # inputs
  <2>1. /\ owner # None /\ once[owner] # "done" /\ S(p) = owner
        /\ pc[p] \in Committed \ Pressing
    BY <1>2, Mine DEF Mutate, Click, Press, Committed, Executing, Gated, Pressing
  <2>2. owner' = owner /\ once' = once
    BY <1>2 DEF Mutate, Click, Press, claim
  <2>3. call[p].input \in Inputs /\ (Strays(p) \/ Recorded(p))
    BY <1>2, LedgerMoves DEF Strays
  <2>4. call[p].input \notin down \ stray
    BY <2>1 DEF Books
  <2> DEFINE i == call[p].input
  <2>5. CASE Strays(p)
    <3>1. down' \ stray' = down \ stray /\ stray' = stray \cup {i}
      BY <2>4, <2>5 DEF Strays
    <3> QED BY <2>1, <2>2, <2>3, <2>4, <3>1 DEF Owned!Next, Owned!Leave
  <2>6. CASE Recorded(p)
    <3>1. /\ stray' = stray \ {i}
          /\ \/ down' \ stray' = (down \ stray) \cup {i}
             \/ down' \ stray' = (down \ stray) \ {i}
      BY <2>4, <2>6 DEF Recorded
    <3> QED BY <2>1, <2>2, <2>3, <3>1 DEF Owned!Next, Owned!Press, Owned!Raise
  <2> QED BY <2>3, <2>5, <2>6
<1>3. CASE Release(p) \/ Sweep(p)
  <2>1. PICK i \in Inputs : /\ down' \in {down, down \ {i}}
                            /\ \/ stray' = stray
                               \/ down' = down \ {i} /\ stray' = stray \ {i}
    BY <1>3, LedgerMoves, CallFacts DEF Raised, Retained, Sweep, TypeOK, TypeLedger
  <2>2. owner' = owner /\ once' = once
    BY <1>3 DEF Release, Sweep, claim
  <2>3. \/ down' \ stray' = down \ stray /\ stray' = stray
        \/ /\ down' \ stray' = (down \ stray) \ {i}
           /\ stray' \in {stray, stray \ {i}}
    BY <2>1
  <2> QED BY <2>2, <2>3 DEF Owned!Next, Owned!Raise
<1>4. ASSUME NEW s \in Sessions, CloseBegins(p, s) PROVE [Owned!Next]_(Owned!vars)
  BY <1>4 DEF CloseBegins, TypeOK, TypeClaim, inputs
<1>5. CASE CloseEnters(p)
  <2>1. /\ owner' = owner /\ down' = down /\ stray' = stray
        /\ S(p) \in Sessions /\ S(p) # None
    BY <1>5, CallFacts, Names DEF CloseEnters, inputs
  <2>2. CASE S(p) = owner
    BY <1>5, <2>1, <2>2 DEF CloseEnters, TypeOK, TypeClaim, Owned!Next, Owned!Seal
  <2>3. CASE S(p) # owner
    BY <1>5, <2>1, <2>3 DEF CloseEnters, TypeOK, TypeClaim
  <2> QED BY <2>2, <2>3
<1>6. CASE GiveBack(p)
  <2>1. S(p) = owner /\ once[owner] = "done" /\ owner # None
    BY <1>6, CallFacts, Names DEF GiveBack, Claimed, Claims, Sealing
  <2>2. down \ stray = {}
    BY <1>6, <2>1 DEF GiveBack, Books
  <2>3. owner' = None /\ down' = down /\ stray' = stray
    BY <1>6, <2>1 DEF GiveBack, inputs
  <2> QED BY <2>1, <2>2, <2>3 DEF Owned!Next, Owned!GiveBack
<1>7. \/ inputs' = inputs \/ Mutate(p) \/ Click(p) \/ Press(p)
      \/ Release(p) \/ Sweep(p)
  BY LedgerRests DEF Called, Step
<1>8. (Mutate(p) \/ Click(p) \/ Press(p)) => claim' = claim
  BY DEF Mutate, Click, Press
<1> QED
  BY <1>1, <1>2, <1>3, <1>4, <1>5, <1>6, <1>7, <1>8, ClaimRests

(* The session implements OwnedInputs: one owner of the desktop's input, no    *)
(* press outside of its claim or after its Close has passed the gate, and the  *)
(* claim given back only when everything that an action did not report as      *)
(* unverified and leave down is up (session.go, NewSession, execute, Close).   *)
THEOREM SessionImplementsOwnedInputs == Spec => ImplementsOwnedInputs
<1>1. Init => Owned!Init
  BY DEF Init, Owned!Init
<1>2. Inv /\ [Next]_vars => [Owned!Next]_(Owned!vars)
  <2> SUFFICES ASSUME Inv, [Next]_vars PROVE [Owned!Next]_(Owned!vars)
    OBVIOUS
  <2>1. ASSUME NEW p \in Procs, Called(p) PROVE [Owned!Next]_(Owned!vars)
    BY <2>1, CalledImplements
  <2>2. ASSUME NEW s \in Sessions, NewSession(s) PROVE [Owned!Next]_(Owned!vars)
    <3>1. once[s] = "no" /\ s # None
      BY <2>2, Names DEF NewSession, Inv, Claimed, Claims
    <3> QED
      BY <2>2, <3>1 DEF NewSession, inputs, Owned!Next, Owned!Claim, Owned!vars
  <2>3. ASSUME NEW i \in Inputs, Lose(i) PROVE [Owned!Next]_(Owned!vars)
    BY <2>3 DEF Lose, claim, Owned!Next, Owned!Raise
  <2>4. CASE \/ UNCHANGED vars
             \/ Outside /\ (~\E s \in Sessions : NewSession(s)) /\ ~\E i \in Inputs : Lose(i)
    BY <2>4 DEF Outside, LifetimeEnds, Observe, ReleaseObservation, CloseBuffer,
       vars, claim, inputs, Owned!vars
  <2> QED BY <2>1, <2>2, <2>3, <2>4, Steps
<1> QED
  BY <1>1, <1>2, InvHolds, PTL DEF Spec, ImplementsOwnedInputs, Owned!Spec
=============================================================================
