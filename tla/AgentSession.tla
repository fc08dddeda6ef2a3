---------------------------- MODULE AgentSession ----------------------------
(***************************************************************************)
(* The agent session of agent/session.go: the process-wide claim on the    *)
(* desktop's input, the gate that serialises actions, the ledger of pressed *)
(* inputs with its taint, the capture lineage of an action, and Close,     *)
(* which may fail and be called again.                                      *)
(*                                                                         *)
(* A process is a goroutine that runs an action (Execute, DryRun) or Close. *)
(* One step is what happens between two driver calls, context checks or    *)
(* lock operations.  Simplifications:                                       *)
(*   - a move, a text and an activation are one mutation ("plain"); a      *)
(*     scroll is a move and one wheel event, a drag has one interpolated   *)
(*     move: more of them repeat the same step;                             *)
(*   - the input of a text or a scroll is the key or the wheel button that  *)
(*     it may leave down when the driver fails in the middle of it;         *)
(*   - policy, capability, rate, targets and audit are reasons to refuse   *)
(*     that may arise for any request, so Deny and Refuse are always       *)
(*     possible, and only the refusals that depend on state are guards;     *)
(*   - pressedInputs is a set: an action starts only when it is empty;     *)
(*   - views, recorder and capability leases close in the same critical    *)
(*     section as observations and are left to modules of their own;       *)
(*   - the name of a closed observation stands for the next one as well;     *)
(*   - an audit error after the dispatch changes the error a call returns, *)
(*     not its status, and is left out.                                     *)
(***************************************************************************)
EXTENDS Naturals, FiniteSets

CONSTANTS
    Procs,         \* goroutines
    Callers,       \* those of them that run actions; any may call Close
    Sessions,      \* sessions the process may create, each of them once
    Buttons, Keys, \* inputs that can be held down
    Observations,  \* observations a session may retain
    Actions,       \* what may be asked of a session
    None,
    MaxActions,    \* policy: dispatches
    MaxReads,      \* policy: observations of each session
    Attempts       \* policy: captures of one verification

Inputs == Buttons \cup Keys

(* validateRequest, for a dry run or a dispatch.                             *)
WellFormed(a) ==
    /\ a \in [kind : {"plain", "scroll", "click", "drag", "chord"},
              input : Inputs \cup {None}, dry : BOOLEAN,
              pre : Observations \cup {None}, verify : BOOLEAN]
    /\ a.kind \in {"click", "drag"} => a.input \in Buttons
    /\ a.kind = "chord" => a.input \in Keys
    /\ a.kind = "plain" => a.input \in Keys \cup {None}
    /\ a.kind = "scroll" => a.input \in Buttons \cup {None}
    /\ a.verify => a.pre # None

ASSUME SessionAssumption ==
    /\ Callers \subseteq Procs
    /\ MaxActions \in Nat /\ MaxReads \in [Sessions -> Nat] /\ Attempts \in Nat
    /\ None \notin Procs \cup Sessions \cup Buttons \cup Keys \cup Observations
    /\ Buttons \cap Keys = {}
    /\ \A a \in Actions : WellFormed(a)

VARIABLES
    owner,     \* activeOwner
    born,      \* sessions that were created
    over,      \* sessions whose context is done
    once,      \* closeOnce of a session: "no", "busy" or "done"
    complete,  \* sessions with cleanupComplete
    gate,      \* who has taken the token of actionGate
    closeMu,   \* who has closeMu
    dispatchMu,\* who has dispatchMu
    pressed,   \* pressedInputs of a session
    tainted,   \* sessions with inputTainted
    down,      \* driver: inputs that are down on behalf of a session
    stray,     \* history: those that a failed action left down and nobody recorded
    used,      \* actions a session has dispatched
    reads,     \* usedObservations
    obs,       \* an observation: [of, state]
    use,       \* who has the lock of an observation's captureBuffer
    pc, call,  \* where a process is, and what it was called with
    cancelled, \* processes whose context is done
    tries,     \* captures of the verification under way
    touched,   \* history: the call may have changed the desktop
    result     \* status of the process's last action

claim == <<owner, born, over, once, complete>>
locks == <<gate, closeMu, dispatchMu>>
inputs == <<pressed, tainted, down, stray>>
quota == <<used, reads>>
evidence == <<obs, use>>
calls == <<pc, call, cancelled, tries, touched, result>>
vars == <<claim, locks, inputs, quota, evidence, calls>>

Request(s, a) == [session |-> s, kind |-> a.kind, input |-> a.input,
                  dry |-> a.dry, pre |-> a.pre, verify |-> a.verify]
NoAction(k) == [kind |-> k, input |-> None, dry |-> FALSE, pre |-> None, verify |-> FALSE]
NoCall == Request(None, NoAction("none"))

Init ==
    /\ owner = None /\ born = {} /\ over = {} /\ complete = {}
    /\ once = [s \in Sessions |-> "no"]
    /\ gate = [s \in Sessions |-> None]
    /\ closeMu = [s \in Sessions |-> None]
    /\ dispatchMu = [s \in Sessions |-> None]
    /\ pressed = [s \in Sessions |-> {}]
    /\ tainted = {} /\ down = {} /\ stray = {}
    /\ used = [s \in Sessions |-> 0]
    /\ reads = [s \in Sessions |-> 0]
    /\ obs = [o \in Observations |-> [of |-> None, state |-> "closed"]]
    /\ use = [o \in Observations |-> None]
    /\ pc = [p \in Procs |-> "idle"]
    /\ call = [p \in Procs |-> NoCall]
    /\ cancelled = {} /\ touched = {}
    /\ tries = [p \in Procs |-> 0]
    /\ result = [p \in Procs |-> "none"]

Go(p, l) == pc' = [pc EXCEPT ![p] = l]
S(p) == call[p].session
Stopped(p) == p \in cancelled \/ S(p) \in over
-----------------------------------------------------------------------------
(* The session and its evidence.                                             *)

(* NewSession; when there is an owner it fails and leaves nothing behind. The *)
(* name of the new session does not matter.                                  *)
NewSession(s) ==
    /\ s \notin born /\ owner = None
    /\ s = CHOOSE t \in Sessions \ born : TRUE
    /\ owner' = s
    /\ born' = born \cup {s}
    /\ UNCHANGED <<over, once, complete, locks, inputs, quota, evidence, calls>>

(* The session's deadline.                                                   *)
LifetimeEnds(s) ==
    /\ s \in born \ over
    /\ over' = over \cup {s}
    /\ UNCHANGED <<owner, born, once, complete, locks, inputs, quota, evidence, calls>>

CancelCall(p) ==
    /\ pc[p] # "idle" /\ call[p].kind # "close" /\ p \notin cancelled
    /\ cancelled' = cancelled \cup {p}
    /\ UNCHANGED <<claim, locks, inputs, quota, evidence, pc, call, tries, touched, result>>

(* A new identity is one that no call refers to, except a verification, which *)
(* does not need the old evidence any more.                                  *)
Retain(s, o) ==
    /\ obs[o].state = "closed"
    /\ \A p \in Procs : call[p].pre = o => pc[p] = "verifying"
    /\ obs' = [obs EXCEPT ![o] = [of |-> s, state |-> "live"]]

(* Observe has the gate from beginning to end.                               *)
Observe(s, o) ==
    /\ s \in born \ over /\ gate[s] = None
    /\ reads[s] < MaxReads[s]
    /\ reads' = [reads EXCEPT ![s] = @ + 1]
    /\ Retain(s, o)
    /\ UNCHANGED <<claim, locks, inputs, used, use, calls>>

(* ReleaseObservation forgets the record and then closes its buffer.         *)
ReleaseObservation(o) ==
    /\ obs[o].state = "live"
    /\ obs' = [obs EXCEPT ![o].state = "dropped"]
    /\ UNCHANGED <<claim, locks, inputs, quota, use, calls>>

(* The close of a buffer waits for whoever uses it.                          *)
CloseBuffer(o) ==
    /\ obs[o].state \in {"live", "dropped"}
    /\ use[o] = None
    /\ obs' = [obs EXCEPT ![o].state = "closed"]
    /\ UNCHANGED <<claim, locks, inputs, quota, use, calls>>

(* The backend loses what it held, with the session of a portal for instance. *)
Lose(i) ==
    /\ i \in down
    /\ down' = down \ {i}
    /\ stray' = stray \ {i}
    /\ UNCHANGED <<claim, locks, pressed, tainted, quota, evidence, calls>>
-----------------------------------------------------------------------------
(* An action before its dispatch.                                            *)

Ask(p) ==
    /\ pc[p] = "idle" /\ p \in Callers
    /\ \E s \in born, a \in Actions : call' = [call EXCEPT ![p] = Request(s, a)]
    /\ Go(p, "queued")
    /\ touched' = touched \ {p}
    /\ tries' = [tries EXCEPT ![p] = 0]
    /\ result' = [result EXCEPT ![p] = "none"]
    /\ UNCHANGED <<claim, locks, inputs, quota, evidence, cancelled>>

(* The end of run: the lineage is released and the gate returned.             *)
Return(p, status) ==
    /\ Go(p, "idle")
    /\ result' = [result EXCEPT ![p] = status]
    /\ call' = [call EXCEPT ![p] = NoCall]
    /\ gate' = [gate EXCEPT ![S(p)] = IF @ = p THEN None ELSE @]
    /\ dispatchMu' = [dispatchMu EXCEPT ![S(p)] = IF @ = p THEN None ELSE @]
    /\ use' = [o \in Observations |-> IF use[o] = p THEN None ELSE use[o]]
    /\ cancelled' = cancelled \ {p}
    /\ UNCHANGED <<closeMu, tries>>

GiveUp(p) ==
    /\ pc[p] = "queued" /\ Stopped(p)
    /\ Return(p, "failed")
    /\ UNCHANGED <<claim, inputs, quota, obs, touched>>

Enter(p) ==
    /\ pc[p] = "queued" /\ gate[S(p)] = None
    /\ gate' = [gate EXCEPT ![S(p)] = p]
    /\ Go(p, "admitted")
    /\ UNCHANGED <<claim, closeMu, dispatchMu, inputs, quota, evidence,
                   call, cancelled, tries, touched, result>>

(* Policy, capability, rate, audit, targets, or the context.                 *)
Deny(p) ==
    /\ pc[p] = "admitted"
    /\ Return(p, "failed")
    /\ UNCHANGED <<claim, inputs, quota, obs, touched>>

(* The capture fails, the region has changed, the evidence was closed, or the *)
(* context is done.                                                          *)
Refuse(p) ==
    /\ pc[p] \in {"comparing", "ready"}
    /\ Return(p, "failed")
    /\ UNCHANGED <<claim, inputs, quota, obs, touched>>

Admit(p) ==
    /\ pc[p] = "admitted"
    /\ ~Stopped(p) /\ S(p) \notin tainted /\ used[S(p)] < MaxActions
    /\ call[p].pre = None
    /\ Go(p, "ready")
    /\ UNCHANGED <<claim, locks, inputs, quota, evidence, call, cancelled, tries, touched, result>>

Captures(r) == 1 + IF r.verify /\ ~r.dry THEN Attempts ELSE 0

(* prepareActionLineage up to its new capture of the region.                  *)
Recapture(p) ==
    /\ pc[p] = "admitted"
    /\ ~Stopped(p) /\ S(p) \notin tainted /\ used[S(p)] < MaxActions
    /\ call[p].pre # None
    /\ obs[call[p].pre] = [of |-> S(p), state |-> "live"]
    /\ call[p].verify => Attempts > 0
    /\ reads[S(p)] + Captures(call[p]) <= MaxReads[S(p)]
    /\ reads' = [reads EXCEPT ![S(p)] = @ + 1]
    /\ Go(p, "comparing")
    /\ UNCHANGED <<claim, locks, inputs, used, evidence, call, cancelled, tries, touched, result>>

(* Fault: the buffer is not looked at again after the capture.                *)
AcquireUnchecked(o) == use[o] = None

(* acquireUse                                                                 *)
Acquirable(o) == obs[o].state \in {"live", "dropped"} /\ use[o] = None

(* The region is unchanged; the buffer stays open until the dispatch is done. *)
Acquire(p) ==
    /\ pc[p] = "comparing"
    /\ Acquirable(call[p].pre)
    /\ use' = [use EXCEPT ![call[p].pre] = p]
    /\ Go(p, "ready")
    /\ UNCHANGED <<claim, locks, inputs, quota, obs, call, cancelled, tries, touched, result>>

DryRun(p) ==
    /\ pc[p] = "ready" /\ call[p].dry /\ ~Stopped(p)
    /\ Return(p, "planned")
    /\ UNCHANGED <<claim, inputs, quota, obs, touched>>

(* executeAuthorized: the context is consulted again under dispatchMu.        *)
Dispatch(p) ==
    /\ pc[p] = "ready" /\ ~call[p].dry
    /\ dispatchMu[S(p)] = None
    /\ ~Stopped(p)
    /\ dispatchMu' = [dispatchMu EXCEPT ![S(p)] = p]
    /\ used' = [used EXCEPT ![S(p)] = @ + 1]
    /\ Go(p, call[p].kind)
    /\ UNCHANGED <<claim, gate, closeMu, inputs, reads, evidence,
                   call, cancelled, tries, touched, result>>
-----------------------------------------------------------------------------
(* The dispatch, under the gate and dispatchMu. The driver's calls return; a *)
(* mutation that reports an error may have been applied all the same.        *)

Executing == {"plain", "scroll", "wheel", "click", "drag", "moved", "holding",
              "chord", "releasing"}

Touch(p) == touched' = touched \cup {p}

(* The end of executeAuthorized: the lineage is released, and the gate is    *)
(* returned unless the effect is still to be verified.                       *)
Finish(p, status) ==
    IF status = "succeeded" /\ call[p].verify
    THEN /\ Go(p, "verifying")
         /\ dispatchMu' = [dispatchMu EXCEPT ![S(p)] = None]
         /\ use' = [use EXCEPT ![call[p].pre] = None]
         /\ UNCHANGED <<gate, closeMu, call, cancelled, tries, result>>
    ELSE Return(p, status)

(* Of execute, executeScroll, executeDrag and executeKeyChord: the bounds of  *)
(* the display, the context or the target's title forbid the action.         *)
Forbidden(p) ==
    /\ pc[p] \in {"plain", "scroll", "drag", "chord"}
    /\ Finish(p, "failed")
    /\ UNCHANGED <<claim, inputs, quota, obs, touched>>

(* ambiguousMutationError: the mutation failed and the status will say so. The *)
(* driver may have failed between a press and its release; the ledger does    *)
(* not learn of it.                                                           *)
Ambiguous(p) ==
    /\ Finish(p, "unverified")
    /\ \/ UNCHANGED <<down, stray>>
       \/ /\ call[p].input # None
          /\ down' = down \cup {call[p].input}
          /\ stray' = stray \cup {call[p].input}
    /\ UNCHANGED <<pressed, tainted>>

Succeeds(p) == Finish(p, "succeeded") /\ UNCHANGED inputs

(* A move, a text, an activation, or the wheel event of a scroll.            *)
Mutate(p) ==
    /\ pc[p] \in {"plain", "wheel"}
    /\ Touch(p)
    /\ Succeeds(p) \/ Ambiguous(p)
    /\ UNCHANGED <<claim, quota, obs>>

(* The move before a wheel event or before the press of a drag.              *)
MoveFirst(p) ==
    /\ pc[p] \in {"scroll", "drag"}
    /\ Touch(p)
    /\ \/ /\ Go(p, IF pc[p] = "scroll" THEN "wheel" ELSE "moved")
          /\ UNCHANGED <<locks, use, call, cancelled, tries, result>>
       \/ Finish(p, "unverified")
    /\ UNCHANGED <<claim, inputs, quota, obs>>

(* Fault: the context is done between two mutations, and only that is said.   *)
InterruptedPlainly(p) ==
    /\ pc[p] \in {"wheel", "moved"} /\ Stopped(p)
    /\ Finish(p, "failed")
    /\ UNCHANGED <<claim, inputs, quota, obs, touched>>

(* The context is done between two mutations.                                *)
Interrupted(p) ==
    /\ pc[p] \in {"wheel", "moved"} /\ Stopped(p)
    /\ Finish(p, "unverified")
    /\ UNCHANGED <<claim, inputs, quota, obs, touched>>

Record(p) ==
    /\ pressed' = [pressed EXCEPT ![S(p)] = @ \cup {call[p].input}]
    /\ stray' = stray \ {call[p].input}

(* clickMutationError: a click whose error says that the release of its button *)
(* is pending goes to the ledger.                                            *)
ClickResult(p) ==
    /\ Touch(p)
    /\ \/ Succeeds(p)
       \/ Ambiguous(p)
       \/ /\ Record(p)
          /\ tainted' = tainted \cup {S(p)}
          /\ down' \in {down, down \cup {call[p].input}}
          /\ Finish(p, "unverified")

Click(p) ==
    /\ pc[p] = "click"
    /\ ClickResult(p)
    /\ UNCHANGED <<claim, quota, obs>>

(* Fault: a press that reports an error is not recorded.                      *)
PressRecordedLate(p) ==
    \/ /\ Touch(p) /\ Record(p)
       /\ down' = down \cup {call[p].input}
       /\ Go(p, "holding")
       /\ UNCHANGED <<locks, tainted, use, call, cancelled, tries, result>>
    \/ /\ Touch(p)
       /\ down' \in {down, down \cup {call[p].input}}
       /\ Finish(p, "unverified")
       /\ UNCHANGED <<pressed, tainted, stray>>

(* pressMouse, pressKey: recorded before the call, and taken back only when   *)
(* the backend says that it applied nothing. That is no mutation, but a drag *)
(* has moved the pointer already.                                            *)
PressResult(p) ==
    \/ /\ Finish(p, IF pc[p] = "chord" THEN "failed" ELSE "unverified")
       /\ UNCHANGED <<inputs, touched>>
    \/ /\ Touch(p) /\ Record(p)
       /\ \/ /\ down' = down \cup {call[p].input}
             /\ Go(p, "holding")
             /\ UNCHANGED result
          \/ /\ down' \in {down, down \cup {call[p].input}}
             /\ Go(p, "releasing")
             /\ result' = [result EXCEPT ![p] = "unverified"]
       /\ UNCHANGED <<locks, tainted, use, call, cancelled, tries>>

Press(p) ==
    /\ pc[p] \in {"moved", "chord"}
    /\ ~Stopped(p)
    /\ PressResult(p)
    /\ UNCHANGED <<claim, quota, obs>>

(* A drag moves on, unless the context is done or the move fails; a chord     *)
(* consults the context once more.                                           *)
Held(p) ==
    /\ pc[p] = "holding"
    /\ Go(p, "releasing")
    /\ \E status \in {"succeeded", "unverified"} :
        /\ call[p].kind = "chord" => (status = "unverified" <=> Stopped(p))
        /\ result' = [result EXCEPT ![p] = status]
    /\ UNCHANGED <<claim, locks, inputs, quota, evidence, call, cancelled, tries, touched>>

(* releasePressedInput of session s: the input is up, or the backend does not *)
(* know it any more, and it leaves the ledger.                               *)
Raised(s, i) ==
    /\ down' = down \ {i}
    /\ stray' = stray \ {i}
    /\ pressed' = [pressed EXCEPT ![s] = @ \ {i}]
    /\ tainted' = IF pressed[s] \ {i} = {} THEN tainted \ {s} ELSE tainted

(* The release reports an error: the input stays in the ledger.              *)
Retained(s, i) ==
    /\ tainted' = tainted \cup {s}
    /\ down' \in {down, down \ {i}}
    /\ UNCHANGED <<pressed, stray>>

(* The deferred release of a drag or a chord.                                *)
Release(p) ==
    /\ pc[p] = "releasing"
    /\ \/ /\ Raised(S(p), call[p].input)
          /\ Finish(p, result[p])
       \/ /\ Retained(S(p), call[p].input)
          /\ Finish(p, "unverified")
    /\ UNCHANGED <<claim, quota, obs, touched>>

(* verifyAction: one capture, which is retained when it matches or is the last. *)
Verify(p) ==
    /\ pc[p] = "verifying"
    /\ reads[S(p)] < MaxReads[S(p)]
    /\ reads' = [reads EXCEPT ![S(p)] = @ + 1]
    /\ \/ /\ tries[p] + 1 < Attempts
          /\ tries' = [tries EXCEPT ![p] = @ + 1]
          /\ UNCHANGED <<locks, evidence, pc, call, cancelled, result>>
       \/ /\ \E o \in Observations : Retain(S(p), o)
          /\ \/ Return(p, "succeeded")
             \/ tries[p] + 1 = Attempts /\ Return(p, "unverified")
    /\ UNCHANGED <<claim, inputs, used, touched>>

(* A capture fails, or the context is done.                                  *)
VerifyFails(p) ==
    /\ pc[p] = "verifying"
    /\ Return(p, "unverified")
    /\ UNCHANGED <<claim, inputs, quota, obs, touched>>
-----------------------------------------------------------------------------
(* Close. closeOnce seals the session and waits for the action under way; the *)
(* cleanup after it may be tried again.                                      *)

CloseBegins(p, s) ==
    /\ pc[p] = "idle" /\ s \in born
    /\ call' = [call EXCEPT ![p] = Request(s, NoAction("close"))]
    /\ result' = [result EXCEPT ![p] = "none"]
    /\ Go(p, CASE once[s] = "no" -> "closing"
               [] once[s] = "busy" -> "waiting"
               [] OTHER -> "cleaning")
    /\ once' = [once EXCEPT ![s] = IF @ = "no" THEN "busy" ELSE @]
    /\ over' = over \cup {s}
    /\ touched' = touched \ {p}
    /\ tries' = [tries EXCEPT ![p] = 0]
    /\ UNCHANGED <<owner, born, complete, locks, inputs, quota, evidence, cancelled>>

(* Another Close is inside closeOnce.                                        *)
CloseWaits(p) ==
    /\ pc[p] = "waiting" /\ once[S(p)] = "done"
    /\ Go(p, "cleaning")
    /\ UNCHANGED <<claim, locks, inputs, quota, evidence, call, cancelled, tries, touched, result>>

(* With the token of the gate: closeObservations.                            *)
CloseEnters(p) ==
    /\ pc[p] = "closing" /\ gate[S(p)] = None
    /\ obs' = [o \in Observations |->
                 IF obs[o] = [of |-> S(p), state |-> "live"]
                 THEN [obs[o] EXCEPT !.state = "closed"] ELSE obs[o]]
    /\ once' = [once EXCEPT ![S(p)] = "done"]
    /\ Go(p, "cleaning")
    /\ UNCHANGED <<owner, born, over, complete, locks, inputs, quota, use,
                   call, cancelled, tries, touched, result>>

CloseLocks(p) ==
    /\ pc[p] = "cleaning"
    /\ closeMu[S(p)] = None /\ dispatchMu[S(p)] = None
    /\ closeMu' = [closeMu EXCEPT ![S(p)] = p]
    /\ dispatchMu' = [dispatchMu EXCEPT ![S(p)] = p]
    /\ Go(p, "sweeping")
    /\ UNCHANGED <<claim, gate, inputs, quota, evidence, call, cancelled, tries, touched, result>>

(* Fault: the locks are released when the cleanup is complete.                *)
UnlockAtTheEnd(p) ==
    /\ IF pressed[S(p)] # {} THEN UNCHANGED <<closeMu, dispatchMu>>
       ELSE /\ closeMu' = [closeMu EXCEPT ![S(p)] = None]
            /\ dispatchMu' = [dispatchMu EXCEPT ![S(p)] = None]
    /\ Go(p, "idle")
    /\ call' = [call EXCEPT ![p] = NoCall]
    /\ UNCHANGED <<gate, cancelled, tries, touched, result>>

Unlock(p) ==
    /\ closeMu' = [closeMu EXCEPT ![S(p)] = None]
    /\ dispatchMu' = [dispatchMu EXCEPT ![S(p)] = None]
    /\ Go(p, "idle")
    /\ call' = [call EXCEPT ![p] = NoCall]
    /\ UNCHANGED <<gate, cancelled, tries, touched, result>>

(* releaseAllInputs, one input at a time; it gives up at the first that stays. *)
Sweep(p) ==
    /\ pc[p] = "sweeping" /\ S(p) \notin complete
    /\ \E i \in pressed[S(p)] :
        \/ /\ Raised(S(p), i)
           /\ UNCHANGED <<locks, calls>>
        \/ /\ Retained(S(p), i)
           /\ Unlock(p)
    /\ UNCHANGED <<claim, quota, evidence>>

(* Everything is up: the cleanup is complete and the claim given back.        *)
GiveBack(p) ==
    /\ pc[p] = "sweeping" /\ S(p) \notin complete
    /\ pressed[S(p)] = {}
    /\ complete' = complete \cup {S(p)}
    /\ owner' = IF owner = S(p) THEN None ELSE owner
    /\ Unlock(p)
    /\ UNCHANGED <<born, over, once, inputs, quota, evidence>>

AlreadyClosed(p) ==
    /\ pc[p] = "sweeping" /\ S(p) \in complete
    /\ Unlock(p)
    /\ UNCHANGED <<claim, inputs, quota, evidence>>
-----------------------------------------------------------------------------
(* What a process does by itself once it was called.                         *)
Step(p) ==
    \/ GiveUp(p) \/ Enter(p) \/ Deny(p) \/ Refuse(p) \/ Admit(p) \/ Recapture(p)
    \/ Acquire(p) \/ DryRun(p) \/ Dispatch(p)
    \/ Forbidden(p) \/ Mutate(p) \/ MoveFirst(p) \/ Interrupted(p)
    \/ Click(p) \/ Press(p) \/ Held(p) \/ Release(p)
    \/ Verify(p) \/ VerifyFails(p)
    \/ CloseWaits(p) \/ CloseEnters(p) \/ CloseLocks(p)
    \/ Sweep(p) \/ GiveBack(p) \/ AlreadyClosed(p)

Next ==
    \/ \E s \in Sessions : NewSession(s) \/ LifetimeEnds(s)
    \/ \E s \in Sessions, o \in Observations : Observe(s, o)
    \/ \E o \in Observations : ReleaseObservation(o) \/ CloseBuffer(o)
    \/ \E i \in Inputs : Lose(i)
    \/ \E p \in Procs :
        \/ Ask(p) \/ CancelCall(p) \/ Step(p)
        \/ \E s \in Sessions : CloseBegins(p, s)

Spec == Init /\ [][Next]_vars

(* Driver calls and captures return; the token of the gate and the mutexes   *)
(* are handed over in the order in which they were asked for.                 *)
LiveSpec ==
    /\ Spec
    /\ \A p \in Procs :
        /\ WF_vars(Step(p))
        /\ SF_vars(Enter(p) \/ CloseEnters(p) \/ CloseLocks(p))
-----------------------------------------------------------------------------
(* What the pc of a process says of its call.                                *)
Closing == {"closing", "waiting", "cleaning", "sweeping"}
Closes == {Request(s, NoAction("close")) : s \in Sessions}
Requests == {Request(s, a) : s \in Sessions, a \in Actions}

CallOK(p) ==
    /\ pc[p] = "idle" => call[p] = NoCall
    /\ pc[p] \in Closing => call[p] \in Closes /\ S(p) \in born
    /\ pc[p] \notin Closing \cup {"idle"} => call[p] \in Requests /\ S(p) \in born

TypeClaim ==
    /\ owner \in Sessions \cup {None}
    /\ born \subseteq Sessions /\ over \subseteq born /\ complete \subseteq born
    /\ once \in [Sessions -> {"no", "busy", "done"}]

TypeLocks ==
    /\ gate \in [Sessions -> Procs \cup {None}]
    /\ closeMu \in [Sessions -> Procs \cup {None}]
    /\ dispatchMu \in [Sessions -> Procs \cup {None}]
    /\ use \in [Observations -> Procs \cup {None}]

TypeLedger ==
    /\ pressed \in [Sessions -> SUBSET Inputs]
    /\ tainted \subseteq Sessions /\ down \subseteq Inputs /\ stray \subseteq Inputs

TypeQuota ==
    /\ used \in [Sessions -> 0 .. MaxActions]
    /\ reads \in [Sessions -> Nat]
    /\ \A s \in Sessions : reads[s] <= MaxReads[s]
    /\ obs \in [Observations -> [of : Sessions \cup {None},
                                 state : {"live", "dropped", "closed"}]]
    /\ tries \in [Procs -> 0 .. Attempts]

TypeCalls ==
    /\ pc \in [Procs -> Executing \cup Closing \cup
                 {"idle", "queued", "admitted", "comparing", "ready", "verifying"}]
    /\ call \in [Procs -> {NoCall} \cup Closes \cup Requests]
    /\ \A p \in Procs : CallOK(p)
    /\ cancelled \subseteq Procs /\ touched \subseteq Procs
    /\ result \in [Procs -> {"none", "failed", "planned", "succeeded", "unverified"}]

TypeOK == TypeClaim /\ TypeLocks /\ TypeLedger /\ TypeQuota /\ TypeCalls

(* The session implements what OwnedInputs promises of a process that acts   *)
(* for agents: one owner; no press outside of a claim or after its Close has *)
(* passed the gate; the claim is given back only when every input of the      *)
(* ledger is up again, however often a release or a Close failed before.      *)
(* Only what a failed text, wheel event or click left down may stay down      *)
(* (session.go, NewSession, execute and Close).                               *)
Owned == INSTANCE OwnedInputs WITH
    sealed <- owner # None /\ once[owner] = "done",
    held <- down \ stray,
    left <- stray
ImplementsOwnedInputs == Owned!Spec

(* What a call reports when it returns is honest: "failed" and "planned" mean *)
(* that the desktop was not touched, so that the call may be repeated; after *)
(* "succeeded" nothing is left in the ledger, and what an admitted action     *)
(* leaves in it taints the session. What is left down outside of the ledger   *)
(* is left by an action that reports "unverified" (session.go, run:           *)
(* errPartialAction, ErrInputCleanup).                                       *)
HonestStatus ==
    [][/\ \A p \in Procs : pc[p] # "idle" /\ pc'[p] = "idle" /\ call[p].kind # "close" =>
           /\ result'[p] \in {"failed", "planned"} => p \notin touched'
           /\ result'[p] = "succeeded" => pressed'[S(p)] = {}
           /\ pc[p] # "queued" /\ S(p) \notin tainted' => pressed'[S(p)] = {}
       /\ stray' \subseteq stray \/ \E p \in Procs :
              pc[p] \in Executing /\ pc'[p] = "idle" /\ result'[p] = "unverified"]_vars

(* While an action is dispatched on the strength of an observation, nobody    *)
(* can close the capture that was compared (verification.go,                  *)
(* prepareActionLineage: Close comes before the acquisition and rejects the  *)
(* action, or waits for the dispatch).                                        *)
DispatchGrounded ==
    \A p \in Procs : pc[p] \in Executing /\ call[p].pre # None =>
        obs[call[p].pre].state \in {"live", "dropped"}

(* Every call returns, an action and a Close, though other calls keep the     *)
(* session busy.                                                             *)
CallsReturn ==
    \A p \in Procs : (pc[p] # "idle") ~> (pc[p] = "idle")
=============================================================================
