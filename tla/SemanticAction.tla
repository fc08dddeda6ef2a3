---------------------------- MODULE SemanticAction ----------------------------
(* Semantic actions of an agent session: observations, the single-use          *)
(* capability leases issued from them, and ActUIElement, which turns a lease   *)
(* into at most one native action (src/agent/capability_lease.go,              *)
(* element_action.go, target_resolver.go, observation.go).                     *)
(*                                                                             *)
(* Calls run concurrently.  ResolveUITarget, ActUIElement, InspectUI and View  *)
(* serialise on the action gate; ReleaseObservation and the clock do not.      *)
(* One action is one critical section, or one native or audit call.            *)
(*                                                                             *)
(* Abstracted: a request fits its lease or does not (action, postcondition,    *)
(* value, policy); a refusal for any other reason is one nondeterministic      *)
(* step; InspectUI and View are one step, since they hold the gate; reads      *)
(* stands for the observation and the query quota, which move together here.   *)
EXTENDS Naturals, FiniteSets

CONSTANTS
    Callers,      \* goroutines of the application
    Leases,       \* bearer tokens, each issued at most once
    Trees,        \* identities of accessibility observations
    Images,       \* identities of image observations
    None,         \* no lease, no observation, nobody
    Closer,       \* the goroutine that closes the session
    RequireLease, \* policy: an action without a lease is refused
    MaxLeases, MaxActions, MaxReads,   \* policy quotas
    FinalProbes,  \* condition checks the native final gate may make
    Attempts,     \* condition checks after the dispatch
    EvidenceAge,  \* how long an image is good evidence
    Durations,    \* lifetimes a lease may be asked for
    MaxTime       \* bound on the clock

ASSUME SemanticAssumption ==
    /\ MaxLeases \in Nat /\ MaxActions \in Nat /\ MaxReads \in Nat
    /\ FinalProbes \in Nat /\ Attempts \in Nat /\ EvidenceAge \in Nat
    /\ MaxTime \in Nat /\ Durations \subseteq Nat
    /\ RequireLease \in BOOLEAN
ASSUME NameAssumption ==
    /\ None \notin Callers \cup Leases \cup Trees \cup Images
    /\ Closer \notin Callers \cup {None}
    /\ Trees \cap Images = {}

Observations == Trees \cup Images

VARIABLES
    \* observations
    live,      \* s.observations: the observations the session retains
    shown,     \* identities given out so far
    usable,    \* images whose pixels are not wiped
    born,      \* born[i]: when image i was taken
    \* leases
    status,    \* status[l]: "absent" when the session has no record of l
    tree,      \* tree[l]: the observation whose element l acts on
    evidence,  \* evidence[l]: the image l was resolved with, or None
    expires,   \* expires[l]: the end of l
    closed,    \* s.closedLeases
    known,     \* tokens a caller has been given
    \* the session
    now,
    gate,      \* who holds the action gate, or None
    over,      \* s.ctx is done
    closing,   \* how far Close is
    used,      \* s.used
    reads,     \* s.usedObservations
    \* the calls
    pc,
    tok,       \* the lease the request presents, or None
    wish,      \* the tree the request is about
    image,     \* the image a resolution uses as evidence, or None
    post,      \* the request has a postcondition
    booked,    \* leaseReservation.active
    count,     \* final-gate probes, then condition checks after the dispatch
    proof,     \* proof.Lease.Status
    \* history
    uses,      \* uses[l]: native actions run under l
    mutations, \* native actions run
    answered   \* leases that a finished call has presented

store   == <<live, shown, usable, born>>
ledger  == <<status, tree, evidence, expires, closed, known>>
session == <<now, gate, over, closing, used, reads>>
request == <<tok, wish, image, post>>
local   == <<booked, count, proof>>
history == <<uses, mutations, answered>>
vars    == <<live, shown, usable, born, status, tree, evidence, expires, closed,
             known, now, gate, over, closing, used, reads, pc, tok, wish, image, post,
             booked, count, proof, uses, mutations, answered>>

Waiting   == {"resolving", "acting"}
Resolving == {"resolve", "select", "report"}
Acting    == {"entered", "admitted", "reserved", "retained", "accepted",
              "native", "committed", "mutated", "verifying", "settle",
              "audit", "leave"}
Inside    == Resolving \cup Acting
Active    == {"issued", "reserved"}

Init ==
    /\ live = {} /\ shown = {} /\ usable = {}
    /\ born = [i \in Images |-> 0]
    /\ status = [l \in Leases |-> "absent"]
    /\ tree = [l \in Leases |-> None]
    /\ evidence = [l \in Leases |-> None]
    /\ expires = [l \in Leases |-> 0]
    /\ closed = FALSE
    /\ known = {}
    /\ now = 0 /\ gate = None /\ over = FALSE /\ closing = "no"
    /\ used = 0 /\ reads = 0
    /\ pc = [c \in Callers |-> "idle"]
    /\ tok = [c \in Callers |-> None]
    /\ wish = [c \in Callers |-> None]
    /\ image = [c \in Callers |-> None]
    /\ post = [c \in Callers |-> FALSE]
    /\ booked = [c \in Callers |-> FALSE]
    /\ count = [c \in Callers |-> 0]
    /\ proof = [c \in Callers |-> "none"]
    /\ uses = [l \in Leases |-> 0]
    /\ mutations = 0
    /\ answered = {}

Go(c, p) == pc' = [pc EXCEPT ![c] = p]

(* A finished call forgets its request.                                        *)
Return(c) ==
    /\ Go(c, "idle")
    /\ tok' = [tok EXCEPT ![c] = None]
    /\ wish' = [wish EXCEPT ![c] = None]
    /\ image' = [image EXCEPT ![c] = None]
    /\ post' = [post EXCEPT ![c] = FALSE]
    /\ booked' = [booked EXCEPT ![c] = FALSE]
    /\ count' = [count EXCEPT ![c] = 0]
    /\ proof' = [proof EXCEPT ![c] = "none"]

Roots(l) == {tree[l], evidence[l]} \ {None}

Spoil(l, S, as) ==
    status' = [status EXCEPT ![l] = IF @ \in S THEN as ELSE @]

(* invalidateIssuedCapabilityLease: a lease somebody has reserved stays with   *)
(* the call that reserved it.                                                  *)
InvalidateIssued(l) ==
    IF l = None THEN UNCHANGED status ELSE Spoil(l, {"issued"}, "invalidated")

-----------------------------------------------------------------------------
(* The clock, the session's lifetime, and observations.                        *)
Tick ==
    /\ now < MaxTime
    /\ now' = now + 1
    /\ UNCHANGED <<store, ledger, gate, over, closing, used, reads, pc, request,
                   local, history>>

LifetimeEnds ==
    /\ ~over
    /\ over' = TRUE
    /\ UNCHANGED <<store, ledger, now, gate, closing, used, reads, pc, request,
                   local, history>>

(* InspectUI, or View: the attempt is paid for even when nothing is stored.    *)
Observe(o) ==
    /\ gate = None /\ ~over
    /\ o \notin shown
    /\ reads < MaxReads
    /\ reads' = reads + 1
    /\ \/ /\ live' = live \cup {o}
          /\ shown' = shown \cup {o}
          /\ usable' = usable \cup ({o} \cap Images)
          /\ born' = [i \in Images |-> IF i = o THEN now ELSE born[i]]
       \/ UNCHANGED store
    /\ UNCHANGED <<ledger, now, gate, over, closing, used, pc, request, local,
                   history>>

(* View.Close or Observation.Close: the pixels go, the record stays.           *)
CloseCapture(i) ==
    /\ i \in usable
    /\ usable' = usable \ {i}
    /\ UNCHANGED <<live, shown, born, ledger, session, pc, request, local,
                   history>>

(* Fault: a lease that a call has reserved is left to that call.               *)
DependentIssued(o) == {l \in Leases : o \in Roots(l) /\ status[l] = "issued"}

(* Fault: only the acted-on observation counts.                                *)
DependentTargets(o) == {l \in Leases : o = tree[l] /\ status[l] \in Active}

Dependent(o) == {l \in Leases : o \in Roots(l) /\ status[l] \in Active}

(* Removing the observation and invalidating what rests on it is one step for  *)
(* every other holder of observationMu or leaseMu.                             *)
ReleaseObservation(o) ==
    /\ o \in live
    /\ live' = live \ {o}
    /\ usable' = usable \ {o}
    /\ status' = [l \in Leases |->
                    IF l \in Dependent(o) THEN "invalidated" ELSE status[l]]
    /\ UNCHANGED <<shown, born, tree, evidence, expires, closed, known, session,
                   pc, request, local, history>>

-----------------------------------------------------------------------------
(* The action gate.                                                            *)
Enter(c) ==
    /\ pc[c] \in Waiting
    /\ gate = None
    /\ gate' = c
    /\ Go(c, IF pc[c] = "resolving" THEN "resolve" ELSE "entered")
    /\ UNCHANGED <<store, ledger, now, over, closing, used, reads, request,
                   local, history>>

(* The caller's context, or the session's, ends while it waits.                *)
GiveUp(c) ==
    /\ pc[c] \in Waiting
    /\ InvalidateIssued(tok[c])
    /\ answered' = answered \cup ({tok[c]} \ {None})
    /\ Return(c)
    /\ UNCHANGED <<store, tree, evidence, expires, closed, known, session,
                   uses, mutations>>

-----------------------------------------------------------------------------
(* ResolveUITarget with a lease request.                                       *)
AskResolve(c) ==
    \E o \in Trees \cap shown, i \in (Images \cap shown) \cup {None} :
        /\ pc[c] = "idle"
        /\ Go(c, "resolving")
        /\ wish' = [wish EXCEPT ![c] = o]
        /\ image' = [image EXCEPT ![c] = i]
        /\ UNCHANGED <<store, ledger, session, tok, post, local, history>>

StillThere(c) ==
    /\ wish[c] \in live
    /\ image[c] # None => image[c] \in live \cap usable

(* The observations are copied; the candidate is chosen outside the lock.      *)
Select(c) ==
    /\ pc[c] = "resolve"
    /\ ~over
    /\ StillThere(c)
    /\ image[c] # None => now <= born[image[c]] + EvidenceAge
    /\ Go(c, "select")
    /\ UNCHANGED <<store, ledger, session, request, local, history>>

Earlier(s, t) == IF s < t THEN s ELSE t

(* issueCapabilityLease: what was copied is checked again, under both locks.   *)
Issue(c) ==
    \E l \in Leases, d \in Durations :
        LET end == IF image[c] = None THEN now + d
                   ELSE Earlier(now + d, born[image[c]] + EvidenceAge)
        IN /\ pc[c] = "select"
           /\ status[l] = "absent"
           /\ image[c] # None => now < end
           /\ StillThere(c)
           /\ ~closed
           /\ Cardinality({k \in Leases : status[k] # "absent"}) < MaxLeases
           /\ status' = [status EXCEPT ![l] = "issued"]
           /\ tree' = [tree EXCEPT ![l] = wish[c]]
           /\ evidence' = [evidence EXCEPT ![l] = image[c]]
           /\ expires' = [expires EXCEPT ![l] = end]
           /\ tok' = [tok EXCEPT ![c] = l]
           /\ Go(c, "report")
           /\ UNCHANGED <<store, closed, known, session, wish, image, post,
                          local, history>>

(* Any refusal before a lease exists.                                          *)
ResolveFails(c) ==
    /\ pc[c] \in {"resolve", "select"}
    /\ Go(c, "report")
    /\ UNCHANGED <<store, ledger, session, request, local, history>>

(* The token goes to the caller only when the audit sink took the outcome.     *)
FinishResolve(c) ==
    /\ pc[c] = "report"
    /\ \/ /\ known' = known \cup ({tok[c]} \ {None})
          /\ UNCHANGED status
       \/ /\ InvalidateIssued(tok[c])
          /\ UNCHANGED known
    /\ gate' = None
    /\ Return(c)
    /\ UNCHANGED <<store, tree, evidence, expires, closed, now, over, closing,
                   used, reads, history>>

-----------------------------------------------------------------------------
(* ActUIElement.  A refused trace ends the call before it waits for the gate.  *)
AskAct(c) ==
    \E l \in known \cup {None}, o \in Trees \cap shown, p \in BOOLEAN :
        /\ pc[c] = "idle"
        /\ \/ /\ Go(c, "acting")
              /\ tok' = [tok EXCEPT ![c] = l]
              /\ wish' = [wish EXCEPT ![c] = IF l = None THEN o ELSE None]
              /\ post' = [post EXCEPT ![c] = p]
              /\ proof' = [proof EXCEPT ![c] =
                             IF l = None THEN "none" ELSE "invalidated"]
              /\ UNCHANGED <<status, answered>>
           \/ /\ InvalidateIssued(l)
              /\ answered' = answered \cup ({l} \ {None})
              /\ UNCHANGED <<pc, tok, wish, post, proof>>
        /\ UNCHANGED <<store, tree, evidence, expires, closed, known, session,
                       image, booked, count, uses, mutations>>

Admit(c) ==
    /\ pc[c] = "entered"
    /\ Go(c, IF over THEN "settle" ELSE "admitted")
    /\ UNCHANGED <<store, ledger, session, request, local, history>>

(* What a call that meets status s reports about its lease.                    *)
Reported(s) == IF s = "absent" THEN "invalidated"
               ELSE IF s = "reserved" THEN "consumed" ELSE s

ReserveNothing(c) ==
    /\ pc[c] = "admitted" /\ tok[c] = None
    /\ Go(c, IF RequireLease THEN "settle" ELSE "reserved")
    /\ UNCHANGED <<store, ledger, session, request, local, history>>

(* Fault: a consumed lease is taken like an issued one.                        *)
ReservableAgain(l) == status[l] \in {"issued", "consumed"}

Reservable(l) == status[l] = "issued"

(* reserveCapabilityLease and the binding of the request to the lease.         *)
Reserve(c) ==
    LET l == tok[c] IN
    /\ pc[c] = "admitted" /\ l # None
    /\ \/ /\ ~Reservable(l)
          /\ proof' = [proof EXCEPT ![c] = Reported(status[l])]
          /\ Go(c, "settle")
          /\ UNCHANGED <<status, wish, booked>>
       \/ /\ Reservable(l) /\ now >= expires[l]
          /\ status' = [status EXCEPT ![l] = "expired"]
          /\ proof' = [proof EXCEPT ![c] = "expired"]
          /\ Go(c, "settle")
          /\ UNCHANGED <<wish, booked>>
       \/ /\ Reservable(l) /\ now < expires[l]
          /\ status' = [status EXCEPT ![l] = "invalidated"]
          /\ proof' = [proof EXCEPT ![c] = "invalidated"]
          /\ Go(c, "settle")
          /\ UNCHANGED <<wish, booked>>
       \/ /\ Reservable(l) /\ now < expires[l]
          /\ status' = [status EXCEPT ![l] = "reserved"]
          /\ proof' = [proof EXCEPT ![c] = "reserved"]
          /\ booked' = [booked EXCEPT ![c] = TRUE]
          /\ wish' = [wish EXCEPT ![c] = tree[l]]
          /\ Go(c, "reserved")
    /\ UNCHANGED <<store, tree, evidence, expires, closed, known, session, tok,
                   image, post, count, history>>

(* A request that is malformed, denied, unconfirmed, stale, over its rate,     *)
(* unsupported, unauditable or cancelled ends here; the deferred cleanup runs. *)
Refuse(c) ==
    /\ pc[c] \in {"reserved", "retained", "accepted"}
    /\ Go(c, "settle")
    /\ UNCHANGED <<store, ledger, session, request, local, history>>

(* retainUIElementAction copies the native reference.                          *)
Retain(c) ==
    /\ pc[c] = "reserved"
    /\ wish[c] \in live
    /\ Go(c, "retained")
    /\ UNCHANGED <<store, ledger, session, request, local, history>>

(* Fault: one action too many.                                                 *)
LateBudget == used <= MaxActions

Budget == used < MaxActions

(* Fault: the check before the action is forgotten.                            *)
ReadsAfterwards == FinalProbes + Attempts

ActionReads == 1 + FinalProbes + Attempts

(* Quota, then the audit sink takes the intention.                             *)
Accept(c) ==
    /\ pc[c] = "retained"
    /\ IF post[c] THEN reads + ActionReads <= MaxReads ELSE Budget
    /\ Go(c, "accepted")
    /\ UNCHANGED <<store, ledger, session, request, local, history>>

(* A condition check pays for its read first.  When the adapter returns with   *)
(* its own cleanup incomplete the whole session is over.                       *)
Check(c, outcomes) ==
    /\ ~over /\ reads < MaxReads
    /\ reads' = reads + 1
    /\ \/ /\ outcomes
          /\ UNCHANGED over
       \/ /\ Go(c, "settle")
          /\ over' \in {over, TRUE}

(* The precheck.  A condition that holds already is a success without action.  *)
Precheck(c) ==
    /\ pc[c] = "accepted" /\ ~over
    /\ IF post[c]
         THEN Check(c, Budget /\ Go(c, "native"))
         ELSE Go(c, "native") /\ UNCHANGED <<reads, over>>
    /\ UNCHANGED <<store, ledger, now, gate, closing, used, request, local,
                   history>>

-----------------------------------------------------------------------------
(* The native adapter: the final gate, BeforeDispatch, the mutation.  Its      *)
(* context follows the session's only after a while.                           *)
FinalGate(c) ==
    /\ pc[c] = "native" /\ post[c]
    /\ count[c] < FinalProbes
    /\ ~over /\ reads < MaxReads
    /\ reads' = reads + 1
    /\ count' = [count EXCEPT ![c] = @ + 1]
    /\ Go(c, "native") \/ Go(c, "settle")
    /\ UNCHANGED <<store, ledger, now, gate, over, closing, used, request,
                   booked, proof, history>>

(* BeforeDispatch: consumeCapabilityLease is the last check of the authority.  *)
Commit(c) ==
    LET l == tok[c] IN
    /\ pc[c] = "native"
    /\ post[c] => count[c] > 0
    /\ \/ /\ l = None
          /\ Go(c, "committed")
          /\ UNCHANGED <<status, booked, proof>>
       \/ /\ l # None /\ status[l] = "reserved" /\ now < expires[l]
          /\ status' = [status EXCEPT ![l] = "consumed"]
          /\ booked' = [booked EXCEPT ![c] = FALSE]
          /\ proof' = [proof EXCEPT ![c] = "consumed"]
          /\ Go(c, "committed")
       \/ /\ l # None /\ status[l] = "reserved" /\ now >= expires[l]
          /\ status' = [status EXCEPT ![l] = "expired"]
          /\ booked' = [booked EXCEPT ![c] = FALSE]
          /\ proof' = [proof EXCEPT ![c] = "expired"]
          /\ Go(c, "settle")
       \/ /\ l # None /\ status[l] # "reserved"
          /\ proof' = [proof EXCEPT ![c] = Reported(status[l])]
          /\ Go(c, "settle")
          /\ UNCHANGED <<status, booked>>
    /\ UNCHANGED <<store, tree, evidence, expires, closed, known, session,
                   request, count, history>>

Mutate(c) ==
    /\ pc[c] = "committed"
    /\ mutations' = mutations + 1
    /\ uses' = [l \in Leases |-> uses[l] + IF l = tok[c] THEN 1 ELSE 0]
    /\ Go(c, "mutated")
    /\ UNCHANGED <<store, ledger, session, request, local, answered>>

(* The adapter gives up before its dispatch, or leaves something behind.       *)
NativeFails(c) ==
    /\ pc[c] = "native"
    /\ Go(c, "settle")
    /\ over' \in {over, TRUE}
    /\ UNCHANGED <<store, ledger, now, gate, closing, used, reads, request,
                   local, history>>

Account(c) ==
    /\ pc[c] = "mutated"
    /\ used' = used + 1
    /\ \/ /\ Go(c, IF post[c] THEN "verifying" ELSE "settle")
          /\ UNCHANGED over
       \/ /\ Go(c, "settle")
          /\ over' = TRUE
    /\ count' = [count EXCEPT ![c] = 0]
    /\ UNCHANGED <<store, ledger, now, gate, closing, reads, request, booked,
                   proof, history>>

(* pollUIElementCondition.                                                     *)
Verify(c) ==
    /\ pc[c] = "verifying" /\ count[c] < Attempts
    /\ Check(c, count[c] + 1 < Attempts /\ Go(c, "verifying"))
    /\ count' = [count EXCEPT ![c] = @ + 1]
    /\ UNCHANGED <<store, ledger, now, gate, closing, used, request, booked,
                   proof, history>>

VerifyCancelled(c) ==
    /\ pc[c] = "verifying"
    /\ Go(c, "settle")
    /\ UNCHANGED <<store, ledger, session, request, local, history>>

-----------------------------------------------------------------------------
(* Fault: an unused reservation is handed back for another try.                *)
HandBack(l) == Spoil(l, {"reserved"}, "issued")

(* Fault: only an issued lease is invalidated.                                 *)
UnbookIssued(l) == Spoil(l, {"issued"}, "invalidated")

Unbook(l) == Spoil(l, {"reserved"}, "invalidated")

(* The deferred cleanup: invalidate, report, leave.                            *)
Settle(c) ==
    /\ pc[c] = "settle"
    /\ IF booked[c]
         THEN /\ Unbook(tok[c])
              /\ proof' = [proof EXCEPT ![c] = "invalidated"]
         ELSE UNCHANGED <<status, proof>>
    /\ booked' = [booked EXCEPT ![c] = FALSE]
    /\ Go(c, "audit")
    /\ UNCHANGED <<store, tree, evidence, expires, closed, known, session,
                   request, count, history>>

FinishAudit(c) ==
    /\ pc[c] = "audit"
    /\ Go(c, "leave")
    /\ UNCHANGED <<store, ledger, session, request, local, history>>

(* Fault: the gate is not returned.                                            *)
LeaveLocked(c) ==
    /\ pc[c] = "leave"
    /\ answered' = answered \cup ({tok[c]} \ {None})
    /\ Return(c)
    /\ UNCHANGED <<store, ledger, session, uses, mutations>>

Leave(c) ==
    /\ pc[c] = "leave"
    /\ gate' = None
    /\ answered' = answered \cup ({tok[c]} \ {None})
    /\ Return(c)
    /\ UNCHANGED <<store, ledger, now, over, closing, used, reads, uses,
                   mutations>>

-----------------------------------------------------------------------------
(* Session.Close.                                                              *)
CloseBegins ==
    /\ closing = "no"
    /\ closing' = "waiting"
    /\ over' = TRUE
    /\ UNCHANGED <<store, ledger, now, gate, used, reads, pc, request, local,
                   history>>

(* Fault: Close does not wait for the call that holds the gate.                *)
CloseBargesIn ==
    /\ closing = "waiting"
    /\ closing' = "entered"
    /\ gate' = Closer
    /\ UNCHANGED <<store, ledger, now, over, used, reads, pc, request, local,
                   history>>

CloseEnters ==
    /\ closing = "waiting" /\ gate = None
    /\ closing' = "entered"
    /\ gate' = Closer
    /\ UNCHANGED <<store, ledger, now, over, used, reads, pc, request, local,
                   history>>

CloseLeases ==
    /\ closing = "entered"
    /\ closing' = "emptied"
    /\ closed' = TRUE
    /\ status' = [l \in Leases |-> "absent"]
    /\ UNCHANGED <<store, tree, evidence, expires, known, now, gate, over, used,
                   reads, pc, request, local, history>>

CloseObservations ==
    /\ closing = "emptied"
    /\ closing' = "done"
    /\ live' = {}
    /\ usable' = usable \ live
    /\ gate' = None
    /\ UNCHANGED <<shown, born, ledger, now, over, used, reads, pc, request,
                   local, history>>

-----------------------------------------------------------------------------
Act(c) ==
    \/ Admit(c) \/ ReserveNothing(c) \/ Reserve(c) \/ Refuse(c) \/ Retain(c)
    \/ Accept(c) \/ Precheck(c) \/ FinalGate(c) \/ Commit(c) \/ Mutate(c)
    \/ NativeFails(c) \/ Account(c) \/ Verify(c) \/ VerifyCancelled(c)
    \/ Settle(c) \/ FinishAudit(c) \/ Leave(c)

Resolve(c) == Select(c) \/ Issue(c) \/ ResolveFails(c) \/ FinishResolve(c)

Call(c) == AskResolve(c) \/ AskAct(c) \/ Enter(c) \/ GiveUp(c)

Close == CloseBegins \/ CloseEnters \/ CloseLeases \/ CloseObservations

Next ==
    \/ Tick \/ LifetimeEnds
    \/ \E o \in Observations : Observe(o) \/ CloseCapture(o) \/ ReleaseObservation(o)
    \/ \E c \in Callers : Call(c) \/ Resolve(c) \/ Act(c)
    \/ Close

Spec == Init /\ [][Next]_vars

(* Native calls and audit calls are bounded by timeouts, so a call that holds  *)
(* the gate goes on; the gate is a channel, whose receivers are served in      *)
(* order; a wait ends when the session's context is done.                      *)
Fairness ==
    /\ \A c \in Callers :
         /\ WF_vars(Resolve(c) \/ Act(c))
         /\ SF_vars(Enter(c))
         /\ WF_vars(over /\ GiveUp(c))
    /\ SF_vars(CloseEnters)
    /\ WF_vars(CloseLeases \/ CloseObservations)

LiveSpec == Spec /\ Fairness

-----------------------------------------------------------------------------
Statuses == {"absent", "issued", "reserved", "consumed", "expired", "invalidated"}

TypeStore ==
    /\ live \subseteq shown /\ shown \subseteq Observations
    /\ usable \subseteq Images
    /\ born \in [Images -> 0..MaxTime]

TypeLedger ==
    /\ status \in [Leases -> Statuses]
    /\ tree \in [Leases -> Trees \cup {None}]
    /\ evidence \in [Leases -> Images \cup {None}]
    /\ expires \in [Leases -> Nat]
    /\ uses \in [Leases -> Nat]
    /\ known \subseteq Leases /\ answered \subseteq known

TypeSession ==
    /\ closed \in BOOLEAN /\ over \in BOOLEAN
    /\ now \in 0..MaxTime
    /\ gate \in Callers \cup {None, Closer}
    /\ closing \in {"no", "waiting", "entered", "emptied", "done"}
    /\ used \in Nat /\ reads \in 0..MaxReads /\ mutations \in Nat

TypeRequest ==
    /\ tok \in [Callers -> Leases \cup {None}]
    /\ wish \in [Callers -> Trees \cup {None}]
    /\ image \in [Callers -> Images \cup {None}]
    /\ post \in [Callers -> BOOLEAN]

TypeCall ==
    /\ pc \in [Callers -> {"idle"} \cup Waiting \cup Inside]
    /\ booked \in [Callers -> BOOLEAN]
    /\ count \in [Callers -> 0..(FinalProbes + Attempts)]
    /\ proof \in [Callers -> {"none"} \cup (Statuses \ {"absent"})]

(* Every variable has its type, and no call makes more probes of its final     *)
(* gate, or more checks afterwards, than its bounds allow.                     *)
TypeOK == TypeStore /\ TypeLedger /\ TypeSession /\ TypeRequest /\ TypeCall

Stopping == closing \in {"entered", "emptied", "done"}

(* No lease runs two native actions, however many callers present it           *)
(* (reserveCapabilityLease, consumeCapabilityLease).                           *)
AtMostOnce == \A l \in Leases : uses[l] <= 1

(* A lease that can still act rests on observations the session still retains, *)
(* though they are copied, released and checked in separate critical sections  *)
(* (issueCapabilityLease, ReleaseObservation).                                 *)
RootsLive == \A l \in Leases : status[l] \in Active => Roots(l) \subseteq live

(* A lease is consumed only in time, while its observations are retained, and  *)
(* while the image that helped to find the target is young enough to count.    *)
CommitGrounded ==
    [][\A l \in Leases :
         status[l] # "consumed" /\ status'[l] = "consumed" =>
            /\ Roots(l) \subseteq live
            /\ now < expires[l]
            /\ evidence[l] # None => now < born[evidence[l]] + EvidenceAge]_vars

(* Once any call that presented a lease has returned, whatever became of it,   *)
(* no call can reserve that lease again: every refusal on the way is final.    *)
AnsweredIsFinal ==
    [][\A l \in answered : status'[l] = "reserved" => status[l] = "reserved"]_vars

(* The proof a call returns names the state its lease is left in; a call that  *)
(* found the session over before it looked says invalidated.                   *)
ProofTruthful ==
    \A c \in Callers :
        pc[c] = "leave" /\ tok[c] # None =>
            proof[c] = status[tok[c]] \/ (over /\ proof[c] = "invalidated")

(* Every native action is counted, and there are never more than the policy    *)
(* allows, although the count is raised only after the native call.            *)
QuotaHolds ==
    /\ mutations = used + Cardinality({c \in Callers : pc[c] = "mutated"})
    /\ mutations <= MaxActions

(* A verified action that was accepted has its reads paid for: neither the     *)
(* final gate nor a check after the dispatch is ever refused for quota.        *)
VerificationFunded ==
    \A c \in Callers :
        /\ pc[c] = "native" /\ post[c] /\ count[c] < FinalProbes => reads < MaxReads
        /\ pc[c] = "verifying" /\ count[c] < Attempts => reads < MaxReads

(* From the moment Close has the gate nothing is done to the desktop and       *)
(* nothing is retained any more.                                               *)
Quiet ==
    /\ mutations' = mutations
    /\ live' \subseteq live
    /\ \A l \in Leases : status'[l] \in Active => status'[l] = status[l]
QuietAfterClose == [][Stopping => Quiet]_vars

(* Every call returns, and Close, once it has begun, ends.                     *)
EveryoneReturns ==
    /\ \A c \in Callers : pc[c] # "idle" ~> pc[c] = "idle"
    /\ closing # "no" ~> closing = "done"

(* Leases implement single-use authority over observations.                    *)
Authority ==
    [l \in Leases |->
        IF uses[l] > 0 THEN "used"
        ELSE IF status[l] \in Active THEN "held"
        ELSE IF status[l] = "consumed" THEN "committed"
        ELSE IF status[l] = "absent" /\ ~closed THEN "none"
        ELSE "dead"]
Rests == [l \in Leases |-> Roots(l)]

SUA == INSTANCE SingleUseAuthority WITH
    Grants <- Leases, Evidence <- Observations, auth <- Authority,
    rests <- Rests, present <- live, shut <- closed
ImplementsAuthority == SUA!AuthoritySpec
=============================================================================
