------------------------- MODULE SemanticActionProofs -------------------------
(* Theorems about SemanticAction, for any callers, leases, observations and    *)
(* quotas.  The invariants are layered: types, who is inside the action gate,  *)
(* what the leases stand for, and what the quotas leave.                       *)
EXTENDS SemanticAction, FiniteSetTheorems, TLAPS

-----------------------------------------------------------------------------
(* A call presents only tokens that were given to a caller; a lease being      *)
(* issued is not given yet.                                                    *)
TokensKnown == \A c \in Callers : pc[c] # "report" => tok[c] \in known \cup {None}

Typed == TypeOK /\ TokensKnown

(* A new session is well typed.                                              *)
LEMMA InitTyped == Init => Typed
<1> SUFFICES ASSUME Init PROVE Typed
  OBVIOUS
<1> USE SemanticAssumption, NameAssumption DEF Init
<1>1. TypeStore /\ TypeRequest
  BY DEF TypeStore, TypeRequest
<1>2. TypeLedger
  BY DEF TypeLedger, Statuses
<1>3. TypeSession
  <2>1. now \in 0..MaxTime /\ reads \in 0..MaxReads
    OBVIOUS
  <2> QED BY <2>1 DEF TypeSession
<1>4. TypeCall
  BY DEF TypeCall
<1>5. TokensKnown
  BY DEF TokensKnown
<1> QED BY <1>1, <1>2, <1>3, <1>4, <1>5 DEF Typed, TypeOK

(* The clock, observations and Close keep the types.                         *)
LEMMA OutsideTyped ==
  ASSUME Typed,
         \/ Tick \/ LifetimeEnds \/ Close
         \/ \E o \in Observations :
              Observe(o) \/ CloseCapture(o) \/ ReleaseObservation(o)
  PROVE  Typed'
<1> USE SemanticAssumption
    DEF Typed, TypeOK, TypeStore, TypeLedger, TypeSession, TypeRequest,
        TypeCall, TokensKnown, Observations, store, ledger, request,
        local, history, session
<1>1. CASE Tick
  BY <1>1 DEF Tick
<1>2. CASE LifetimeEnds
  BY <1>2 DEF LifetimeEnds
<1>3. ASSUME NEW o \in Observations, Observe(o) PROVE Typed'
  BY <1>3 DEF Observe
<1>4. ASSUME NEW o \in Observations, CloseCapture(o) PROVE Typed'
  BY <1>4 DEF CloseCapture
<1>5. ASSUME NEW o \in Observations, ReleaseObservation(o) PROVE Typed'
  BY <1>5 DEF ReleaseObservation, Statuses
<1>6. CASE CloseLeases
  BY <1>6 DEF CloseLeases, Statuses
<1>7. CASE CloseBegins
  BY <1>7 DEF CloseBegins
<1>8. CASE CloseEnters
  BY <1>8 DEF CloseEnters
<1>9. CASE CloseObservations
  BY <1>9 DEF CloseObservations
<1> QED
  BY <1>1, <1>2, <1>3, <1>4, <1>5, <1>6, <1>7, <1>8, <1>9 DEF Close

(* Entering, giving up and resolving keep the types.                         *)
LEMMA CallTyped ==
  ASSUME Typed, NEW c \in Callers, Call(c) \/ Resolve(c)
  PROVE  Typed'
<1> USE SemanticAssumption
    DEF Typed, TypeOK, TypeStore, TypeLedger, TypeSession, TypeRequest,
        TypeCall, TokensKnown, store, ledger, request, local, history,
        session, Go, Waiting, Inside, Resolving, Acting, Statuses
<1>1. CASE AskResolve(c)
  BY <1>1 DEF AskResolve
<1>2. CASE AskAct(c)
  BY <1>2 DEF AskAct, InvalidateIssued, Spoil
<1>3. CASE Enter(c)
  BY <1>3 DEF Enter
<1>4. CASE GiveUp(c)
  BY <1>4, NameAssumption DEF GiveUp, InvalidateIssued, Spoil, Return
<1>5. CASE Select(c) \/ ResolveFails(c)
  BY <1>5 DEF Select, ResolveFails
<1>6. CASE Issue(c)
  BY <1>6 DEF Issue, Earlier
<1>7. CASE FinishResolve(c)
  BY <1>7 DEF FinishResolve, InvalidateIssued, Spoil, Return
<1> QED
  BY <1>1, <1>2, <1>3, <1>4, <1>5, <1>6, <1>7 DEF Call, Resolve

(* Every step of an action keeps the types.                                  *)
LEMMA ActTyped ==
  ASSUME Typed, NEW c \in Callers, Act(c)
  PROVE  Typed'
<1> USE SemanticAssumption
    DEF Typed, TypeOK, store, ledger, request, local, history, session, Go,
        Statuses
<1>1. CASE Admit(c) \/ ReserveNothing(c) \/ Refuse(c) \/ Retain(c) \/ Accept(c)
  BY <1>1 DEF Admit, ReserveNothing, Refuse, Retain, Accept, TypeStore, TypeLedger, TypeSession,
              TypeRequest, TypeCall, TokensKnown, Inside, Acting
<1>2. CASE Reserve(c)
  <2>1. TypeStore' /\ TypeRequest' /\ TypeSession'
    BY <1>2 DEF Reserve, TypeStore, TypeRequest, TypeSession, TypeLedger
  <2>2. TypeLedger' /\ TokensKnown'
    BY <1>2 DEF Reserve, Reservable, Reported, TypeLedger, TypeCall, TypeRequest, TokensKnown
  <2>3. TypeCall'
    <3>1. proof' \in [Callers -> {"none"} \cup (Statuses \ {"absent"})]
      <4>1. PICK s \in {"none"} \cup (Statuses \ {"absent"}) :
               proof' = [proof EXCEPT ![c] = s]
        BY <1>2 DEF Reserve, TypeCall, TypeLedger, TypeRequest, Reported
      <4> QED BY <4>1 DEF TypeCall
    <3>2. count' \in [Callers -> 0..(FinalProbes + Attempts)]
      BY <1>2 DEF Reserve, TypeCall
    <3>3. booked' \in [Callers -> BOOLEAN]
      BY <1>2 DEF Reserve, TypeCall
    <3>4. pc' \in [Callers -> {"idle"} \cup Waiting \cup Inside]
      BY <1>2 DEF Reserve, TypeCall, Inside, Acting
    <3> QED BY <3>1, <3>2, <3>3, <3>4 DEF TypeCall
  <2> QED BY <2>1, <2>2, <2>3
<1>3. CASE Precheck(c)
  <2>1. TypeStore' /\ TypeRequest' /\ TypeSession'
    <3>1. over' \in BOOLEAN
      BY <1>3 DEF Precheck, Check, TypeSession
    <3>2. reads' \in 0..MaxReads /\ used' \in Nat
      <4>1. reads' = reads \/ (reads < MaxReads /\ reads' = reads + 1)
        <5>1. CASE post[c]
          BY <1>3, <5>1 DEF Precheck, Check
        <5>2. CASE ~post[c]
          BY <1>3, <5>2 DEF Precheck
        <5> QED BY <5>1, <5>2
      <4> QED BY <1>3, <4>1 DEF Precheck, TypeSession
    <3> QED
      BY <1>3, <3>1, <3>2 DEF Precheck, Check, TypeStore, TypeRequest, TypeSession
  <2>2. TypeLedger' /\ TokensKnown'
    BY <1>3 DEF Precheck, Check, TypeLedger, TypeCall, TypeRequest, TokensKnown
  <2>3. TypeCall'
    BY <1>3 DEF Precheck, Check, TypeCall, TypeLedger, Inside, Acting
  <2> QED BY <2>1, <2>2, <2>3
<1>4. CASE FinalGate(c)
  BY <1>4 DEF FinalGate, TypeStore, TypeLedger, TypeSession,
              TypeRequest, TypeCall, TokensKnown, Inside, Acting
<1>5. CASE Commit(c)
  <2>1. TypeStore' /\ TypeRequest' /\ TypeSession'
    BY <1>5 DEF Commit, Reported, TypeStore, TypeRequest, TypeSession
  <2>2. TypeLedger' /\ TokensKnown'
    BY <1>5 DEF Commit, Reported, TypeLedger, TypeCall, TypeRequest, TokensKnown
  <2>3. TypeCall'
    <3>1. proof' \in [Callers -> {"none"} \cup (Statuses \ {"absent"})]
      <4>1. PICK s \in {"none"} \cup (Statuses \ {"absent"}) :
               proof' = [proof EXCEPT ![c] = s]
        BY <1>5 DEF Commit, TypeCall, TypeLedger, TypeRequest, Reported
      <4> QED BY <4>1 DEF TypeCall
    <3>2. count' \in [Callers -> 0..(FinalProbes + Attempts)]
      BY <1>5 DEF Commit, TypeCall
    <3>3. booked' \in [Callers -> BOOLEAN]
      BY <1>5 DEF Commit, TypeCall
    <3>4. pc' \in [Callers -> {"idle"} \cup Waiting \cup Inside]
      BY <1>5 DEF Commit, TypeCall, Inside, Acting
    <3> QED BY <3>1, <3>2, <3>3, <3>4 DEF TypeCall
  <2> QED BY <2>1, <2>2, <2>3
<1>6. CASE Mutate(c)
  BY <1>6 DEF Mutate, TypeStore, TypeLedger, TypeSession,
              TypeRequest, TypeCall, TokensKnown, Inside, Acting
<1>7. CASE NativeFails(c) \/ VerifyCancelled(c)
  <2>1. TypeStore' /\ TypeRequest' /\ TypeSession'
    BY <1>7 DEF NativeFails, VerifyCancelled, TypeStore, TypeRequest, TypeSession
  <2>2. TypeLedger' /\ TokensKnown'
    BY <1>7 DEF NativeFails, VerifyCancelled, TypeLedger, TypeCall, TypeRequest, TokensKnown
  <2>3. TypeCall'
    BY <1>7 DEF NativeFails, VerifyCancelled, TypeCall, TypeLedger, Inside, Acting
  <2> QED BY <2>1, <2>2, <2>3
<1>8. CASE Account(c)
  <2>1. TypeStore' /\ TypeRequest' /\ TypeSession'
    <3>1. over' \in BOOLEAN
      BY <1>8 DEF Account, TypeSession
    <3>2. reads' \in 0..MaxReads /\ used' \in Nat
      BY <1>8 DEF Account, TypeSession
    <3> QED
      BY <1>8, <3>1, <3>2 DEF Account, TypeStore, TypeRequest, TypeSession
  <2>2. TypeLedger' /\ TokensKnown'
    BY <1>8 DEF Account, TypeLedger, TypeCall, TypeRequest, TokensKnown
  <2>3. TypeCall'
    BY <1>8 DEF Account, TypeCall, TypeLedger, Inside, Acting
  <2> QED BY <2>1, <2>2, <2>3
<1>9. CASE Verify(c)
  <2>1. TypeStore' /\ TypeRequest' /\ TypeSession'
    <3>1. over' \in BOOLEAN
      BY <1>9 DEF Verify, Check, TypeSession
    <3>2. reads' \in 0..MaxReads /\ used' \in Nat
      BY <1>9 DEF Verify, Check, TypeSession
    <3> QED
      BY <1>9, <3>1, <3>2 DEF Verify, Check, TypeStore, TypeRequest, TypeSession
  <2>2. TypeLedger' /\ TokensKnown'
    BY <1>9 DEF Verify, Check, TypeLedger, TypeCall, TypeRequest, TokensKnown
  <2>3. TypeCall'
    <3>1. proof' \in [Callers -> {"none"} \cup (Statuses \ {"absent"})]
      BY <1>9 DEF Verify, Check, TypeCall, TypeLedger
    <3>2. count' \in [Callers -> 0..(FinalProbes + Attempts)]
      BY <1>9 DEF Verify, Check, TypeCall
    <3>3. booked' \in [Callers -> BOOLEAN]
      BY <1>9 DEF Verify, Check, TypeCall
    <3>4. pc' \in [Callers -> {"idle"} \cup Waiting \cup Inside]
      BY <1>9 DEF Verify, Check, TypeCall, Inside, Acting
    <3> QED BY <3>1, <3>2, <3>3, <3>4 DEF TypeCall
  <2> QED BY <2>1, <2>2, <2>3
<1>10. CASE Settle(c)
  BY <1>10 DEF Settle, Unbook, Spoil, TypeStore, TypeLedger, TypeSession,
              TypeRequest, TypeCall, TokensKnown, Inside, Acting
<1>11. CASE FinishAudit(c)
  <2>1. TypeStore' /\ TypeRequest' /\ TypeSession'
    BY <1>11 DEF FinishAudit, TypeStore, TypeRequest, TypeSession
  <2>2. TypeLedger' /\ TokensKnown'
    BY <1>11 DEF FinishAudit, TypeLedger, TypeCall, TypeRequest, TokensKnown
  <2>3. TypeCall'
    BY <1>11 DEF FinishAudit, TypeCall, TypeLedger, Inside, Acting
  <2> QED BY <2>1, <2>2, <2>3
<1>12. CASE Leave(c)
  <2>1. TypeStore' /\ TypeRequest' /\ TypeSession'
    BY <1>12 DEF Leave, Return, TypeStore, TypeRequest, TypeSession
  <2>2. TypeLedger' /\ TokensKnown'
    BY <1>12 DEF Leave, Return, TypeLedger, TypeCall, TypeRequest, TokensKnown
  <2>3. TypeCall'
    BY <1>12 DEF Leave, Return, TypeCall, TypeLedger, Inside, Acting
  <2> QED BY <2>1, <2>2, <2>3
<1> QED
  BY <1>1, <1>2, <1>3, <1>4, <1>5, <1>6, <1>7, <1>8, <1>9, <1>10, <1>11, <1>12 DEF Act

(* Every step keeps the types.                                               *)
LEMMA StepTyped == Typed /\ [Next]_vars => Typed'
<1> SUFFICES ASSUME Typed, [Next]_vars PROVE Typed'
  OBVIOUS
<1>1. CASE UNCHANGED vars
  BY <1>1 DEF vars, Typed, TypeOK, TypeStore, TypeLedger, TypeSession,
             TypeRequest, TypeCall, TokensKnown
<1>2. CASE Next
  BY <1>2, OutsideTyped, CallTyped, ActTyped DEF Next
<1> QED BY <1>1, <1>2

(* The types always hold.                                                    *)
THEOREM AlwaysTyped == Spec => []Typed
  BY InitTyped, StepTyped, PTL DEF Spec

(* The state of a session is well formed, and every count is in its bounds.    *)
THEOREM TypeCorrect == Spec => []TypeOK
<1>1. Typed => TypeOK
  BY DEF Typed
<1> QED BY <1>1, AlwaysTyped, PTL
-----------------------------------------------------------------------------
(* The places a call can be at once Close has the gate: it comes too late to   *)
(* do anything but report.                                                     *)
Late == {"resolve", "report", "entered", "settle", "audit", "leave"}

(* Whoever is inside has the gate, Close included; what comes after Close has  *)
(* had it only reports.                                                        *)
Gated ==
    /\ \A c \in Callers : pc[c] \in Inside => gate = c
    /\ closing \in {"entered", "emptied"} => gate = Closer
    /\ closed <=> closing \in {"emptied", "done"}
    /\ closing # "no" => over
    /\ Stopping => \A c \in Callers : pc[c] \in Inside => pc[c] \in Late

GInv == Typed /\ Gated

(* Nobody is inside at first.                                                *)
LEMMA InitGated == Init => Gated
  BY DEF Init, Gated, Inside, Resolving, Acting, Stopping

(* The clock, observations and Close respect the gate.                       *)
LEMMA OutsideGated ==
  ASSUME GInv,
         \/ Tick \/ LifetimeEnds \/ Close
         \/ \E o \in Observations :
              Observe(o) \/ CloseCapture(o) \/ ReleaseObservation(o)
  PROVE  Gated'
<1> USE NameAssumption
    DEF GInv, Typed, TypeOK, TypeSession, Gated, Stopping, store, ledger,
        request, local, history, session
<1>1. CASE Tick \/ LifetimeEnds \/ CloseBegins \/ CloseEnters
  BY <1>1 DEF Tick, LifetimeEnds, CloseBegins, CloseEnters
<1>2. CASE CloseLeases \/ CloseObservations
  BY <1>2 DEF CloseLeases, CloseObservations
<1>3. ASSUME NEW o \in Observations,
             Observe(o) \/ CloseCapture(o) \/ ReleaseObservation(o)
      PROVE  Gated'
  BY <1>3 DEF Observe, CloseCapture, ReleaseObservation
<1> QED BY <1>1, <1>2, <1>3 DEF Close

(* Entering, giving up and resolving respect the gate.                       *)
LEMMA CallGated ==
  ASSUME GInv, NEW c \in Callers, Call(c) \/ Resolve(c)
  PROVE  Gated'
<1> USE NameAssumption
    DEF GInv, Typed, TypeOK, TypeSession, TypeCall, Gated, Stopping, Late,
        Inside, Resolving, Acting, Waiting, store, ledger, request, local,
        history, session, Go, Return
<1>1. CASE AskResolve(c) \/ AskAct(c) \/ GiveUp(c)
  BY <1>1 DEF AskResolve, AskAct, GiveUp
<1>2. CASE Enter(c)
  BY <1>2 DEF Enter
<1>3. CASE Select(c) \/ ResolveFails(c)
  BY <1>3 DEF Select, ResolveFails
<1>4. CASE FinishResolve(c)
  BY <1>4 DEF FinishResolve
<1>5. CASE Issue(c)
  <2>1. /\ UNCHANGED <<gate, over, closing, closed>>
        /\ pc[c] = "select" /\ pc' = [pc EXCEPT ![c] = "report"]
    BY <1>5 DEF Issue
  <2> QED BY <2>1
<1> QED BY <1>1, <1>2, <1>3, <1>4, <1>5 DEF Call, Resolve

(* What all steps of an action but the last have in common.                    *)
Moves(c) ==
    /\ UNCHANGED <<gate, closing, closed, known, answered, tok, post>>
    /\ over => over'
    /\ pc[c] \in Acting /\ pc'[c] \in Acting
    /\ \A d \in Callers \ {c} : pc'[d] = pc[d]
    /\ over /\ pc[c] \in Late => pc'[c] \in Late

(* Every step of an action is its last or one of these.                      *)
LEMMA ActMoves ==
  ASSUME Typed, NEW c \in Callers, Act(c)
  PROVE  Leave(c) \/ Moves(c)
<1> USE DEF Typed, TypeOK, TypeCall, Late, Acting, store, ledger, request,
            local, history, session, Go, Moves
<1>1. CASE Admit(c)
  BY <1>1 DEF Admit
<1>2. CASE ReserveNothing(c)
  BY <1>2 DEF ReserveNothing
<1>3. CASE Reserve(c)
  BY <1>3 DEF Reserve
<1>4. CASE Refuse(c)
  BY <1>4 DEF Refuse
<1>5. CASE Retain(c)
  BY <1>5 DEF Retain
<1>6. CASE Accept(c)
  BY <1>6 DEF Accept
<1>7. CASE Precheck(c)
  BY <1>7 DEF Precheck, Check
<1>8. CASE FinalGate(c)
  BY <1>8 DEF FinalGate
<1>9. CASE Commit(c)
  BY <1>9 DEF Commit
<1>10. CASE Mutate(c)
  BY <1>10 DEF Mutate
<1>11. CASE NativeFails(c)
  BY <1>11 DEF NativeFails
<1>12. CASE Account(c)
  BY <1>12 DEF Account
<1>13. CASE Verify(c)
  BY <1>13 DEF Verify, Check
<1>14. CASE VerifyCancelled(c)
  BY <1>14 DEF VerifyCancelled
<1>15. CASE Settle(c)
  BY <1>15 DEF Settle
<1>16. CASE FinishAudit(c)
  BY <1>16 DEF FinishAudit
<1> QED
  BY <1>1, <1>2, <1>3, <1>4, <1>5, <1>6, <1>7, <1>8, <1>9,
     <1>10, <1>11, <1>12, <1>13, <1>14, <1>15, <1>16 DEF Act

(* Every step of an action respects the gate.                                *)
LEMMA ActGated ==
  ASSUME GInv, NEW c \in Callers, Act(c)
  PROVE  Gated'
<1> USE NameAssumption DEF GInv, Gated, Stopping, Inside, Typed, TypeOK,
                           TypeSession, TypeCall
<1>1. CASE Moves(c)
  BY <1>1 DEF Moves
<1>2. CASE Leave(c)
  <2>1. /\ gate = c /\ gate' = None
        /\ UNCHANGED <<over, closing, closed>>
        /\ pc' = [pc EXCEPT ![c] = "idle"]
    BY <1>2 DEF Leave, Return, Go, ledger, Acting
  <2>2. \A d \in Callers : pc'[d] \notin Inside
    BY <2>1 DEF Resolving, Acting
  <2> QED BY <2>1, <2>2
<1> QED BY <1>1, <1>2, ActMoves

(* Every step respects the gate.                                             *)
LEMMA StepGated == GInv /\ [Next]_vars => GInv'
<1> SUFFICES ASSUME GInv, [Next]_vars PROVE Gated'
  BY StepTyped DEF GInv
<1>1. CASE UNCHANGED vars
  BY <1>1 DEF vars, GInv, Gated, Stopping
<1>2. CASE Next
  BY <1>2, OutsideGated, CallGated, ActGated DEF Next
<1> QED BY <1>1, <1>2

(* The gate always keeps everyone else out.                                  *)
THEOREM AlwaysGated == Spec => []GInv
<1>1. Init => GInv
  BY InitTyped, InitGated DEF GInv
<1> QED BY <1>1, StepGated, PTL DEF Spec
-----------------------------------------------------------------------------
(* Where a call can still hold a reservation, and where its lease's fate is    *)
(* decided.                                                                    *)
Booking == {"reserved", "retained", "accepted", "native"}
Decided == {"committed", "mutated", "verifying", "settle", "audit", "leave"}

(* A step of an action that leaves the leases alone.                           *)
Unleased == UNCHANGED <<live, shown, usable, born, status, tree, evidence,
                        expires, booked, proof, uses, mutations, now>>

Plain(c) ==
    /\ Moves(c)
    /\ Unleased
    /\ pc[c] # "committed" /\ pc'[c] # "committed"
    /\ pc'[c] # "entered"
    /\ pc'[c] = "admitted" => pc[c] = "entered" /\ ~over
    /\ pc'[c] \in Booking => pc[c] \in Booking \/ tok[c] = None
    /\ pc[c] \in Booking \cup {"settle"} => pc'[c] \in Booking \cup {"settle"}
    /\ pc'[c] \in Decided
       => \/ pc[c] \in Decided \cup Booking
          \/ tok[c] = None
          \/ pc[c] = "entered" /\ over

(* Every step of an action is plain or one of five.                          *)
LEMMA ActKinds ==
  ASSUME Typed, NEW c \in Callers, Act(c)
  PROVE  \/ Leave(c) \/ Reserve(c) \/ Commit(c) \/ Mutate(c) \/ Settle(c)
         \/ Plain(c)
<1> USE DEF Typed, TypeOK, TypeCall, Booking, Decided, store, ledger, request,
            local, history, session, Go
<1>1. CASE Admit(c)
  <2>1. Moves(c)
    BY <1>1, ActMoves DEF Admit, Leave
  <2>2. pc[c] = "entered" /\ pc'[c] = IF over THEN "settle" ELSE "admitted"
    BY <1>1 DEF Admit, Booking
  <2>3. Unleased
    BY <1>1 DEF Admit, Unleased
  <2> QED BY <2>1, <2>2, <2>3 DEF Plain, Booking, Decided
<1>2. CASE ReserveNothing(c)
  <2>1. Moves(c)
    BY <1>2, ActMoves DEF ReserveNothing, Leave
  <2>2. pc[c] = "admitted" /\ tok[c] = None /\ pc'[c] \in {"settle", "reserved"}
    BY <1>2 DEF ReserveNothing, Booking
  <2>3. Unleased
    BY <1>2 DEF ReserveNothing, Unleased
  <2> QED BY <2>1, <2>2, <2>3 DEF Plain, Booking, Decided
<1>3. CASE Refuse(c)
  <2>1. Moves(c)
    BY <1>3, ActMoves DEF Refuse, Leave
  <2>2. pc[c] \in Booking /\ pc'[c] = "settle"
    BY <1>3 DEF Refuse, Booking
  <2>3. Unleased
    BY <1>3 DEF Refuse, Unleased
  <2> QED BY <2>1, <2>2, <2>3 DEF Plain, Booking, Decided
<1>4. CASE Retain(c)
  <2>1. Moves(c)
    BY <1>4, ActMoves DEF Retain, Leave
  <2>2. pc[c] = "reserved" /\ pc'[c] = "retained"
    BY <1>4 DEF Retain, Booking
  <2>3. Unleased
    BY <1>4 DEF Retain, Unleased
  <2> QED BY <2>1, <2>2, <2>3 DEF Plain, Booking, Decided
<1>5. CASE Accept(c)
  <2>1. Moves(c)
    BY <1>5, ActMoves DEF Accept, Leave
  <2>2. pc[c] = "retained" /\ pc'[c] = "accepted"
    BY <1>5 DEF Accept, Booking
  <2>3. Unleased
    BY <1>5 DEF Accept, Unleased
  <2> QED BY <2>1, <2>2, <2>3 DEF Plain, Booking, Decided
<1>6. CASE Precheck(c)
  <2>1. Moves(c)
    BY <1>6, ActMoves DEF Precheck, Leave
  <2>2. pc[c] = "accepted" /\ pc'[c] \in {"native", "settle"}
    BY <1>6 DEF Precheck, Check, Booking
  <2>3. Unleased
    BY <1>6 DEF Precheck, Check, Unleased
  <2> QED BY <2>1, <2>2, <2>3 DEF Plain, Booking, Decided
<1>7. CASE FinalGate(c)
  <2>1. Moves(c)
    BY <1>7, ActMoves DEF FinalGate, Leave
  <2>2. pc[c] = "native" /\ pc'[c] \in {"native", "settle"}
    BY <1>7 DEF FinalGate, Booking
  <2>3. Unleased
    BY <1>7 DEF FinalGate, Unleased
  <2> QED BY <2>1, <2>2, <2>3 DEF Plain, Booking, Decided
<1>8. CASE NativeFails(c)
  <2>1. Moves(c)
    BY <1>8, ActMoves DEF NativeFails, Leave
  <2>2. pc[c] = "native" /\ pc'[c] = "settle"
    BY <1>8 DEF NativeFails, Booking
  <2>3. Unleased
    BY <1>8 DEF NativeFails, Unleased
  <2> QED BY <2>1, <2>2, <2>3 DEF Plain, Booking, Decided
<1>9. CASE Account(c)
  <2>1. Moves(c)
    BY <1>9, ActMoves DEF Account, Leave
  <2>2. pc[c] = "mutated" /\ pc'[c] \in {"verifying", "settle"}
    BY <1>9 DEF Account, Booking
  <2>3. Unleased
    BY <1>9 DEF Account, Unleased
  <2> QED BY <2>1, <2>2, <2>3 DEF Plain, Booking, Decided
<1>10. CASE Verify(c)
  <2>1. Moves(c)
    BY <1>10, ActMoves DEF Verify, Leave
  <2>2. pc[c] = "verifying" /\ pc'[c] \in {"verifying", "settle"}
    BY <1>10 DEF Verify, Check, Booking
  <2>3. Unleased
    BY <1>10 DEF Verify, Check, Unleased
  <2> QED BY <2>1, <2>2, <2>3 DEF Plain, Booking, Decided
<1>11. CASE VerifyCancelled(c)
  <2>1. Moves(c)
    BY <1>11, ActMoves DEF VerifyCancelled, Leave
  <2>2. pc[c] = "verifying" /\ pc'[c] = "settle"
    BY <1>11 DEF VerifyCancelled, Booking
  <2>3. Unleased
    BY <1>11 DEF VerifyCancelled, Unleased
  <2> QED BY <2>1, <2>2, <2>3 DEF Plain, Booking, Decided
<1>12. CASE FinishAudit(c)
  <2>1. Moves(c)
    BY <1>12, ActMoves DEF FinishAudit, Leave
  <2>2. pc[c] = "audit" /\ pc'[c] = "leave"
    BY <1>12 DEF FinishAudit, Booking
  <2>3. Unleased
    BY <1>12 DEF FinishAudit, Unleased
  <2> QED BY <2>1, <2>2, <2>3 DEF Plain, Booking, Decided
<1> QED
  BY <1>1, <1>2, <1>3, <1>4, <1>5, <1>6, <1>7, <1>8, <1>9,
     <1>10, <1>11, <1>12 DEF Act

(* A lease is used once, after the one call that committed it.                 *)
Ledger ==
    /\ closed => \A l \in Leases : status[l] = "absent"
    /\ \A l \in Leases :
         uses[l] = 0 \/ (uses[l] = 1 /\ (status[l] = "consumed" \/ closed))
    /\ \A c \in Callers :
         pc[c] = "committed" /\ tok[c] # None
         => status[tok[c]] = "consumed" /\ uses[tok[c]] = 0
    /\ \A l \in Leases :
         status[l] = "consumed" /\ uses[l] = 0
         => \E c \in Callers : pc[c] = "committed" /\ tok[c] = l

LInv == GInv /\ Ledger

(* There are no leases at first.                                             *)
LEMMA InitLedger == Init => Ledger
  BY DEF Init, Ledger

(* The clock, observations and Close keep the ledger.                        *)
LEMMA OutsideLedger ==
  ASSUME LInv,
         \/ Tick \/ LifetimeEnds \/ Close
         \/ \E o \in Observations :
              Observe(o) \/ CloseCapture(o) \/ ReleaseObservation(o)
  PROVE  Ledger'
<1> USE NameAssumption
    DEF LInv, GInv, Typed, TypeOK, TypeLedger, TypeRequest, Ledger, store,
        ledger, request, local, history, session
<1>1. CASE Tick \/ LifetimeEnds \/ CloseBegins \/ CloseEnters
  BY <1>1 DEF Tick, LifetimeEnds, CloseBegins, CloseEnters
<1>2. CASE CloseLeases
  <2>1. \A c \in Callers : pc[c] # "committed"
    BY <1>2 DEF CloseLeases, Gated, Inside, Acting
  <2> QED BY <1>2, <2>1 DEF CloseLeases
<1>3. CASE CloseObservations
  BY <1>3 DEF CloseObservations
<1>4. ASSUME NEW o \in Observations, Observe(o) \/ CloseCapture(o)
      PROVE  Ledger'
  BY <1>4 DEF Observe, CloseCapture
<1>5. ASSUME NEW o \in Observations, ReleaseObservation(o)
      PROVE  Ledger'
  BY <1>5 DEF ReleaseObservation, Dependent, Active
<1> QED BY <1>1, <1>2, <1>3, <1>4, <1>5 DEF Close

(* Entering, giving up and resolving keep the ledger.                        *)
LEMMA CallLedger ==
  ASSUME LInv, NEW c \in Callers, Call(c) \/ Resolve(c)
  PROVE  Ledger'
<1> USE NameAssumption
    DEF LInv, GInv, Typed, TypeOK, TypeLedger, TypeRequest, TypeCall, Ledger,
        store, ledger, request, local, history, session, Go
<1>1. CASE AskResolve(c) \/ Select(c) \/ ResolveFails(c)
  BY <1>1 DEF AskResolve, Select, ResolveFails
<1>2. CASE Enter(c)
  BY <1>2 DEF Enter, Waiting
<1>3. CASE AskAct(c)
  BY <1>3 DEF AskAct, InvalidateIssued, Spoil
<1>4. CASE GiveUp(c)
  BY <1>4 DEF GiveUp, InvalidateIssued, Spoil, Return, Waiting
<1>5. CASE Issue(c)
  BY <1>5 DEF Issue
<1>6. CASE FinishResolve(c)
  BY <1>6 DEF FinishResolve, InvalidateIssued, Spoil, Return
<1> QED BY <1>1, <1>2, <1>3, <1>4, <1>5, <1>6 DEF Call, Resolve

(* Every step of an action keeps the ledger.                                 *)
LEMMA ActLedger ==
  ASSUME LInv, NEW c \in Callers, Act(c)
  PROVE  Ledger'
<1> USE NameAssumption
    DEF LInv, GInv, Typed, TypeOK, TypeLedger, TypeRequest, TypeCall, Ledger,
        store, ledger, request, local, history, session, Go
<1>1. CASE Plain(c)
  BY <1>1 DEF Plain, Unleased, Moves
<1>2. CASE Reserve(c)
  BY <1>2 DEF Reserve, Reservable
<1>3. CASE Commit(c)
  <2>1. \A d \in Callers : pc[d] # "committed"
    BY <1>3 DEF Commit, Gated, Inside, Acting
  <2> QED BY <1>3, <2>1 DEF Commit
<1>4. CASE Mutate(c)
  <2>1. \A d \in Callers : pc[d] = "committed" => d = c
    BY <1>4 DEF Mutate, Gated, Inside, Acting
  <2> QED BY <1>4, <2>1 DEF Mutate
<1>5. CASE Settle(c)
  BY <1>5 DEF Settle, Unbook, Spoil
<1>6. CASE Leave(c)
  BY <1>6 DEF Leave, Return
<1> QED BY <1>1, <1>2, <1>3, <1>4, <1>5, <1>6, ActKinds

(* Every step keeps the ledger.                                              *)
LEMMA StepLedger == LInv /\ [Next]_vars => LInv'
<1> SUFFICES ASSUME LInv, [Next]_vars PROVE Ledger'
  BY StepGated DEF LInv
<1>1. CASE UNCHANGED vars
  BY <1>1 DEF vars, LInv, Ledger
<1>2. CASE Next
  BY <1>2, OutsideLedger, CallLedger, ActLedger DEF Next
<1> QED BY <1>1, <1>2

(* The ledger is always kept.                                                *)
THEOREM AlwaysLedger == Spec => []LInv
<1>1. Init => LInv
  BY InitTyped, InitGated, InitLedger DEF LInv, GInv
<1> QED BY <1>1, StepLedger, PTL DEF Spec

(* No lease runs two native actions, whoever presents it and however often.    *)
THEOREM LeaseActsAtMostOnce == Spec => []AtMostOnce
<1>1. LInv => AtMostOnce
  BY DEF LInv, GInv, Typed, TypeOK, TypeLedger, Ledger, AtMostOnce
<1> QED BY <1>1, AlwaysLedger, PTL
-----------------------------------------------------------------------------
(* A lease that can still act rests on observations that are retained, and     *)
(* ends before its image is too old.                                           *)
Timely == \A l \in Leases :
    status[l] \in Active /\ evidence[l] # None
    => expires[l] <= born[evidence[l]] + EvidenceAge

Grounded == RootsLive /\ Timely

RInv == LInv /\ Grounded

(* No lease rests on anything at first.                                      *)
LEMMA InitGrounded == Init => Grounded
  BY DEF Init, Grounded, RootsLive, Timely, Active

(* The clock, observations and Close leave leases grounded.                  *)
LEMMA OutsideGrounded ==
  ASSUME RInv,
         \/ Tick \/ LifetimeEnds \/ Close
         \/ \E o \in Observations :
              Observe(o) \/ CloseCapture(o) \/ ReleaseObservation(o)
  PROVE  Grounded'
<1> USE NameAssumption
    DEF RInv, LInv, GInv, Typed, TypeOK, TypeLedger, TypeStore, Grounded,
        RootsLive, Timely, Roots, Active, store, ledger, history, session
<1>1. CASE Tick \/ LifetimeEnds \/ CloseBegins \/ CloseEnters
  BY <1>1 DEF Tick, LifetimeEnds, CloseBegins, CloseEnters
<1>2. CASE CloseLeases
  BY <1>2 DEF CloseLeases
<1>3. CASE CloseObservations
  <2>1. \A l \in Leases : status'[l] = "absent"
    BY <1>3 DEF CloseObservations, Gated, Ledger
  <2> QED BY <2>1
<1>4. ASSUME NEW o \in Observations, Observe(o)
      PROVE  Grounded'
  <2>1. live \subseteq live' /\ UNCHANGED <<status, tree, evidence, expires>>
    BY <1>4 DEF Observe
  <2>2. \A i \in Images : i \in live => born'[i] = born[i]
    BY <1>4 DEF Observe
  <2> QED BY <2>1, <2>2
<1>5. ASSUME NEW o \in Observations, CloseCapture(o)
      PROVE  Grounded'
  BY <1>5 DEF CloseCapture
<1>6. ASSUME NEW o \in Observations, ReleaseObservation(o)
      PROVE  Grounded'
  BY <1>6 DEF ReleaseObservation, Dependent
<1> QED BY <1>1, <1>2, <1>3, <1>4, <1>5, <1>6 DEF Close

(* A lease is issued grounded, and no other call moves it.                   *)
LEMMA CallGrounded ==
  ASSUME RInv, NEW c \in Callers, Call(c) \/ Resolve(c)
  PROVE  Grounded'
<1> USE NameAssumption
    DEF RInv, LInv, GInv, Typed, TypeOK, TypeLedger, Grounded, RootsLive,
        Timely, Roots, Active, store, ledger, history, session
<1>1. CASE AskResolve(c) \/ Enter(c) \/ Select(c) \/ ResolveFails(c)
  BY <1>1 DEF AskResolve, Enter, Select, ResolveFails
<1>2. CASE AskAct(c)
  BY <1>2 DEF AskAct, InvalidateIssued, Spoil
<1>3. CASE GiveUp(c)
  BY <1>3 DEF GiveUp, InvalidateIssued, Spoil
<1>4. CASE FinishResolve(c)
  BY <1>4 DEF FinishResolve, InvalidateIssued, Spoil
<1>5. CASE Issue(c)
  <2> USE <1>5 DEF Issue
  <2>1. PICK k \in Leases, d \in Durations :
          /\ tree' = [tree EXCEPT ![k] = wish[c]]
          /\ evidence' = [evidence EXCEPT ![k] = image[c]]
          /\ expires' = [expires EXCEPT ![k] =
                           IF image[c] = None THEN now + d
                           ELSE Earlier(now + d, born[image[c]] + EvidenceAge)]
          /\ status' = [status EXCEPT ![k] = "issued"]
    OBVIOUS
  <2>2. UNCHANGED store /\ wish[c] \in live
        /\ image[c] \in (Images \cap live) \cup {None}
    BY DEF StillThere, TypeRequest
  <2>3. image[c] # None => expires'[k] <= born[image[c]] + EvidenceAge
    <3> SUFFICES ASSUME image[c] # None
                 PROVE  expires'[k] <= born[image[c]] + EvidenceAge
      OBVIOUS
    <3>1. born[image[c]] \in Nat /\ now \in Nat /\ d \in Nat
      BY <2>2, SemanticAssumption DEF TypeStore, TypeSession
    <3> QED BY <2>1, <3>1, SemanticAssumption DEF Earlier
  <2> HIDE DEF Issue
  <2> QED BY <2>1, <2>2, <2>3
<1> QED BY <1>1, <1>2, <1>3, <1>4, <1>5 DEF Call, Resolve

(* Every step of an action leaves leases grounded.                           *)
LEMMA ActGrounded ==
  ASSUME RInv, NEW c \in Callers, Act(c)
  PROVE  Grounded'
<1> USE NameAssumption
    DEF RInv, LInv, GInv, Typed, TypeOK, TypeLedger, Grounded, RootsLive,
        Timely, Roots, Active, store, ledger, history, session
<1>1. CASE Plain(c)
  BY <1>1 DEF Plain, Unleased
<1>2. CASE Reserve(c)
  BY <1>2 DEF Reserve, Reservable
<1>3. CASE Commit(c)
  BY <1>3 DEF Commit
<1>4. CASE Mutate(c) \/ Leave(c)
  BY <1>4 DEF Mutate, Leave
<1>5. CASE Settle(c)
  BY <1>5 DEF Settle, Unbook, Spoil
<1> QED BY <1>1, <1>2, <1>3, <1>4, <1>5, ActKinds DEF RInv, LInv, GInv

(* Every step leaves leases grounded.                                        *)
LEMMA StepGrounded == RInv /\ [Next]_vars => RInv'
<1> SUFFICES ASSUME RInv, [Next]_vars PROVE Grounded'
  BY StepLedger DEF RInv
<1>1. CASE UNCHANGED vars
  BY <1>1 DEF vars, RInv, Grounded, RootsLive, Timely, Roots
<1>2. CASE Next
  BY <1>2, OutsideGrounded, CallGrounded, ActGrounded DEF Next
<1> QED BY <1>1, <1>2

(* Leases that can act are always grounded.                                  *)
THEOREM AlwaysGrounded == Spec => []RInv
<1>1. Init => RInv
  BY InitTyped, InitGated, InitLedger, InitGrounded DEF RInv, LInv, GInv
<1> QED BY <1>1, StepGrounded, PTL DEF Spec

(* A lease that can still act rests on retained observations, in whatever      *)
(* order they are copied, released and checked.                                *)
THEOREM RootsStayLive == Spec => []RootsLive
<1>1. RInv => RootsLive
  BY DEF RInv, Grounded
<1> QED BY <1>1, AlwaysGrounded, PTL

(* Outside an action a lease is only issued or invalidated.                    *)
LEMMA CallOnlyIssues ==
  ASSUME Typed, NEW c \in Callers, Call(c) \/ Resolve(c), NEW l \in Leases
  PROVE  status'[l] \in {status[l], "issued", "invalidated"}
<1> USE DEF Typed, TypeOK, TypeLedger, ledger, InvalidateIssued, Spoil
<1>1. CASE AskResolve(c) \/ Enter(c) \/ Select(c) \/ ResolveFails(c)
  BY <1>1 DEF AskResolve, Enter, Select, ResolveFails
<1>2. CASE AskAct(c) \/ GiveUp(c)
  BY <1>2 DEF AskAct, GiveUp
<1>3. CASE Issue(c)
  BY <1>3 DEF Issue
<1>4. CASE FinishResolve(c)
  BY <1>4 DEF FinishResolve
<1> QED BY <1>1, <1>2, <1>3, <1>4 DEF Call, Resolve

(* Only a commit consumes a lease.                                             *)
LEMMA Consumes ==
  ASSUME RInv, Next, NEW l \in Leases,
         status[l] # "consumed", status'[l] = "consumed"
  PROVE  status[l] = "reserved" /\ now < expires[l]
<1> USE DEF RInv, LInv, GInv, Typed, TypeOK, TypeLedger, store, ledger,
            history, session
<1>1. CASE Tick \/ LifetimeEnds \/ Close
  BY <1>1 DEF Tick, LifetimeEnds, Close, CloseBegins, CloseEnters,
              CloseLeases, CloseObservations
<1>2. ASSUME NEW o \in Observations,
             Observe(o) \/ CloseCapture(o) \/ ReleaseObservation(o)
      PROVE  FALSE
  BY <1>2 DEF Observe, CloseCapture, ReleaseObservation
<1>3. ASSUME NEW c \in Callers, Call(c) \/ Resolve(c)
      PROVE  FALSE
  BY <1>3, CallOnlyIssues
<1>4. ASSUME NEW c \in Callers, Act(c)
      PROVE  status[l] = "reserved" /\ now < expires[l]
  <2>1. CASE Commit(c)
    BY <2>1 DEF Commit
  <2>2. CASE ~Commit(c)
    BY <1>4, <2>2, ActKinds
       DEF Plain, Unleased, Leave, Reserve, Mutate, Settle, Unbook, Spoil
  <2> QED BY <2>1, <2>2
<1> QED BY <1>1, <1>2, <1>3, <1>4 DEF Next

(* Every commit is made in time, on retained observations and on an image      *)
(* young enough to count.                                                      *)
THEOREM CommitIsGrounded == Spec => CommitGrounded
<1> DEFINE Step == \A l \in Leases :
                      status[l] # "consumed" /\ status'[l] = "consumed" =>
                         /\ Roots(l) \subseteq live
                         /\ now < expires[l]
                         /\ evidence[l] # None
                            => now < born[evidence[l]] + EvidenceAge
<1>1. RInv /\ [Next]_vars => [Step]_vars
  <2> SUFFICES ASSUME RInv, Next, NEW l \in Leases,
                      status[l] # "consumed", status'[l] = "consumed"
               PROVE  /\ Roots(l) \subseteq live
                      /\ now < expires[l]
                      /\ evidence[l] # None
                         => now < born[evidence[l]] + EvidenceAge
    OBVIOUS
  <2>1. status[l] = "reserved" /\ now < expires[l]
    BY Consumes
  <2>2. Roots(l) \subseteq live
    BY <2>1 DEF RInv, Grounded, RootsLive, Active
  <2>3. evidence[l] # None => expires[l] <= born[evidence[l]] + EvidenceAge
    BY <2>1 DEF RInv, Grounded, Timely, Active
  <2>4. evidence[l] # None => born[evidence[l]] \in Nat
    BY SemanticAssumption
       DEF RInv, LInv, GInv, Typed, TypeOK, TypeLedger, TypeStore
  <2>5. now \in Nat /\ expires[l] \in Nat
    BY SemanticAssumption
       DEF RInv, LInv, GInv, Typed, TypeOK, TypeLedger, TypeSession
  <2> QED BY <2>1, <2>2, <2>3, <2>4, <2>5, SemanticAssumption
<1> QED BY <1>1, AlwaysGrounded, PTL DEF Spec, CommitGrounded
-----------------------------------------------------------------------------
(* Semantic actions implement SingleUseAuthority.                              *)
Aside == UNCHANGED <<status, uses, tree, evidence, live, closed>>

(* A step that touches no lease is a stutter of the authority.               *)
LEMMA AsideStutters == Aside => UNCHANGED SUA!authorityVars
  BY DEF Aside, SUA!authorityVars, Authority, Rests, Roots

(* The leases that can act are the held grants.                              *)
LEMMA ActiveIsHeld ==
  ASSUME RInv, NEW l \in Leases
  PROVE  /\ Authority[l] = "held" <=> status[l] \in Active
         /\ status[l] \in Active => uses[l] = 0
  BY DEF RInv, LInv, Ledger, Authority, Active

(* Giving a lease up that could still act revokes it.                          *)
LEMMA SpoilRevokes ==
  ASSUME RInv, NEW l \in Leases, NEW s \in {"invalidated", "expired"},
         status[l] \in Active, status' = [status EXCEPT ![l] = s],
         UNCHANGED <<uses, tree, evidence, live, closed>>
  PROVE  SUA!Revoke
<1>1. uses[l] = 0 /\ Authority[l] = "held"
  BY ActiveIsHeld
<1>2. Authority' = [Authority EXCEPT ![l] = "dead"]
  BY <1>1 DEF RInv, LInv, GInv, Typed, TypeOK, TypeLedger, Authority, Active
<1>3. Rests' = Rests
  BY DEF Rests, Roots
<1> QED BY <1>1, <1>2, <1>3 DEF SUA!Revoke

(* Invalidating an issued lease revokes it, or changes nothing.              *)
LEMMA InvalidateInAuthority ==
  ASSUME RInv, NEW l \in Leases \cup {None}, InvalidateIssued(l),
         UNCHANGED <<uses, tree, evidence, live, closed>>
  PROVE  SUA!Revoke \/ UNCHANGED SUA!authorityVars
<1>1. CASE l # None /\ status[l] = "issued"
  BY <1>1, SpoilRevokes DEF InvalidateIssued, Spoil, Active
<1>2. CASE ~(l # None /\ status[l] = "issued")
  <2>1. status' = status
    BY <1>2, NameAssumption
       DEF InvalidateIssued, Spoil, RInv, LInv, GInv, Typed, TypeOK, TypeLedger
  <2> QED BY <2>1, AsideStutters DEF Aside
<1> QED BY <1>1, <1>2

(* A new session grants nothing.                                             *)
LEMMA StartsInAuthority == Init => SUA!AuthorityInit
  BY DEF Init, SUA!AuthorityInit, Authority, Rests, Roots, Active

(* Observing collects, releasing retires, closing stops.                     *)
LEMMA OutsideInAuthority ==
  ASSUME RInv,
         \/ Tick \/ LifetimeEnds \/ Close
         \/ \E o \in Observations :
              Observe(o) \/ CloseCapture(o) \/ ReleaseObservation(o)
  PROVE  SUA!AuthorityNext \/ UNCHANGED SUA!authorityVars
<1> USE DEF store, ledger, history, session
<1>1. CASE Tick \/ LifetimeEnds \/ CloseBegins \/ CloseEnters
  BY <1>1, AsideStutters
     DEF Tick, LifetimeEnds, CloseBegins, CloseEnters, Aside
<1>2. ASSUME NEW o \in Observations, CloseCapture(o)
      PROVE  UNCHANGED SUA!authorityVars
  BY <1>2, AsideStutters DEF CloseCapture, Aside
<1>3. ASSUME NEW o \in Observations, Observe(o)
      PROVE  SUA!Collect \/ UNCHANGED SUA!authorityVars
  <2>1. CASE live' = live
    BY <1>3, <2>1, AsideStutters DEF Observe, Aside
  <2>2. CASE live' = live \cup {o}
    <3>1. ~closed
      BY <1>3 DEF Observe, RInv, LInv, GInv, Gated
    <3>2. UNCHANGED <<Authority, Rests, closed>>
      BY <1>3 DEF Observe, Authority, Rests, Roots
    <3> QED BY <2>2, <3>1, <3>2 DEF SUA!Collect
  <2> QED BY <1>3, <2>1, <2>2 DEF Observe
<1>4. ASSUME NEW o \in Observations, ReleaseObservation(o)
      PROVE  SUA!Retire
  <2>1. Authority' = [l \in Leases |->
                        IF Authority[l] = "held" /\ Rests[l] \cap {o} # {}
                          THEN "dead" ELSE Authority[l]]
    <3> SUFFICES ASSUME NEW l \in Leases
                 PROVE  Authority'[l] =
                          IF Authority[l] = "held" /\ Rests[l] \cap {o} # {}
                            THEN "dead" ELSE Authority[l]
      BY DEF Authority
    <3>1. l \in Dependent(o) <=> status[l] \in Active /\ Rests[l] \cap {o} # {}
      BY DEF Dependent, Rests
    <3>2. status'[l] = IF l \in Dependent(o) THEN "invalidated" ELSE status[l]
      BY <1>4 DEF ReleaseObservation
    <3>3. uses' = uses /\ closed' = closed
      BY <1>4 DEF ReleaseObservation
    <3> QED BY <3>1, <3>2, <3>3, ActiveIsHeld DEF Authority, Active
  <2>2. live' = live \ {o} /\ {o} \in SUBSET live /\ UNCHANGED <<Rests, closed>>
    BY <1>4 DEF ReleaseObservation, Rests, Roots
  <2> QED BY <2>1, <2>2 DEF SUA!Retire
<1>5. CASE CloseLeases
  <2>1. \A l \in Leases : status[l] = "consumed" => uses[l] # 0
    <3>1. \A c \in Callers : pc[c] # "committed"
      BY <1>5, NameAssumption
         DEF CloseLeases, RInv, LInv, GInv, Gated, Inside, Acting
    <3> QED BY <3>1 DEF RInv, LInv, Ledger
  <2>2. ~closed
    BY <1>5 DEF CloseLeases, RInv, LInv, GInv, Gated
  <2>3. Authority' = [l \in Leases |->
                        IF Authority[l] \in {"none", "held"}
                          THEN "dead" ELSE Authority[l]]
    <3>1. uses \in [Leases -> Nat]
      BY DEF RInv, LInv, GInv, Typed, TypeOK, TypeLedger
    <3> QED BY <1>5, <2>1, <2>2, <3>1 DEF CloseLeases, Authority, Active
  <2>4. closed' = TRUE /\ UNCHANGED <<Rests, live>>
    BY <1>5 DEF CloseLeases, Rests, Roots
  <2> QED BY <2>3, <2>4 DEF SUA!Stop, SUA!AuthorityNext
<1>6. CASE CloseObservations
  <2>1. \A l \in Leases : status[l] = "absent"
    BY <1>6 DEF CloseObservations, RInv, LInv, GInv, Gated, Ledger
  <2>2. \A l \in Leases : Authority[l] # "held"
    BY <2>1, ActiveIsHeld DEF Active
  <2>3. UNCHANGED <<Authority, Rests, closed>> /\ live' = live \ live
    BY <1>6 DEF CloseObservations, Authority, Rests, Roots
  <2>4. Authority' = [l \in Leases |->
                        IF Authority[l] = "held" /\ Rests[l] \cap live # {}
                          THEN "dead" ELSE Authority[l]]
    BY <2>2, <2>3 DEF Authority
  <2>5. live \in SUBSET live
    OBVIOUS
  <2> QED BY <2>3, <2>4, <2>5 DEF SUA!Retire, SUA!AuthorityNext
<1> QED
  BY <1>1, <1>2, <1>3, <1>4, <1>5, <1>6 DEF Close, SUA!AuthorityNext

(* Issuing grants, giving up revokes.                                        *)
LEMMA CallInAuthority ==
  ASSUME RInv, NEW c \in Callers, Call(c) \/ Resolve(c)
  PROVE  SUA!AuthorityNext \/ UNCHANGED SUA!authorityVars
<1> USE DEF store, ledger, history, session
<1>1. CASE AskResolve(c) \/ Enter(c) \/ Select(c) \/ ResolveFails(c)
  BY <1>1, AsideStutters
     DEF AskResolve, Enter, Select, ResolveFails, Aside
<1>2. tok[c] \in Leases \cup {None} /\ known \subseteq Leases
  BY DEF RInv, LInv, GInv, Typed, TypeOK, TypeRequest, TypeLedger
<1>3. CASE AskAct(c)
  <2>1. UNCHANGED <<uses, tree, evidence, live, closed>>
        /\ (status' = status \/ \E l \in known \cup {None} : InvalidateIssued(l))
    BY <1>3 DEF AskAct
  <2> QED BY <1>2, <2>1, AsideStutters, InvalidateInAuthority
          DEF Aside, SUA!AuthorityNext
<1>4. CASE GiveUp(c)
  BY <1>2, <1>4, InvalidateInAuthority DEF GiveUp, SUA!AuthorityNext
<1>5. CASE FinishResolve(c)
  <2>1. UNCHANGED <<uses, tree, evidence, live, closed>>
        /\ (status' = status \/ InvalidateIssued(tok[c]))
    BY <1>5 DEF FinishResolve
  <2> QED BY <1>2, <2>1, AsideStutters, InvalidateInAuthority
          DEF Aside, SUA!AuthorityNext
<1>6. CASE Issue(c)
  <2>1. PICK l \in Leases :
          /\ status[l] = "absent" /\ ~closed
          /\ status' = [status EXCEPT ![l] = "issued"]
          /\ tree' = [tree EXCEPT ![l] = wish[c]]
          /\ evidence' = [evidence EXCEPT ![l] = image[c]]
    BY <1>6 DEF Issue
  <2>2. UNCHANGED <<uses, live, closed>> /\ wish[c] \in live
        /\ (image[c] # None => image[c] \in live)
    BY <1>6 DEF Issue, StillThere
  <2> USE DEF RInv, LInv, GInv, Typed, TypeOK, TypeLedger
  <2>3. uses[l] = 0 /\ Authority[l] = "none"
    BY <2>1 DEF Ledger, Authority, Active
  <2>4. Authority' = [Authority EXCEPT ![l] = "held"]
    BY <2>1, <2>2, <2>3 DEF Authority, Active
  <2>5. Rests' = [Rests EXCEPT ![l] = {wish[c], image[c]} \ {None}]
    BY <2>1 DEF Rests, Roots
  <2>6. {wish[c], image[c]} \ {None} \in SUBSET live
    BY <2>2
  <2> QED BY <2>1, <2>2, <2>3, <2>4, <2>5, <2>6
          DEF SUA!Grant, SUA!AuthorityNext
<1> QED BY <1>1, <1>3, <1>4, <1>5, <1>6 DEF Call, Resolve

(* Committing commits, the native action uses, a refusal revokes.            *)
LEMMA ActInAuthority ==
  ASSUME RInv, NEW c \in Callers, Act(c)
  PROVE  SUA!AuthorityNext \/ UNCHANGED SUA!authorityVars
<1> USE DEF store, ledger, history, session
<1> DEFINE l == tok[c]
<1>0. l \in Leases \cup {None} /\ None \notin Leases
      /\ status \in [Leases -> Statuses] /\ uses \in [Leases -> Nat]
  BY NameAssumption
     DEF RInv, LInv, GInv, Typed, TypeOK, TypeRequest, TypeLedger
<1>1. CASE Plain(c)
  BY <1>1, AsideStutters DEF Plain, Unleased, Moves, Aside
<1>2. CASE Leave(c)
  BY <1>2, AsideStutters DEF Leave, Aside
<1>3. CASE Reserve(c)
  <2>1. l # None /\ UNCHANGED <<uses, tree, evidence, live, closed>>
    BY <1>3 DEF Reserve
  <2>2. CASE status' = status
    BY <2>1, <2>2, AsideStutters DEF Aside
  <2>3. CASE /\ status[l] = "issued"
             /\ \E s \in {"invalidated", "expired"} :
                  status' = [status EXCEPT ![l] = s]
    BY <1>0, <2>1, <2>3, SpoilRevokes DEF Active, SUA!AuthorityNext
  <2>4. CASE status[l] = "issued" /\ status' = [status EXCEPT ![l] = "reserved"]
    <3>1. Authority' = Authority /\ Rests' = Rests
      BY <1>0, <2>1, <2>4 DEF Authority, Active, Rests, Roots
    <3> QED BY <2>1, <3>1 DEF SUA!authorityVars
  <2> QED BY <1>3, <2>2, <2>3, <2>4 DEF Reserve, Reservable
<1>4. CASE Commit(c)
  <2>1. UNCHANGED <<uses, tree, evidence, live, closed>>
    BY <1>4 DEF Commit
  <2>2. CASE status' = status
    BY <2>1, <2>2, AsideStutters DEF Aside
  <2>3. CASE /\ l # None /\ status[l] = "reserved"
             /\ status' = [status EXCEPT ![l] = "expired"]
    BY <1>0, <2>1, <2>3, SpoilRevokes DEF Active, SUA!AuthorityNext
  <2>4. CASE /\ l # None /\ status[l] = "reserved"
             /\ status' = [status EXCEPT ![l] = "consumed"]
    <3>1. uses[l] = 0 /\ Authority[l] = "held"
      BY <1>0, <2>4, ActiveIsHeld DEF Active
    <3>2. Authority' = [Authority EXCEPT ![l] = "committed"]
      BY <1>0, <2>1, <2>4, <3>1 DEF Authority, Active
    <3>3. Rests' = Rests /\ Rests[l] \subseteq live
      BY <1>0, <2>1, <2>4 DEF Rests, Roots, RInv, Grounded, RootsLive, Active
    <3> QED BY <1>0, <2>1, <2>4, <3>1, <3>2, <3>3
            DEF SUA!Commit, SUA!AuthorityNext
  <2> QED BY <1>4, <2>2, <2>3, <2>4 DEF Commit
<1>5. CASE Mutate(c)
  <2>1. /\ UNCHANGED <<status, tree, evidence, live, closed>>
        /\ pc[c] = "committed"
        /\ uses' = [k \in Leases |-> uses[k] + IF k = l THEN 1 ELSE 0]
    BY <1>5 DEF Mutate
  <2>2. CASE l = None
    <3>1. uses' = uses
      BY <1>0, <2>1, <2>2
    <3> QED BY <2>1, <3>1, AsideStutters DEF Aside
  <2>3. CASE l # None
    <3>1. status[l] = "consumed" /\ uses[l] = 0
      BY <2>1, <2>3 DEF RInv, LInv, Ledger
    <3>2. Authority[l] = "committed"
      BY <1>0, <2>3, <3>1 DEF Authority, Active
    <3>3. Authority' = [Authority EXCEPT ![l] = "used"]
      <4>1. uses'[l] = 1 /\ \A k \in Leases \ {l} : uses'[k] = uses[k]
        BY <1>0, <2>1, <2>3, <3>1
      <4>2. Authority'[l] = "used"
        BY <1>0, <2>3, <4>1 DEF Authority
      <4>3. \A k \in Leases \ {l} : Authority'[k] = Authority[k]
        BY <2>1, <4>1 DEF Authority
      <4> QED BY <4>2, <4>3 DEF Authority
    <3>4. Rests' = Rests
      BY <2>1 DEF Rests, Roots
    <3> QED BY <1>0, <2>1, <2>3, <3>2, <3>3, <3>4 DEF SUA!Use, SUA!AuthorityNext
  <2> QED BY <2>2, <2>3
<1>6. CASE Settle(c)
  <2>1. UNCHANGED <<uses, tree, evidence, live, closed>>
    BY <1>6 DEF Settle
  <2>2. CASE l # None /\ status[l] = "reserved" /\ booked[c]
    <3>1. status' = [status EXCEPT ![l] = "invalidated"]
      BY <1>6, <2>2 DEF Settle, Unbook, Spoil
    <3> QED BY <1>0, <2>1, <2>2, <3>1, SpoilRevokes DEF Active, SUA!AuthorityNext
  <2>3. CASE ~(l # None /\ status[l] = "reserved" /\ booked[c])
    <3>1. status' = status
      BY <1>0, <1>6, <2>3 DEF Settle, Unbook, Spoil
    <3> QED BY <2>1, <3>1, AsideStutters DEF Aside
  <2> QED BY <2>2, <2>3
<1> QED
  BY <1>1, <1>2, <1>3, <1>4, <1>5, <1>6, ActKinds DEF RInv, LInv, GInv

(* Every behaviour of the session is one that SingleUseAuthority allows.       *)
THEOREM ActionsImplementAuthority == Spec => ImplementsAuthority
<1>1. RInv /\ [Next]_vars => [SUA!AuthorityNext]_(SUA!authorityVars)
  <2> SUFFICES ASSUME RInv, [Next]_vars
               PROVE  SUA!AuthorityNext \/ UNCHANGED SUA!authorityVars
    OBVIOUS
  <2>1. CASE UNCHANGED vars
    BY <2>1, AsideStutters DEF vars, Aside
  <2>2. CASE Next
    BY <2>2, OutsideInAuthority, CallInAuthority, ActInAuthority DEF Next
  <2> QED BY <2>1, <2>2
<1> QED
  BY <1>1, StartsInAuthority, AlwaysGrounded, PTL
     DEF Spec, ImplementsAuthority, SUA!AuthoritySpec
-----------------------------------------------------------------------------
(* Once Close has the gate, what is still inside only reports.                 *)
LEMMA LateIsQuiet ==
  ASSUME GInv, Next, Stopping
  PROVE  Quiet
<1> USE DEF Quiet, store, ledger, request, local, history, session
<1>0. over /\ closing # "waiting" /\ closing # "no"
  BY DEF GInv, Gated, Stopping
<1>1. CASE Tick \/ LifetimeEnds \/ Close
  BY <1>0, <1>1
     DEF Tick, LifetimeEnds, Close, CloseBegins, CloseEnters, CloseLeases,
         CloseObservations, Active
<1>2. ASSUME NEW o \in Observations,
             Observe(o) \/ CloseCapture(o) \/ ReleaseObservation(o)
      PROVE  Quiet
  BY <1>0, <1>2 DEF Observe, CloseCapture, ReleaseObservation, Active
<1>3. ASSUME NEW c \in Callers, Call(c) \/ Resolve(c)
      PROVE  Quiet
  <2>1. pc[c] # "select"
    BY DEF GInv, Gated, Late, Inside, Resolving
  <2>2. status \in [Leases -> Statuses]
    BY DEF GInv, Typed, TypeOK, TypeLedger
  <2> QED
    BY <1>3, <2>1, <2>2
       DEF Call, Resolve, AskResolve, AskAct, Enter, GiveUp, Select, Issue,
           ResolveFails, FinishResolve, InvalidateIssued, Spoil, Active
<1>4. ASSUME NEW c \in Callers, Act(c)
      PROVE  Quiet
  <2>1. pc[c] \in Inside => pc[c] \in Late
    BY DEF GInv, Gated
  <2>2. pc[c] \notin {"admitted", "native", "committed"}
    BY <2>1 DEF Late, Inside, Acting
  <2>3. status \in [Leases -> Statuses]
    BY DEF GInv, Typed, TypeOK, TypeLedger
  <2>4. Plain(c) \/ Leave(c) \/ Settle(c)
    BY <1>4, <2>2, ActKinds DEF GInv, Reserve, Commit, Mutate
  <2> QED
    BY <2>3, <2>4 DEF Plain, Unleased, Leave, Settle, Unbook, Spoil, Active
<1> QED BY <1>1, <1>2, <1>3, <1>4 DEF Next

(* From the moment Close has the gate nothing is done to the desktop, nothing  *)
(* is retained and no lease is issued or reserved.                             *)
THEOREM CloseIsQuiet == Spec => QuietAfterClose
<1>1. GInv /\ [Next]_vars => [Stopping => Quiet]_vars
  BY LateIsQuiet
<1> QED BY <1>1, AlwaysGated, PTL DEF Spec, QuietAfterClose

-----------------------------------------------------------------------------
(* Only one call is inside.                                                    *)
LEMMA Alone ==
  ASSUME GInv, NEW c \in Callers, pc[c] \in Inside
  PROVE  \A d \in Callers \ {c} : pc[d] \notin Inside
  BY DEF GInv, Gated

(* What a call reports of its lease is final, or the session is over.          *)
Settled(c) ==
    \/ /\ proof[c] = status[tok[c]]
       /\ proof[c] \in {"consumed", "expired", "invalidated"}
    \/ over /\ proof[c] = "invalidated"

(* A call and the lease it presents.                                           *)
BookedCall(c) ==
    /\ pc[c] = "report" /\ tok[c] # None => status[tok[c]] # "absent" \/ closed
    /\ booked[c] => /\ pc[c] \in Booking \cup {"settle"}
                    /\ tok[c] # None
                    /\ status[tok[c]] \in {"reserved", "invalidated"}
    /\ tok[c] # None /\ pc[c] \in Booking => booked[c]
    /\ tok[c] # None /\ pc[c] \in {"acting", "entered", "admitted"}
       => proof[c] = "invalidated"
    /\ tok[c] # None /\ pc[c] \in Decided /\ ~booked[c] => Settled(c)

(* The reserved leases are those of the calls that booked them, and a call     *)
(* with no booking left knows its lease's fate.                                *)
Booked ==
    /\ \A l \in known : status[l] # "absent" \/ closed
    /\ \A c \in Callers : BookedCall(c)
    /\ \A l \in Leases :
         status[l] = "reserved" => \E c \in Callers : booked[c] /\ tok[c] = l
    /\ \A l \in answered :
         status[l] = "issued" => over /\ \A c \in Callers : pc[c] # "admitted"

BInv == RInv /\ Booked

(* Nothing is booked at first.                                               *)
LEMMA InitBooked == Init => Booked
  BY DEF Init, Booked, BookedCall, Booking, Decided

(* The clock, observations and Close leave bookings truthful.                *)
LEMMA OutsideBooked ==
  ASSUME BInv,
         \/ Tick \/ LifetimeEnds \/ Close
         \/ \E o \in Observations :
              Observe(o) \/ CloseCapture(o) \/ ReleaseObservation(o)
  PROVE  Booked'
<1> USE NameAssumption
    DEF BInv, RInv, LInv, GInv, Typed, TypeOK, TypeLedger, TypeRequest, Booked,
        BookedCall, Settled, store, ledger, request, local, history, session
<1>1. CASE Tick \/ LifetimeEnds \/ CloseBegins \/ CloseEnters
  BY <1>1 DEF Tick, LifetimeEnds, CloseBegins, CloseEnters
<1>2. CASE CloseLeases
  <2>1. \A c \in Callers : pc[c] \notin Inside
    BY <1>2 DEF CloseLeases, Gated
  <2>2. \A c \in Callers : pc[c] \notin Booking \cup Decided /\ ~booked[c]
    BY <2>1 DEF Inside, Acting, Booking, Decided
  <2> QED BY <1>2, <2>2 DEF CloseLeases
<1>3. CASE CloseObservations
  BY <1>3 DEF CloseObservations
<1>4. ASSUME NEW o \in Observations, Observe(o) \/ CloseCapture(o)
      PROVE  Booked'
  BY <1>4 DEF Observe, CloseCapture
<1>5. ASSUME NEW o \in Observations, ReleaseObservation(o)
      PROVE  Booked'
  BY <1>5 DEF ReleaseObservation, Dependent, Active
<1> QED BY <1>1, <1>2, <1>3, <1>4, <1>5 DEF Close

(* Entering, giving up and resolving leave bookings truthful.                *)
LEMMA CallBooked ==
  ASSUME BInv, NEW c \in Callers, Call(c) \/ Resolve(c)
  PROVE  Booked'
<1> USE NameAssumption
    DEF BInv, RInv, LInv, GInv, Typed, TypeOK, TypeLedger, TypeRequest,
        TypeCall, Booked, BookedCall, Booking, Decided, Settled, store, ledger, request,
        local, history, session, Go
<1>1. CASE AskResolve(c) \/ Select(c) \/ ResolveFails(c)
  BY <1>1 DEF AskResolve, Select, ResolveFails, TokensKnown
<1>2. CASE Enter(c)
  BY <1>2 DEF Enter, Waiting
<1>3. CASE AskAct(c)
  BY <1>3 DEF AskAct, InvalidateIssued, Spoil
<1>4. CASE GiveUp(c)
  BY <1>4 DEF GiveUp, InvalidateIssued, Spoil, Return, Waiting
<1>5. CASE Issue(c)
  BY <1>5 DEF Issue
<1>6. CASE FinishResolve(c)
  BY <1>6 DEF FinishResolve, InvalidateIssued, Spoil, Return
<1> QED BY <1>1, <1>2, <1>3, <1>4, <1>5, <1>6 DEF Call, Resolve

(* Every step of an action leaves bookings truthful.                         *)
LEMMA ActBooked ==
  ASSUME BInv, NEW c \in Callers, Act(c)
  PROVE  Booked'
<1> USE NameAssumption
    DEF BInv, RInv, LInv, GInv, Typed, TypeOK, TypeLedger, TypeRequest,
        TypeCall, Booked, BookedCall, Booking, Decided, Settled, store, ledger, request,
        local, history, session, Go
<1>0. pc[c] \in Inside => \A d \in Callers \ {c} : pc[d] \notin Inside
  BY Alone
<1>1. CASE Plain(c)
  <2> USE <1>1 DEF Plain, Unleased, Moves
  <2>1. BookedCall(c)'
    BY DEF Acting
  <2>2. \A d \in Callers \ {c} : BookedCall(d)'
    OBVIOUS
  <2>3. \A l \in answered' :
          status'[l] = "issued" => over' /\ \A d \in Callers : pc'[d] # "admitted"
    OBVIOUS
  <2> HIDE DEF BookedCall
  <2> QED BY <2>1, <2>2, <2>3
<1>2. CASE Reserve(c)
  <2>0. pc[c] = "admitted" /\ tok[c] # None /\ status[tok[c]] # "absent"
    BY <1>2 DEF Reserve, TokensKnown, Gated, Stopping, Late, Inside, Acting
  <2>1. BookedCall(c)'
    <3>1. ~booked[c] /\ proof[c] = "invalidated"
      BY <2>0
    <3>2. status[tok[c]] # "reserved"
      BY <1>0, <2>0, <3>1 DEF Inside, Acting
    <3>3. status[tok[c]] \in {"issued", "consumed", "expired", "invalidated"}
      BY <2>0, <3>2 DEF Statuses
    <3> QED BY <1>2, <2>0, <3>1, <3>3 DEF Reserve, Reservable, Reported
  <2>2. \A d \in Callers \ {c} : BookedCall(d)'
    BY <1>0, <1>2, <2>0 DEF Reserve, Inside, Acting
  <2>3. UNCHANGED <<known, answered, closed, over>>
        /\ pc'[c] \in {"settle", "reserved"}
    BY <1>2 DEF Reserve
  <2>4. \A l \in Leases :
          status'[l] = "reserved" => \E d \in Callers : booked'[d] /\ tok'[d] = l
    BY <1>2 DEF Reserve, Reservable
  <2>5. \A l \in known : status'[l] # "absent" \/ closed
    BY <1>2 DEF Reserve
  <2>6. \A l \in answered : status'[l] = "issued" => FALSE
    BY <1>2, <2>0 DEF Reserve
  <2> HIDE DEF BookedCall
  <2> QED BY <2>1, <2>2, <2>3, <2>4, <2>5, <2>6
<1>3. CASE Commit(c)
  BY <1>0, <1>3 DEF Commit, Reported, Inside, Acting
<1>4. CASE Mutate(c)
  BY <1>4 DEF Mutate
<1>5. CASE Settle(c)
  BY <1>0, <1>5 DEF Settle, Unbook, Spoil, Inside, Acting
<1>6. CASE Leave(c)
  BY <1>0, <1>6 DEF Leave, Return, Inside, Acting
<1> QED BY <1>1, <1>2, <1>3, <1>4, <1>5, <1>6, ActKinds

(* Every step leaves bookings truthful.                                      *)
LEMMA StepBooked == BInv /\ [Next]_vars => BInv'
<1> SUFFICES ASSUME BInv, [Next]_vars PROVE Booked'
  BY StepGrounded DEF BInv
<1>1. CASE UNCHANGED vars
  BY <1>1 DEF vars, BInv, Booked, BookedCall, Settled
<1>2. CASE Next
  BY <1>2, OutsideBooked, CallBooked, ActBooked DEF Next
<1> QED BY <1>1, <1>2

(* Bookings are always truthful.                                             *)
THEOREM AlwaysBooked == Spec => []BInv
<1>1. Init => BInv
  BY InitTyped, InitGated, InitLedger, InitGrounded, InitBooked
     DEF BInv, RInv, LInv, GInv
<1> QED BY <1>1, StepBooked, PTL DEF Spec

(* The proof a call returns names the state its lease is left in, unless the   *)
(* session was over.                                                           *)
THEOREM ProofIsTruthful == Spec => []ProofTruthful
<1>1. BInv => ProofTruthful
  BY DEF BInv, Booked, BookedCall, Booking, Decided, Settled, ProofTruthful
<1> QED BY <1>1, AlwaysBooked, PTL

(* Only an issued lease is reserved, by a call that has been admitted.         *)
LEMMA Reserves ==
  ASSUME BInv, Next, NEW l \in Leases,
         status[l] # "reserved", status'[l] = "reserved"
  PROVE  status[l] = "issued" /\ \E c \in Callers : pc[c] = "admitted"
<1> USE DEF BInv, RInv, LInv, GInv, Typed, TypeOK, TypeLedger, store, ledger,
            history, session
<1>1. CASE Tick \/ LifetimeEnds \/ Close
  BY <1>1 DEF Tick, LifetimeEnds, Close, CloseBegins, CloseEnters,
              CloseLeases, CloseObservations
<1>2. ASSUME NEW o \in Observations,
             Observe(o) \/ CloseCapture(o) \/ ReleaseObservation(o)
      PROVE  FALSE
  BY <1>2 DEF Observe, CloseCapture, ReleaseObservation
<1>3. ASSUME NEW c \in Callers, Call(c) \/ Resolve(c)
      PROVE  FALSE
  BY <1>3, CallOnlyIssues
<1>4. ASSUME NEW c \in Callers, Act(c)
      PROVE  status[l] = "issued" /\ pc[c] = "admitted"
  <2>1. CASE Reserve(c)
    BY <2>1 DEF Reserve, Reservable
  <2>2. CASE ~Reserve(c)
    BY <1>4, <2>2, ActKinds
       DEF Plain, Unleased, Leave, Commit, Mutate, Settle, Unbook, Spoil
  <2> QED BY <2>1, <2>2
<1> QED BY <1>1, <1>2, <1>3, <1>4 DEF Next

(* A lease that a finished call has presented is never reserved again.         *)
THEOREM AnAnswerIsFinal == Spec => AnsweredIsFinal
<1> DEFINE Step == \A l \in answered : status'[l] = "reserved" => status[l] = "reserved"
<1>1. BInv /\ [Next]_vars => [Step]_vars
  <2> SUFFICES ASSUME BInv, Next, NEW l \in answered, status'[l] = "reserved",
                      status[l] # "reserved"
               PROVE  FALSE
    OBVIOUS
  <2>1. l \in Leases
    BY DEF BInv, RInv, LInv, GInv, Typed, TypeOK, TypeLedger
  <2> QED BY <2>1, Reserves DEF BInv, Booked
<1> QED BY <1>1, AlwaysBooked, PTL DEF Spec, AnsweredIsFinal
-----------------------------------------------------------------------------
(* What a call that has the gate may still spend: nobody else spends meanwhile.*)
Fresh == {"idle", "entered", "admitted", "reserved", "retained", "accepted"}
         \cup Waiting \cup Resolving

Allotted(c) ==
    /\ pc[c] \in Fresh => count[c] = 0
    /\ pc[c] = "native" => count[c] <= FinalProbes
    /\ post[c] /\ pc[c] = "accepted" => reads + ActionReads <= MaxReads
    /\ post[c] /\ pc[c] = "native"
       => reads + FinalProbes + Attempts <= MaxReads + count[c]
    /\ post[c] /\ pc[c] \in {"committed", "mutated"} => reads + Attempts <= MaxReads
    /\ pc[c] = "verifying" => reads + Attempts <= MaxReads + count[c]
    /\ ~post[c] /\ pc[c] = "accepted" => Budget
    /\ pc[c] \in {"native", "committed", "mutated"} => Budget

(* Every native action is counted, though the count is raised afterwards.      *)
Counted ==
    /\ used <= MaxActions
    /\ \/ /\ mutations = used
          /\ \A c \in Callers : pc[c] # "mutated"
       \/ /\ mutations = used + 1
          /\ \E c \in Callers : pc[c] = "mutated"

Funded == Counted /\ \A c \in Callers : Allotted(c)

FInv == GInv /\ Funded

(* Nothing is spent at first.                                                *)
LEMMA InitFunded == Init => Funded
  BY SemanticAssumption DEF Init, Funded, Counted, Allotted

(* The clock and Close spend nothing, and an observation waits for the gate. *)
LEMMA OutsideFunded ==
  ASSUME FInv,
         \/ Tick \/ LifetimeEnds \/ Close
         \/ \E o \in Observations :
              Observe(o) \/ CloseCapture(o) \/ ReleaseObservation(o)
  PROVE  Funded'
<1> USE DEF FInv, Funded, Counted, Allotted, Budget, store, ledger, request,
            local, history, session
<1>1. CASE Tick \/ LifetimeEnds \/ Close
  BY <1>1 DEF Tick, LifetimeEnds, Close, CloseBegins, CloseEnters,
              CloseLeases, CloseObservations
<1>2. ASSUME NEW o \in Observations, CloseCapture(o) \/ ReleaseObservation(o)
      PROVE  Funded'
  BY <1>2 DEF CloseCapture, ReleaseObservation
<1>3. ASSUME NEW o \in Observations, Observe(o)
      PROVE  Funded'
  <2>1. \A c \in Callers : pc[c] \notin Inside
    BY <1>3, NameAssumption DEF Observe, GInv, Gated
  <2>2. UNCHANGED <<pc, count, post, used, mutations>>
    BY <1>3 DEF Observe
  <2> QED BY <2>1, <2>2 DEF Inside, Acting
<1> QED BY <1>1, <1>2, <1>3

(* Entering, giving up and resolving spend nothing.                          *)
LEMMA CallFunded ==
  ASSUME FInv, NEW c \in Callers, Call(c) \/ Resolve(c)
  PROVE  Funded'
<1> USE DEF FInv, GInv, Typed, TypeOK, TypeRequest, TypeCall, Funded, Counted,
            Allotted, Budget, Fresh, Waiting, Resolving, store, ledger,
            request, local, history, session, Go
<1>1. CASE AskResolve(c) \/ Enter(c) \/ Select(c) \/ ResolveFails(c)
  BY <1>1 DEF AskResolve, Enter, Select, ResolveFails
<1>2. CASE AskAct(c)
  BY <1>2 DEF AskAct
<1>3. CASE GiveUp(c) \/ FinishResolve(c)
  BY <1>3 DEF GiveUp, FinishResolve, Return
<1>4. CASE Issue(c)
  <2>1. UNCHANGED <<count, post, reads, used, mutations>>
        /\ pc[c] = "select" /\ pc' = [pc EXCEPT ![c] = "report"]
    BY <1>4 DEF Issue
  <2> QED BY <2>1
<1> QED BY <1>1, <1>2, <1>3, <1>4 DEF Call, Resolve

(* Every step of an action stays within what it was allotted.                *)
LEMMA ActFunded ==
  ASSUME FInv, NEW c \in Callers, Act(c)
  PROVE  Funded'
<1> USE DEF FInv, GInv, Typed, TypeOK
<1>0. /\ pc[c] \in Acting
      /\ \A d \in Callers \ {c} : pc[d] \notin Inside /\ pc'[d] = pc[d]
  <2>1. pc[c] \in Acting /\ \A d \in Callers \ {c} : pc'[d] = pc[d]
    BY ActMoves DEF Moves, Leave, Return, Go, TypeCall, Acting
  <2> QED BY <2>1, Alone DEF Inside
<1>1. \A d \in Callers \ {c} : Allotted(d)'
  <2> SUFFICES ASSUME NEW d \in Callers \ {c} PROVE Allotted(d)'
    OBVIOUS
  <2>1. pc[d] \notin Inside /\ pc'[d] = pc[d]
    BY <1>0
  <2>2. count'[d] = count[d]
    BY DEF Act, Admit, ReserveNothing, Reserve, Refuse, Retain, Accept,
           Precheck, FinalGate, Commit, Mutate, NativeFails, Account, Verify,
           VerifyCancelled, Settle, FinishAudit, Leave, Return, TypeCall,
           request, local, history, session
  <2> QED BY <2>1, <2>2 DEF Funded, Allotted, Inside, Acting
<1> USE DEF store, ledger, request, local, history, session, Go, TypeCall,
            TypeRequest, TypeSession, Acting
<1>2. Counted'
  <2>1. CASE Mutate(c)
    BY <1>0, <2>1 DEF Mutate, Funded, Counted, Allotted, Budget, Inside
  <2>2. CASE Account(c)
    BY <1>0, <2>2, SemanticAssumption
       DEF Account, Funded, Counted, Allotted, Budget, Inside
  <2>3. CASE ~Mutate(c) /\ ~Account(c)
    <3>1. UNCHANGED <<used, mutations>> /\ pc[c] # "mutated"
      BY <2>3 DEF Act, Admit, ReserveNothing, Reserve, Refuse, Retain, Accept,
                  Precheck, Check, FinalGate, Commit, NativeFails, Verify,
                  VerifyCancelled, Settle, FinishAudit, Leave
    <3>2. pc'[c] # "mutated"
      BY <2>3 DEF Act, Admit, ReserveNothing, Reserve, Refuse, Retain, Accept,
                  Precheck, Check, FinalGate, Commit, NativeFails, Verify,
                  VerifyCancelled, Settle, FinishAudit, Leave, Return
    <3> QED BY <1>0, <3>1, <3>2 DEF Funded, Counted
  <2> QED BY <2>1, <2>2, <2>3
<1> USE SemanticAssumption DEF Funded, Allotted, Budget, ActionReads, Fresh,
                               Waiting, Resolving
<1>3. Allotted(c)'
  <2>1. CASE Admit(c) \/ ReserveNothing(c) \/ Refuse(c) \/ Retain(c)
    BY <2>1 DEF Admit, ReserveNothing, Refuse, Retain
  <2>2. CASE Reserve(c)
    BY <2>2 DEF Reserve
  <2>3. CASE Accept(c)
    BY <2>3 DEF Accept
  <2>4. CASE Precheck(c)
    <3>1. /\ pc[c] = "accepted" /\ pc'[c] \in {"native", "settle"}
          /\ UNCHANGED <<count, post, used>>
      BY <2>4 DEF Precheck, Check
    <3>2. CASE post[c]
      <4>1. reads' = reads + 1 /\ (pc'[c] = "native" => Budget)
        BY <2>4, <3>2 DEF Precheck, Check
      <4> QED BY <3>1, <3>2, <4>1
    <3>3. CASE ~post[c]
      BY <3>1, <3>3
    <3> QED BY <3>2, <3>3
  <2>5. CASE FinalGate(c)
    BY <2>5 DEF FinalGate
  <2>6. CASE Commit(c)
    BY <2>6 DEF Commit
  <2>7. CASE Mutate(c)
    BY <2>7 DEF Mutate
  <2>8. CASE NativeFails(c) \/ VerifyCancelled(c) \/ Settle(c) \/ FinishAudit(c)
    BY <2>8 DEF NativeFails, VerifyCancelled, Settle, FinishAudit
  <2>9. CASE Account(c)
    BY <2>9 DEF Account
  <2>10. CASE Verify(c)
    <3>1. /\ pc[c] = "verifying" /\ pc'[c] \in {"verifying", "settle"}
          /\ count'[c] = count[c] + 1 /\ reads' = reads + 1
      BY <2>10 DEF Verify, Check
    <3> QED BY <3>1
  <2>11. CASE Leave(c)
    BY <2>11 DEF Leave, Return
  <2> QED BY <2>1, <2>2, <2>3, <2>4, <2>5, <2>6, <2>7, <2>8, <2>9, <2>10, <2>11
          DEF Act
<1> QED BY <1>1, <1>2, <1>3

(* Every step stays within what is allotted.                                 *)
LEMMA StepFunded == FInv /\ [Next]_vars => FInv'
<1> SUFFICES ASSUME FInv, [Next]_vars PROVE Funded'
  BY StepGated DEF FInv
<1>1. CASE UNCHANGED vars
  BY <1>1 DEF vars, FInv, Funded, Counted, Allotted, Budget
<1>2. CASE Next
  BY <1>2, OutsideFunded, CallFunded, ActFunded DEF Next
<1> QED BY <1>1, <1>2

(* Every call can always pay for what is left of it.                         *)
THEOREM AlwaysFunded == Spec => []FInv
<1>1. Init => FInv
  BY InitTyped, InitGated, InitFunded DEF FInv, GInv
<1> QED BY <1>1, StepFunded, PTL DEF Spec

(* Native actions never exceed the quota, and all of them are counted.         *)
THEOREM QuotaAlwaysHolds == Spec => []QuotaHolds
<1>1. FInv => QuotaHolds
  <2> SUFFICES ASSUME FInv PROVE QuotaHolds
    OBVIOUS
  <2> DEFINE M == {c \in Callers : pc[c] = "mutated"}
  <2>0. used \in Nat /\ mutations \in Nat /\ MaxActions \in Nat
    BY SemanticAssumption DEF FInv, GInv, Typed, TypeOK, TypeSession
  <2>1. CASE M = {}
    <3>1. Cardinality(M) = 0
      BY <2>1, FS_EmptySet
    <3>2. mutations = used /\ used <= MaxActions
      BY <2>1 DEF FInv, Funded, Counted
    <3> QED BY <2>0, <3>1, <3>2 DEF QuotaHolds
  <2>2. CASE M # {}
    <3>1. PICK c \in Callers : pc[c] = "mutated"
      BY <2>2
    <3>2. M = {c}
      BY <3>1, Alone DEF FInv, Inside, Acting
    <3>3. Cardinality(M) = 1
      BY <3>2, FS_Singleton
    <3>4. mutations = used + 1 /\ used < MaxActions
      BY <3>1 DEF FInv, Funded, Counted, Allotted, Budget
    <3> QED BY <2>0, <3>3, <3>4 DEF QuotaHolds
  <2> QED BY <2>1, <2>2
<1> QED BY <1>1, AlwaysFunded, PTL

(* A verified action that was accepted is never refused a read for quota.      *)
THEOREM VerificationIsFunded == Spec => []VerificationFunded
<1>1. FInv => VerificationFunded
  <2> SUFFICES ASSUME FInv, NEW c \in Callers
               PROVE  /\ pc[c] = "native" /\ post[c] /\ count[c] < FinalProbes
                         => reads < MaxReads
                      /\ pc[c] = "verifying" /\ count[c] < Attempts
                         => reads < MaxReads
    BY DEF VerificationFunded
  <2>1. reads \in Nat /\ count[c] \in Nat /\ MaxReads \in Nat
        /\ FinalProbes \in Nat /\ Attempts \in Nat
    BY SemanticAssumption DEF FInv, GInv, Typed, TypeOK, TypeSession, TypeCall
  <2> QED BY <2>1 DEF FInv, Funded, Allotted
<1> QED BY <1>1, AlwaysFunded, PTL
=============================================================================
