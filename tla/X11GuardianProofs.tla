-------------------------- MODULE X11GuardianProofs --------------------------
(* Theorems about X11Guardian, for any keycodes, buttons and images.           *)
EXTENDS X11Guardian, TLAPS

(* An outcome is given only by cleanup, and a clean one only at the end of a   *)
(* cleanup that left nothing.                                                  *)
ClosedClean ==
    /\ phase = "serving" => verdict = "none"
    /\ verdict = "clean" => phase = "exited"
    /\ (phase = "closing" /\ ~failed) \/ verdict = "clean"
       => owned = {} /\ Claimed = {}

(* From the first grab to the last ungrab, cleanup works under the grab.       *)
GrabHeld == phase \in {"release", "again", "restore", "retry"} => grabbed

(* Past the settle, the keystrokes before the crash have been read, unless     *)
(* cleanup has met an error or run out of time.                                *)
SettleDone ==
    phase \in {"again", "restore", "retry", "yield", "ungrab"}
    => ~SettleNeeded \/ faulty \/ deadline

(* The inductive invariant.                                                    *)
Inv ==
    /\ TypeOK
    /\ NothingStranded
    /\ OriginalRecoverable
    /\ MismatchIsForeign
    /\ ClosedClean
    /\ GrabHeld
    /\ SettleDone

(* A new guardian holds nothing.                                             *)
LEMMA InitInv == Init => Inv
<1> SUFFICES ASSUME Init PROVE Inv
  OBVIOUS
<1> USE DEF Init, Claimed
<1>1. Claimed = {}
  OBVIOUS
<1>2. TypeOK
  BY <1>1 DEF TypeOK, Phases, CleanupPhases, Images
<1>3. NothingStranded /\ OriginalRecoverable /\ MismatchIsForeign
  BY <1>1 DEF NothingStranded, OriginalRecoverable, MismatchIsForeign
<1>4. ClosedClean /\ GrabHeld /\ SettleDone
  BY <1>1 DEF ClosedClean, GrabHeld, SettleDone, SettleNeeded
<1> QED BY <1>2, <1>3, <1>4 DEF Inv

(* A stutter keeps the invariant.                                            *)
LEMMA StutterInv == Inv /\ UNCHANGED vars => Inv'
  BY DEF vars, Inv, TypeOK, NothingStranded, OriginalRecoverable,
         MismatchIsForeign, ClosedClean, GrabHeld, SettleDone, SettleNeeded,
         Crashed, Claimed

(* What other clients do keeps the invariant.                                *)
LEMMA ForeignInv ==
  ASSUME Inv, ForeignMapping \/ ForeignKey \/ SettleElapses
  PROVE  Inv'
<1> USE ImageAssumption DEF Images, Inputs, claims, progress, server, Claimed
<1>1. CASE ForeignMapping
  BY <1>1 DEF ForeignMapping, Inv, TypeOK, NothingStranded,
              OriginalRecoverable,
              MismatchIsForeign, ClosedClean, GrabHeld, SettleDone,
              SettleNeeded, Crashed
<1>2. CASE ForeignKey
  BY <1>2 DEF ForeignKey, Inv, TypeOK, NothingStranded, OriginalRecoverable,
              MismatchIsForeign, ClosedClean, GrabHeld, SettleDone,
              SettleNeeded, Crashed
<1>3. CASE SettleElapses
  <2>1. (TypeOK /\ NothingStranded /\ OriginalRecoverable /\ MismatchIsForeign)'
    BY <1>3 DEF SettleElapses, Inv, TypeOK, NothingStranded,
                OriginalRecoverable, MismatchIsForeign
  <2>2. (ClosedClean /\ GrabHeld)'
    BY <1>3 DEF SettleElapses, Inv, ClosedClean, GrabHeld
  <2>3. SettleDone'
    BY <1>3 DEF SettleElapses, Inv, SettleDone, SettleNeeded, Crashed
  <2> QED BY <2>1, <2>2, <2>3 DEF Inv
<1> QED BY <1>1, <1>2, <1>3

(* Requests of the parent that touch no mapping.                               *)
LEMMA InputInv ==
  ASSUME Inv,
         \/ GrabServer \/ UngrabServer \/ DispatchTimeout
         \/ \E i \in Inputs, r \in Outcomes : Press(i, r) \/ Release(i, r)
         \/ \E why \in {"close", "eof", "broken"} : BeginCleanup(why)
  PROVE  Inv'
<1> USE DEF Inv, TypeOK, NothingStranded, OriginalRecoverable,
            MismatchIsForeign,
            ClosedClean, GrabHeld, SettleDone, SettleNeeded, Crashed, Claimed,
            Serving, Phases, CleanupPhases, claims,
            progress, server
<1>1. CASE GrabServer \/ UngrabServer \/ DispatchTimeout
  BY <1>1 DEF GrabServer, UngrabServer, DispatchTimeout
<1>2. CASE \E i \in Inputs, r \in Outcomes : Press(i, r)
  BY <1>2 DEF Press
<1>3. CASE \E i \in Inputs, r \in Outcomes : Release(i, r)
  BY <1>3 DEF Release
<1>4. CASE \E why \in {"close", "eof", "broken"} : BeginCleanup(why)
  BY <1>4 DEF BeginCleanup
<1> QED BY <1>1, <1>2, <1>3, <1>4

(* A claim remembers the image it replaces; a restore puts it back.            *)
LEMMA ClaimInv ==
  ASSUME Inv, NEW c \in Codes, NEW i \in Ours, NEW r \in Outcomes,
         NEW read \in BOOLEAN, ClaimMapping(c, i, r, read)
  PROVE  Inv'
<1> DEFINE image == IF r = "rejected" THEN mapping[c] ELSE Canon[i]
<1> USE ImageAssumption DEF Inv, TypeOK, NothingStranded, OriginalRecoverable,
            MismatchIsForeign, ClosedClean, GrabHeld, SettleDone, SettleNeeded,
            Crashed, Claimed, Serving, claims, progress,
            Images
<1>1. mapping[c] \in Theirs /\ mapping[c] = otherImage[c] /\ mapping[c] # NoImage
  BY DEF ClaimMapping
<1>2. image \in Images
  OBVIOUS
<1>3. CASE read /\ r # "ok" /\ image = mapping[c]
  BY <1>1, <1>2, <1>3 DEF ClaimMapping
<1>4. CASE ~(read /\ r # "ok" /\ image = mapping[c])
  <2>1. (IF read THEN image ELSE i) \in Ours
    BY <1>4 DEF Outcomes
  <2>2. QED
    BY <1>1, <1>2, <1>4, <2>1 DEF ClaimMapping
<1> QED BY <1>3, <1>4

(* A restore on request forgets the claim it undoes.                         *)
LEMMA RestoreMappingInv ==
  ASSUME Inv, NEW c \in Codes, NEW r \in Outcomes,
         NEW read \in BOOLEAN, RestoreMapping(c, r, read)
  PROVE  Inv'
<1> USE ImageAssumption DEF Inv, TypeOK, NothingStranded, OriginalRecoverable,
            MismatchIsForeign, ClosedClean, GrabHeld, SettleDone, SettleNeeded,
            Crashed, Claimed, Serving, claims, progress,
            Images
<1>1. CASE mapping[c] # before[c] /\ mapping[c] = after[c]
  BY <1>1 DEF RestoreMapping, Written, Forget
<1>2. CASE ~(mapping[c] # before[c] /\ mapping[c] = after[c])
  BY <1>2 DEF RestoreMapping, Forget
<1> QED BY <1>1, <1>2

(* Steps of cleanup other than the restore.                                    *)
LEMMA CleanupInv ==
  ASSUME Inv, NEW ok \in BOOLEAN,
         \/ CleanupGrab(ok) \/ SettleRegrab(ok) \/ Yield(ok) \/ YieldRegrab(ok)
         \/ FinalUngrab(ok) \/ CloseConnection(ok)
         \/ CleanupTimeout \/ DeadlinePasses
  PROVE  Inv'
<1> USE DEF Inv, TypeOK, NothingStranded, OriginalRecoverable,
            MismatchIsForeign,
            ClosedClean, GrabHeld, SettleDone, SettleNeeded, Crashed, Claimed,
            Cleaning, Phases, CleanupPhases, claims,
            progress, server
<1>1. CASE CleanupGrab(ok)
  BY <1>1 DEF CleanupGrab
<1>2. CASE SettleRegrab(ok)
  BY <1>2 DEF SettleRegrab
<1>3. CASE Yield(ok)
  BY <1>3 DEF Yield
<1>4. CASE YieldRegrab(ok)
  BY <1>4 DEF YieldRegrab
<1>5. CASE FinalUngrab(ok)
  BY <1>5 DEF FinalUngrab
<1>6. CASE CloseConnection(ok)
  BY <1>6 DEF CloseConnection
<1>7. CASE CleanupTimeout
  BY <1>7 DEF CleanupTimeout
<1>8. CASE DeadlinePasses
  BY <1>8 DEF DeadlinePasses
<1> QED BY <1>1, <1>2, <1>3, <1>4, <1>5, <1>6, <1>7, <1>8

(* Releasing what is owned keeps the invariant.                              *)
LEMMA ReleaseInv ==
  ASSUME Inv, NEW out \in [owned -> Outcomes], NEW ok \in BOOLEAN,
         FirstRelease(out, ok) \/ ReleaseAgain(out)
  PROVE  Inv'
<1> USE DEF Inv, TypeOK, NothingStranded, OriginalRecoverable,
            MismatchIsForeign,
            ClosedClean, GrabHeld, SettleDone, SettleNeeded, Crashed, Claimed,
            Phases, CleanupPhases, claims, ReleaseOwned,
            Outcomes
<1>1. CASE FirstRelease(out, ok)
  BY <1>1 DEF FirstRelease
<1>2. CASE ReleaseAgain(out)
  BY <1>2 DEF ReleaseAgain
<1> QED BY <1>1, <1>2

(* Restoring the mappings keeps the invariant.                               *)
LEMMA RestoreInv ==
  ASSUME Inv, NEW out \in [Claimed -> RestoreOutcomes], Restore(out)
  PROVE  Inv'
<1> USE ImageAssumption DEF Inv, TypeOK, NothingStranded, OriginalRecoverable,
            MismatchIsForeign, ClosedClean, GrabHeld, SettleDone, SettleNeeded,
            Crashed, Claimed, Images, Mine, Moved
<1>1. \A c \in Codes : mapping'[c] # mapping[c]
                      => mapping[c] = after[c] /\ mapping'[c] = before[c]
  BY DEF Restore, RestoreMappings, Written
<1> QED
  BY <1>1 DEF Restore, RestoreMappings, Written, Forget, Phases, CleanupPhases

(* Every step keeps the invariant.                                           *)
LEMMA StepInv == Inv /\ [Next]_vars => Inv'
<1> SUFFICES ASSUME Inv, [Next]_vars PROVE Inv'
  OBVIOUS
<1>1. CASE UNCHANGED vars
  BY <1>1, StutterInv
<1>2. CASE ForeignMapping \/ ForeignKey \/ SettleElapses
  BY <1>2, ForeignInv
<1>3. CASE Request
  BY <1>3, InputInv, ClaimInv, RestoreMappingInv DEF Request
<1>5. CASE Cleanup
  BY <1>5, CleanupInv, ReleaseInv, RestoreInv DEF Cleanup
<1>6. CASE CleanupTimeout \/ DeadlinePasses \/ Close
  BY <1>6, CleanupInv DEF Close
<1> QED
  BY <1>1, <1>2, <1>3, <1>5, <1>6 DEF Next

(* The invariant always holds.                                               *)
THEOREM GuardianInv == Spec => []Inv
  BY InitInv, StepInv, PTL DEF Spec

(* The state of the guardian is well formed.                                   *)
THEOREM TypeCorrect == Spec => []TypeOK
<1>1. Inv => TypeOK
  BY DEF Inv
<1> QED BY <1>1, GuardianInv, PTL

(* No reply that is lost can strand a key or a button.                         *)
THEOREM NothingIsStranded == Spec => []NothingStranded
<1>1. Inv => NothingStranded
  BY DEF Inv
<1> QED BY <1>1, GuardianInv, PTL

(* The image others gave a keycode is never lost.                              *)
THEOREM OriginalIsRecoverable == Spec => []OriginalRecoverable
<1>1. Inv => OriginalRecoverable
  BY DEF Inv
<1> QED BY <1>1, GuardianInv, PTL

(* Giving a resolved claim up never abandons a scratch image.                  *)
THEOREM MismatchIsAlwaysForeign == Spec => []MismatchIsForeign
<1>1. Inv => MismatchIsForeign
  BY DEF Inv
<1> QED BY <1>1, GuardianInv, PTL

(* A clean outcome means that nothing of the guardian's is left on the server. *)
THEOREM CleanOutcome == Spec => []CleanIsClean
<1>1. Inv => CleanIsClean
  BY DEF Inv, TypeOK, NothingStranded, OriginalRecoverable, ClosedClean,
         CleanIsClean
<1> QED BY <1>1, GuardianInv, PTL

-----------------------------------------------------------------------------
(* A failed cleanup has a cause: an error was recorded for a failed request, a *)
(* passed deadline or a broken parent, and the last ungrab is reached with     *)
(* something left only after one of the first two.                             *)
Blamed ==
    /\ phase = "serving" => cause = "none"
    /\ failed => faulty \/ deadline \/ cause = "broken"
    /\ phase = "ungrab" => (owned = {} /\ Claimed = {}) \/ faulty \/ deadline
    /\ NoSpuriousFailure

(* While it serves the parent, the guardian fails for no cause of cleanup.     *)
LEMMA ServingBlamed ==
  ASSUME Inv, Blamed, ForeignMapping \/ ForeignKey \/ Request \/ SettleElapses
  PROVE  Blamed'
<1> USE DEF Blamed, NoSpuriousFailure, Inv, ClosedClean, TypeOK
<1>1. CASE ForeignMapping \/ ForeignKey \/ SettleElapses
  BY <1>1 DEF ForeignMapping, ForeignKey, SettleElapses, claims, progress, server,
              Claimed
<1>2. CASE DispatchTimeout
  BY <1>2 DEF DispatchTimeout, Serving
<1>3. CASE \E why \in {"close", "eof", "broken"} : BeginCleanup(why)
  BY <1>3 DEF BeginCleanup, Serving
<1>4. CASE Request /\ ~DispatchTimeout
           /\ ~\E why \in {"close", "eof", "broken"} : BeginCleanup(why)
  <2>1. /\ phase = "serving" /\ verdict = "none"
        /\ UNCHANGED <<phase, cause, deadline, failed, faulty, verdict>>
    BY <1>4 DEF Request, Serving, GrabServer, UngrabServer, Press, Release,
                ClaimMapping, RestoreMapping, progress
  <2> QED BY <2>1
<1> QED BY <1>1, <1>2, <1>3, <1>4

(* Cleanup records an error only for a cause, and gives up only at one.        *)
LEMMA CleanupBlamed ==
  ASSUME Inv, Blamed, Cleanup \/ CleanupTimeout \/ DeadlinePasses \/ Close
  PROVE  Blamed'
<1> USE DEF Blamed, NoSpuriousFailure, Inv, TypeOK
<1>1. ASSUME NEW ok \in BOOLEAN,
             CleanupGrab(ok) \/ SettleRegrab(ok) \/ Yield(ok) \/ YieldRegrab(ok)
      PROVE  Blamed'
  BY <1>1 DEF CleanupGrab, SettleRegrab, Yield, YieldRegrab, claims, server, Claimed
<1>2. ASSUME NEW out, NEW ok \in BOOLEAN, FirstRelease(out, ok) \/ ReleaseAgain(out)
      PROVE  Blamed'
  BY <1>2 DEF FirstRelease, ReleaseAgain
<1>3. ASSUME NEW out, Restore(out)
      PROVE  Blamed'
  BY <1>3 DEF Restore
<1>4. ASSUME NEW ok \in BOOLEAN, FinalUngrab(ok) PROVE Blamed'
  BY <1>4 DEF FinalUngrab
<1>5. ASSUME NEW ok \in BOOLEAN, CloseConnection(ok) PROVE Blamed'
  BY <1>5 DEF CloseConnection, Cleaning, CleanupPhases
<1>6. CASE CleanupTimeout \/ DeadlinePasses
  BY <1>6 DEF CleanupTimeout, DeadlinePasses, claims, server, Claimed, Cleaning,
              CleanupPhases
<1> QED BY <1>1, <1>2, <1>3, <1>4, <1>5, <1>6 DEF Cleanup, Close

(* Cleanup is not reported as failed for anything other clients may do: an     *)
(* error needs a failed request, a passed deadline, a broken parent or a       *)
(* request that was abandoned half way.                                        *)
THEOREM NeverSpurious == Spec => []NoSpuriousFailure
<1>1. Init => Blamed
  BY DEF Init, Blamed, NoSpuriousFailure
<1>2. Inv /\ Blamed /\ [Next]_vars => Blamed'
  <2> SUFFICES ASSUME Inv, Blamed, [Next]_vars PROVE Blamed'
    OBVIOUS
  <2>1. CASE UNCHANGED vars
    BY <2>1 DEF vars, Blamed, NoSpuriousFailure, Claimed
  <2> QED BY <2>1, ServingBlamed, CleanupBlamed DEF Next
<1>3. Blamed => NoSpuriousFailure
  BY DEF Blamed
<1> QED BY <1>1, <1>2, <1>3, GuardianInv, PTL DEF Spec

-----------------------------------------------------------------------------
(* Which steps rewrite a keycode, and to what.                                 *)
LEMMA Rewrites ==
  ASSUME Inv, Next, NEW c \in Codes, mapping'[c] # mapping[c]
  PROVE  \/ /\ otherImage'[c] = mapping'[c] /\ mapping'[c] \in Theirs
            /\ phase' = phase
         \/ /\ c \notin Claimed /\ before'[c] = mapping[c]
            /\ mapping'[c] \in Ours
            /\ phase = "serving"
         \/ /\ c \in Claimed /\ mapping[c] = after[c] /\ mapping'[c] = before[c]
            /\ \/ phase = "serving"
               \/ phase = "restore" /\ c \notin busy \cup ours /\ ours' = ours
<1> USE ImageAssumption DEF Inv, TypeOK, Claimed
<1>1. CASE ForeignMapping
  BY <1>1 DEF ForeignMapping
<1>2. CASE Request
  <2>1. ASSUME NEW d \in Codes, NEW i \in Ours, NEW r \in Outcomes,
               NEW read \in BOOLEAN, ClaimMapping(d, i, r, read)
        PROVE  c = d /\ c \notin Claimed /\ before'[c] = mapping[c]
               /\ mapping'[c] \in Ours /\ phase = "serving"
    BY <2>1 DEF ClaimMapping, Serving
  <2>2. ASSUME NEW d \in Codes, NEW r \in Outcomes, NEW read \in BOOLEAN,
               RestoreMapping(d, r, read)
        PROVE  c = d /\ mapping[c] = after[c] /\ mapping'[c] = before[c]
               /\ c \in Claimed /\ phase = "serving"
    BY <2>2 DEF RestoreMapping, Written, Serving
  <2>3. CASE \/ GrabServer \/ UngrabServer \/ DispatchTimeout
             \/ \E i \in Inputs, r \in Outcomes : Press(i, r) \/ Release(i, r)
             \/ \E why \in {"close", "eof", "broken"} : BeginCleanup(why)
    BY <2>3 DEF GrabServer, UngrabServer, DispatchTimeout, Press, Release,
                BeginCleanup, server
  <2> QED BY <1>2, <2>1, <2>2, <2>3 DEF Request
<1>3. CASE Cleanup
  <2>1. CASE \E out \in [Claimed -> RestoreOutcomes] : Restore(out)
    BY <2>1 DEF Restore, RestoreMappings, Written, Mine, Pressed
  <2>2. CASE \/ \E ok \in BOOLEAN : CleanupGrab(ok) \/ SettleRegrab(ok)
             \/ \E ok \in BOOLEAN : Yield(ok) \/ YieldRegrab(ok) \/ FinalUngrab(ok)
             \/ \E out \in [owned -> Outcomes], ok \in BOOLEAN :
                   FirstRelease(out, ok) \/ ReleaseAgain(out)
    BY <2>2 DEF CleanupGrab, SettleRegrab, Yield, YieldRegrab, FinalUngrab,
                FirstRelease, ReleaseAgain, server
  <2> HIDE DEF Claimed
  <2> QED BY <1>3, <2>1, <2>2 DEF Cleanup
<1>4. CASE ForeignKey \/ SettleElapses \/ CleanupTimeout \/ DeadlinePasses \/ Close
  BY <1>4 DEF ForeignKey, SettleElapses, CleanupTimeout, DeadlinePasses, Close,
              CloseConnection, server
<1> QED BY <1>1, <1>2, <1>3, <1>4 DEF Next

(* An image another client wrote is replaced only by another client, or by a   *)
(* first claim that remembers it.                                              *)
THEOREM ForeignAlwaysSurvives == Spec => ForeignSurvives
<1> DEFINE Step == \A c \in Codes :
                      mapping[c] = otherImage[c] /\ mapping'[c] # mapping[c]
                      => \/ otherImage'[c] = mapping'[c]
                         \/ c \notin Claimed /\ before'[c] = mapping[c]
<1>1. Inv /\ [Next]_vars => [Step]_vars
  <2> SUFFICES ASSUME Inv, Next, NEW c \in Codes,
                      mapping[c] = otherImage[c], mapping'[c] # mapping[c]
               PROVE  \/ otherImage'[c] = mapping'[c]
                      \/ c \notin Claimed /\ before'[c] = mapping[c]
    OBVIOUS
  <2>1. ~(c \in Claimed /\ mapping[c] = after[c])
    BY ImageAssumption DEF Inv, TypeOK, Claimed
  <2> QED BY <2>1, Rewrites
<1> QED BY <1>1, GuardianInv, PTL DEF Spec, ForeignSurvives

(* Cleanup rewrites only under the grab, and no key that is down or modifies.  *)
THEOREM RestoreIsGuarded == Spec => RestoreGuarded
<1> DEFINE Step == \A c \in Codes :
                      Cleaning /\ phase' # phase /\ mapping'[c] # mapping[c]
                      => grabbed /\ c \notin ours' \cup busy
<1>1. Inv /\ [Next]_vars => [Step]_vars
  <2> SUFFICES ASSUME Inv, Next, NEW c \in Codes, Cleaning, phase' # phase,
                      mapping'[c] # mapping[c]
               PROVE  grabbed /\ c \notin ours' \cup busy
    OBVIOUS
  <2>1. phase # "serving"
    BY DEF Cleaning, CleanupPhases
  <2>2. phase = "restore" /\ c \notin busy \cup ours /\ ours' = ours
    BY <2>1, Rewrites
  <2> QED BY <2>2 DEF Inv, GrabHeld
<1> QED BY <1>1, GuardianInv, PTL DEF Spec, RestoreGuarded

(* After a crash nothing is restored before the keystrokes have been read.     *)
THEOREM SettleIsRespected == Spec => SettleRespected
<1> DEFINE Step == Cleaning /\ Crashed /\ ~faulty /\ phase' # phase /\ mapping' # mapping
                   => ~recent \/ deadline
<1>1. Inv /\ [Next]_vars => [Step]_vars
  <2> SUFFICES ASSUME Inv, Next, Inv', Cleaning, Crashed, ~faulty, phase' # phase,
                      mapping' # mapping
               PROVE  ~recent \/ deadline
    BY StepInv
  <2>1. PICK c \in Codes : mapping'[c] # mapping[c]
    BY DEF Inv, TypeOK
  <2>2. phase # "serving"
    BY DEF Cleaning, CleanupPhases
  <2>3. phase = "restore" /\ c \in Claimed
    BY <2>1, <2>2, Rewrites
  <2> QED BY <2>3 DEF Inv, SettleDone, SettleNeeded
<1> QED BY <1>1, GuardianInv, PTL DEF Spec, SettleRespected

-----------------------------------------------------------------------------
(* The guardian implements DesktopCustody.                                     *)
LEMMA StartsInCustody == Init => Custody!CustodyInit
  BY DEF Init, Custody!CustodyInit

(* What other clients do is foreign to the custody.                          *)
LEMMA ForeignInCustody ==
  ASSUME Inv, ForeignMapping \/ ForeignKey
  PROVE  Custody!Foreign \/ UNCHANGED Custody!custodyVars
  BY DEF ForeignMapping, ForeignKey, progress, Custody!Foreign,
         Custody!custodyVars

(* A step that gives no verdict and rewrites only as Rewrites allows.          *)
LEMMA HandleInCustody ==
  ASSUME Inv, Inv', Next, verdict # "clean", UNCHANGED <<verdict, otherImage>>
  PROVE  Custody!Custody
<1>1. ours' \subseteq Inputs /\ DOMAIN mapping' = Codes
  BY DEF Inv, TypeOK, NothingStranded
<1>2. ASSUME NEW c \in Codes
      PROVE  mapping'[c] \in {mapping[c], otherImage[c]} \cup Ours
  <2>1. CASE mapping'[c] = mapping[c]
    BY <2>1
  <2>2. CASE mapping'[c] # mapping[c]
    <3>1. c \in Claimed /\ mapping[c] = after[c] => before[c] = otherImage[c]
      BY ImageAssumption DEF Inv, TypeOK, OriginalRecoverable, Claimed
    <3> QED BY <2>2, <3>1, Rewrites
  <2> QED BY <2>1, <2>2
<1> QED BY <1>1, <1>2 DEF Custody!Custody, Custody!Handle

(* An outcome ends the custody, cleanly only when nothing is left.           *)
LEMMA EndInCustody ==
  ASSUME Inv, DispatchTimeout \/ CleanupTimeout \/ Close
  PROVE  \/ Custody!EndClean \/ Custody!EndDirty
         \/ UNCHANGED Custody!custodyVars
<1> USE DEF Custody!EndClean, Custody!EndDirty, Custody!custodyVars,
            Custody!Rewritten, Inv, ClosedClean, server
<1>1. CASE DispatchTimeout
  BY <1>1 DEF DispatchTimeout, Serving
<1>2. CASE CleanupTimeout
  BY <1>2 DEF CleanupTimeout
<1>3. ASSUME NEW ok \in BOOLEAN, CloseConnection(ok)
      PROVE  \/ Custody!EndClean \/ Custody!EndDirty
             \/ UNCHANGED Custody!custodyVars
  <2>1. UNCHANGED <<ours, mapping, otherImage>>
    BY <1>3 DEF CloseConnection
  <2>2. CASE verdict' = "clean"
    <3>1. phase = "closing" /\ ~failed /\ verdict = "none"
      BY <1>3, <2>2 DEF CloseConnection, Cleaning, CleanupPhases, TypeOK
    <3>2. ours = {} /\ \A c \in Codes : mapping[c] = otherImage[c]
      BY <3>1 DEF NothingStranded, OriginalRecoverable
    <3> QED BY <2>1, <2>2, <3>1, <3>2
  <2>3. CASE verdict' # "clean"
    <3>1. verdict' = "dirty" /\ verdict # "clean"
      BY <1>3, <2>3 DEF CloseConnection, Cleaning, CleanupPhases
    <3> QED BY <2>1, <3>1 DEF TypeOK
  <2> QED BY <2>2, <2>3
<1> QED BY <1>1, <1>2, <1>3 DEF Close

(* Every behaviour of the guardian is one that DesktopCustody allows.          *)
THEOREM GuardianImplementsCustody == Spec => ImplementsCustody
<1>1. Inv /\ Inv' /\ [Next]_vars
      => [Custody!CustodyNext]_(Custody!custodyVars)
  <2> SUFFICES ASSUME Inv, Inv', [Next]_vars
               PROVE  Custody!CustodyNext \/ UNCHANGED Custody!custodyVars
    OBVIOUS
  <2>1. CASE UNCHANGED vars
    BY <2>1 DEF vars, Custody!custodyVars
  <2>2. CASE ForeignMapping \/ ForeignKey
    BY <2>2, ForeignInCustody DEF Custody!CustodyNext
  <2>3. CASE DispatchTimeout \/ CleanupTimeout \/ Close
    BY <2>3, EndInCustody DEF Custody!CustodyNext
  <2>4. CASE SettleElapses \/ DeadlinePasses
    BY <2>4 DEF SettleElapses, DeadlinePasses, server, Custody!custodyVars
  <2>5. CASE Request /\ ~DispatchTimeout
    <3>1. UNCHANGED <<verdict, otherImage>> /\ verdict = "none"
      BY <2>5 DEF Inv, ClosedClean, Request, Serving, GrabServer, UngrabServer,
                  Press, Release, ClaimMapping, RestoreMapping, BeginCleanup,
                  server, progress
    <3> QED BY <2>5, <3>1, HandleInCustody DEF Next, Custody!CustodyNext
  <2>6. CASE Cleanup
    <3>1. UNCHANGED <<verdict, otherImage>> /\ phase # "exited"
      BY <2>6 DEF Cleanup, CleanupGrab, FirstRelease, SettleRegrab,
                  ReleaseAgain, Restore, Yield, YieldRegrab, FinalUngrab, server
    <3>2. verdict # "clean"
      BY <3>1 DEF Inv, ClosedClean
    <3> QED BY <2>6, <3>1, <3>2, HandleInCustody DEF Next, Custody!CustodyNext
  <2> QED BY <2>1, <2>2, <2>3, <2>4, <2>5, <2>6 DEF Next
<1> QED
  BY <1>1, StartsInCustody, GuardianInv, PTL
     DEF Spec, ImplementsCustody, Custody!CustodySpec
=============================================================================
