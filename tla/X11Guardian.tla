----------------------------- MODULE X11Guardian -----------------------------
(* The crash guardian of the X11 input backend: a helper process that owns the *)
(* X11 connection, injects input for its parent, and undoes what it injected   *)
(* when the parent closes or disappears                                        *)
(* (src/internal/x11input/guardian_reexec_linux.go).                           *)
(*                                                                             *)
(* One action is one request of the parent, or one stretch of cleanup during   *)
(* which the guardian holds the X server grab.  A request to the X server is   *)
(* "ok", "rejected" (an error, nothing changed) or "lost" (an error, although  *)
(* the server did it).  Assumed of the environment:                            *)
(*  - a grab or ungrab that returns an error was not done;                     *)
(*  - the parent rewrites mappings only inside a server grab                   *)
(*    (Backend.withServerGrabLocked), so a rewrite is one step;                *)
(*  - no other client writes one of the guardian's scratch images: the X11     *)
(*    protocol cannot tell such a write from the guardian's own.               *)
EXTENDS Naturals, FiniteSets

CONSTANTS
    Codes,      \* scratch keycodes: their mapping is rewritten, then pressed
    Buttons,    \* pointer buttons
    Theirs,     \* mapping images written by other clients
    Ours,       \* scratch images, and what the server turns them into
    Canon,      \* the server's canonical form of each image
    NoImage     \* stands for "no claim"

Images == Theirs \cup Ours
Inputs == Codes \cup Buttons

ASSUME ImageAssumption ==
    /\ Theirs \cap Ours = {}
    /\ NoImage \notin Images
    /\ Canon \in [Images -> Images]
    /\ \A i \in Theirs : Canon[i] = i
    /\ \A i \in Ours : Canon[i] \in Ours
ASSUME InputAssumption == Codes \cap Buttons = {}

VARIABLES
    \* the X server
    mapping,    \* mapping[c]: the image of keycode c
    ours,       \* inputs held down by the guardian's presses
    busy,       \* keycodes others hold down or have made a modifier
    otherImage, \* otherImage[c]: the image others last gave c (history)
    \* the helper process
    phase,      \* where the helper is, see Phases
    cause,      \* why cleanup runs: "none", "close", "eof" or "broken"
    grabbed,    \* the helper owns the server grab
    before,     \* before[c]: image to put back, NoImage when c is unclaimed
    after,      \* after[c]: image the guardian takes for its own
    unresolved, \* claims whose effect on the server is unknown
    owned,      \* inputs the helper believes it may be holding
    recent,     \* a key event is younger than the crash settle time
    deadline,   \* the cleanup deadline has passed
    failed,     \* an error was recorded for the outcome of cleanup
    faulty,     \* some request of cleanup failed (history)
    verdict     \* the outcome told to the parent or the shell

server   == <<mapping, ours, busy, otherImage>>
claims   == <<before, after, unresolved>>
progress == <<recent, deadline, failed, faulty, verdict>>
vars     == <<mapping, ours, busy, otherImage, phase, cause, grabbed, before,
              after, unresolved, owned, recent, deadline, failed, faulty,
              verdict>>

CleanupPhases == {"grab", "release", "settle", "again", "restore", "retry",
                  "yield", "ungrab"}
Phases == {"serving", "closing", "exited"} \cup CleanupPhases
Cleaning == phase \in CleanupPhases
Outcomes == {"ok", "rejected", "lost"}

Claimed == {c \in Codes : before[c] # NoImage}
Crashed == cause \in {"eof", "broken"}

Init ==
    /\ mapping \in [Codes -> Theirs]
    /\ otherImage = mapping
    /\ ours = {}
    /\ busy = {}
    /\ phase = "serving"
    /\ cause = "none"
    /\ grabbed = FALSE
    /\ before = [c \in Codes |-> NoImage]
    /\ after = [c \in Codes |-> NoImage]
    /\ unresolved = {}
    /\ owned = {}
    /\ recent = FALSE
    /\ deadline = FALSE
    /\ failed = FALSE
    /\ faulty = FALSE
    /\ verdict = "none"

-----------------------------------------------------------------------------
(* Other clients.  The server serves nobody else while the guardian holds the  *)
(* grab; the grab ends with the guardian's connection.                         *)
Excluded == grabbed /\ phase # "exited"

ForeignMapping ==
    \E c \in Codes, i \in Theirs :
        /\ ~Excluded
        /\ mapping' = [mapping EXCEPT ![c] = i]
        /\ otherImage' = [otherImage EXCEPT ![c] = i]
        /\ UNCHANGED <<ours, busy, phase, cause, grabbed, claims, owned, progress>>

ForeignKey ==
    \E c \in Codes :
        /\ ~Excluded
        /\ busy' = IF c \in busy THEN busy \ {c} ELSE busy \cup {c}
        /\ UNCHANGED <<mapping, ours, otherImage, phase, cause, grabbed, claims,
                       owned, progress>>

-----------------------------------------------------------------------------
(* Requests of the parent: dispatch.                                           *)
Serving == phase = "serving"

GrabServer ==
    /\ Serving
    /\ ~grabbed
    /\ grabbed' = TRUE
    /\ UNCHANGED <<server, phase, cause, claims, owned, progress>>

UngrabServer ==
    /\ Serving
    /\ grabbed
    /\ grabbed' = FALSE
    /\ UNCHANGED <<server, phase, cause, claims, owned, progress>>

(* Fault: a press is owned only once the server has acknowledged it.           *)
PressArmedLate(i, r) ==
    /\ Serving
    /\ owned' = IF r = "ok" THEN owned \cup {i} ELSE owned
    /\ ours' = IF r = "rejected" THEN ours ELSE ours \cup {i}
    /\ recent' = (recent \/ i \in Codes)
    /\ UNCHANGED <<mapping, busy, otherImage, phase, cause, grabbed, claims,
                   deadline, failed, faulty, verdict>>

(* fakeInput with a press: owned before the request is sent.                   *)
Press(i, r) ==
    /\ Serving
    /\ owned' = owned \cup {i}
    /\ ours' = IF r = "rejected" THEN ours ELSE ours \cup {i}
    /\ recent' = (recent \/ i \in Codes)
    /\ UNCHANGED <<mapping, busy, otherImage, phase, cause, grabbed, claims,
                   deadline, failed, faulty, verdict>>

(* fakeInput with a release: disowned only after a verified success.           *)
Release(i, r) ==
    /\ Serving
    /\ owned' = IF r = "ok" THEN owned \ {i} ELSE owned
    /\ ours' = IF r = "rejected" THEN ours ELSE ours \ {i}
    /\ recent' = (recent \/ i \in Codes)
    /\ UNCHANGED <<mapping, busy, otherImage, phase, cause, grabbed, claims,
                   deadline, failed, faulty, verdict>>

Written(codes) ==
    mapping' = [c \in Codes |-> IF c \in codes THEN before[c] ELSE mapping[c]]

(* removeMappingClaim for each of codes, and unresolved for each of marked.    *)
Forget(codes, marked) ==
    /\ before' = [c \in Codes |-> IF c \in codes THEN NoImage ELSE before[c]]
    /\ after' = [c \in Codes |-> IF c \in codes THEN NoImage ELSE after[c]]
    /\ unresolved' = (unresolved \cup marked) \ codes

(* Fault: the claim is stored only after the request has succeeded.            *)
ClaimAfterSuccess(c, i, r, read) ==
    /\ Serving
    /\ grabbed
    /\ before[c] = NoImage
    /\ mapping[c] # i
    /\ mapping' = [mapping EXCEPT ![c] = IF r = "rejected" THEN @ ELSE Canon[i]]
    /\ IF r # "ok" \/ ~read
       THEN UNCHANGED claims
       ELSE /\ before' = [before EXCEPT ![c] = mapping[c]]
            /\ after' = [after EXCEPT ![c] = Canon[i]]
            /\ UNCHANGED unresolved
    /\ UNCHANGED <<ours, busy, otherImage, phase, cause, grabbed, owned, progress>>

(* changeKeyboardMapping of an unclaimed keycode to the scratch image i.  The  *)
(* claim exists before the request is sent.  An unread readback leaves it      *)
(* unresolved; a read one makes the server's image the claimed one, or drops   *)
(* the claim when the failed request turns out not to have changed anything.   *)
ClaimMapping(c, i, r, read) ==
    LET image == IF r = "rejected" THEN mapping[c] ELSE Canon[i]
    IN  /\ Serving
        /\ grabbed
        /\ before[c] = NoImage
        /\ mapping[c] # i
        /\ mapping' = [mapping EXCEPT ![c] = image]
        /\ IF read /\ r # "ok" /\ image = mapping[c]
           THEN UNCHANGED claims
           ELSE /\ before' = [before EXCEPT ![c] = mapping[c]]
                /\ after' = [after EXCEPT ![c] = IF read THEN image ELSE i]
                /\ unresolved' = IF read THEN unresolved ELSE unresolved \cup {c}
        /\ UNCHANGED <<ours, busy, otherImage, phase, cause, grabbed, owned, progress>>

(* Fault: the before image is written over whatever is there.                  *)
RestoreUnchecked(c, r, read) ==
    /\ Serving
    /\ grabbed
    /\ c \in Claimed
    /\ Written(IF r = "rejected" THEN {} ELSE {c})
    /\ Forget(IF r = "ok" /\ read THEN {c} ELSE {}, {})
    /\ UNCHANGED <<ours, busy, otherImage, phase, cause, grabbed, owned, progress>>

(* changeKeyboardMapping of a claimed keycode back to its before image.        *)
RestoreMapping(c, r, read) ==
    /\ Serving
    /\ grabbed
    /\ c \in Claimed
    /\ mapping[c] \in {before[c], after[c]} \/ c \notin unresolved
    /\ IF mapping[c] # before[c] /\ mapping[c] = after[c]
       THEN /\ Written(IF r = "rejected" THEN {} ELSE {c})
            /\ Forget(IF r = "ok" /\ read THEN {c} ELSE {}, {})
       ELSE /\ Forget({c}, {})
            /\ UNCHANGED mapping
    /\ UNCHANGED <<ours, busy, otherImage, phase, cause, grabbed, owned, progress>>

(* dispatchBounded gives up on a request that is still running: the connection *)
(* is closed and the helper exits without cleanup.                             *)
DispatchTimeout ==
    /\ Serving
    /\ phase' = "exited"
    /\ verdict' = "dirty"
    /\ UNCHANGED <<server, cause, grabbed, claims, owned, recent, deadline,
                   failed, faulty>>

(* A Close request, the end of the control socket, or a broken exchange with   *)
(* the parent (read error, invalid envelope, unwritable response), which is an *)
(* error of its own.                                                           *)
BeginCleanup(why) ==
    /\ Serving
    /\ phase' = "grab"
    /\ cause' = why
    /\ failed' = (why = "broken")
    /\ UNCHANGED <<server, grabbed, claims, owned, recent, deadline, faulty, verdict>>

SettleElapses ==
    /\ recent
    /\ recent' = FALSE
    /\ UNCHANGED <<server, phase, cause, grabbed, claims, owned, deadline,
                   failed, faulty, verdict>>

-----------------------------------------------------------------------------
(* cleanupTransaction.                                                         *)
(* The first grab; without it nothing is released or restored.                 *)
CleanupGrab(ok) ==
    /\ phase = "grab"
    /\ phase' = IF grabbed \/ ok THEN "release" ELSE "closing"
    /\ grabbed' = (grabbed \/ ok)
    /\ failed' = (failed \/ ~grabbed')
    /\ faulty' = (faulty \/ ~grabbed')
    /\ UNCHANGED <<server, cause, claims, owned, recent, deadline, verdict>>

(* releaseOwnedInput, out[i] being what became of the release of i.            *)
ReleaseOwned(out) ==
    /\ ours' = ours \ {i \in owned : out[i] # "rejected"}
    /\ owned' = {i \in owned : out[i] # "ok"}

(* Fault: the settle time is kept for an orderly close only.                   *)
SettleOnClose == cause = "close" /\ recent /\ Claimed # {}

(* A crashed parent's last keystrokes are still being delivered: once all      *)
(* input is released, the mappings stay for the rest of the settle time.       *)
SettleNeeded == Crashed /\ recent /\ Claimed # {}

FirstRelease(out, ok) ==
    LET settle == SettleNeeded /\ owned' = {}
    IN  /\ phase = "release"
        /\ ReleaseOwned(out)
        /\ phase' = IF settle /\ ok THEN "settle" ELSE "again"
        /\ grabbed' = ~(settle /\ ok)
        /\ failed' = (failed \/ (settle /\ ~ok))
        /\ faulty' = (faulty \/ owned' # {} \/ (settle /\ ~ok))
        /\ UNCHANGED <<mapping, busy, otherImage, cause, claims, recent,
                       deadline, verdict>>

(* The sleep ends with the settle time or with the cleanup deadline.           *)
SettleRegrab(ok) ==
    /\ phase = "settle"
    /\ ~recent \/ deadline
    /\ phase' = IF ok THEN "again" ELSE "closing"
    /\ grabbed' = ok
    /\ failed' = (failed \/ ~ok)
    /\ faulty' = (faulty \/ ~ok)
    /\ UNCHANGED <<server, cause, claims, owned, recent, deadline, verdict>>

(* The head of the retry loop: what is still owned is released again.          *)
ReleaseAgain(out) ==
    /\ phase = "again"
    /\ ReleaseOwned(out)
    /\ phase' = "restore"
    /\ faulty' = (faulty \/ owned' # {})
    /\ UNCHANGED <<mapping, busy, otherImage, cause, grabbed, claims, recent,
                   deadline, failed, verdict>>

(* restoreMappingsOnce, out[c] being what became of the queries and of the     *)
(* rewrite of c: "unread" (a query failed), "unverified" (the rewrite was not  *)
(* read back) or an outcome of the rewrite.                                    *)
RestoreOutcomes == Outcomes \cup {"unread", "unverified"}

(* Fault: a restore that looks at the before image only.                       *)
NotYetRestored(c) == mapping[c] # before[c]
Mine(c) == mapping[c] = after[c] /\ mapping[c] # before[c]
Moved(c) == mapping[c] \notin {before[c], after[c]}
Pressed(c) == c \in ours \cup busy

RestoreMappings(out) ==
    LET seen      == {c \in Claimed : out[c] # "unread"}
        rewritten == {c \in seen : Mine(c) /\ ~Pressed(c)}
        back      == {c \in seen : mapping[c] = before[c]}
        foreign   == {c \in seen : Moved(c) /\ c \notin unresolved}
        verified  == {c \in rewritten : out[c] = "ok"}
        doubtful  == {c \in rewritten : out[c] \in {"rejected", "lost"}}
    IN  /\ Written({c \in rewritten : out[c] # "rejected"})
        /\ Forget(back \cup foreign \cup verified, doubtful)

(* Fault: one attempt, whatever comes of it.                                   *)
RestoreOnce(out) ==
    /\ phase = "restore"
    /\ RestoreMappings(out)
    /\ phase' = "ungrab"
    /\ faulty' = (faulty \/ \E c \in Claimed : out[c] # "ok")
    /\ UNCHANGED <<ours, busy, otherImage, cause, grabbed, owned, recent,
                   deadline, failed, verdict>>

Restore(out) ==
    /\ phase = "restore"
    /\ RestoreMappings(out)
    /\ phase' = IF Claimed' = {} /\ owned = {} THEN "ungrab"
                ELSE IF deadline THEN "ungrab" ELSE "retry"
    /\ faulty' = (faulty \/ \E c \in Claimed : out[c] # "ok")
    /\ UNCHANGED <<ours, busy, otherImage, cause, grabbed, owned, recent,
                   deadline, failed, verdict>>

(* yieldCleanupGrab: other clients run between two attempts.                   *)
Yield(ok) ==
    /\ phase = "retry"
    /\ phase' = IF ok THEN "yield" ELSE "ungrab"
    /\ grabbed' = ~ok
    /\ failed' = (failed \/ ~ok)
    /\ faulty' = (faulty \/ ~ok)
    /\ UNCHANGED <<server, cause, claims, owned, recent, deadline, verdict>>

YieldRegrab(ok) ==
    /\ phase = "yield"
    /\ phase' = IF ok THEN "again" ELSE "ungrab"
    /\ grabbed' = ok
    /\ failed' = (failed \/ ~ok)
    /\ faulty' = (faulty \/ ~ok)
    /\ UNCHANGED <<server, cause, claims, owned, recent, deadline, verdict>>

(* The last ungrab.  What is still owned or claimed is the last error of the   *)
(* releases and of the restores.                                               *)
FinalUngrab(ok) ==
    /\ phase = "ungrab"
    /\ phase' = "closing"
    /\ grabbed' = (grabbed /\ ~ok)
    /\ failed' = (failed \/ grabbed' \/ owned # {} \/ Claimed # {})
    /\ faulty' = (faulty \/ grabbed')
    /\ UNCHANGED <<server, cause, claims, owned, recent, deadline, verdict>>

(* Fault: the timer guards only the part under the grab.                       *)
TimeoutUnderGrab ==
    /\ Cleaning
    /\ grabbed
    /\ deadline
    /\ verdict = "none"
    /\ verdict' = "dirty"
    /\ UNCHANGED <<server, phase, cause, grabbed, claims, owned, recent,
                   deadline, failed, faulty>>

(* The timer of cleanup fires: cleanup reports an error at once, while the     *)
(* transaction runs on until the helper exits.                                 *)
CleanupTimeout ==
    /\ Cleaning
    /\ deadline
    /\ verdict = "none"
    /\ verdict' = "dirty"
    /\ UNCHANGED <<server, phase, cause, grabbed, claims, owned, recent,
                   deadline, failed, faulty>>

DeadlinePasses ==
    /\ Cleaning
    /\ ~deadline
    /\ deadline' = TRUE
    /\ UNCHANGED <<server, phase, cause, grabbed, claims, owned, recent,
                   failed, faulty, verdict>>

(* closeConnection, bounded by the same deadline, and the end of the helper.   *)
CloseConnection(ok) ==
    /\ phase = "closing" \/ (Cleaning /\ verdict = "dirty")
    /\ phase' = "exited"
    /\ verdict' = IF failed \/ ~ok \/ verdict = "dirty" THEN "dirty" ELSE "clean"
    /\ faulty' = (faulty \/ ~ok)
    /\ UNCHANGED <<server, cause, grabbed, claims, owned, recent, deadline, failed>>

-----------------------------------------------------------------------------
Request ==
    \/ GrabServer
    \/ UngrabServer
    \/ \E i \in Inputs, r \in Outcomes : Press(i, r)
    \/ \E i \in Inputs, r \in Outcomes : Release(i, r)
    \/ \E c \in Codes, i \in Ours, r \in Outcomes, read \in BOOLEAN :
          ClaimMapping(c, i, r, read)
    \/ \E c \in Codes, r \in Outcomes, read \in BOOLEAN :
          RestoreMapping(c, r, read)
    \/ DispatchTimeout
    \/ \E why \in {"close", "eof", "broken"} : BeginCleanup(why)

Cleanup ==
    \/ \E ok \in BOOLEAN : CleanupGrab(ok)
    \/ \E out \in [owned -> Outcomes], ok \in BOOLEAN : FirstRelease(out, ok)
    \/ \E ok \in BOOLEAN : SettleRegrab(ok)
    \/ \E out \in [owned -> Outcomes] : ReleaseAgain(out)
    \/ \E out \in [Claimed -> RestoreOutcomes] : Restore(out)
    \/ \E ok \in BOOLEAN : Yield(ok)
    \/ \E ok \in BOOLEAN : YieldRegrab(ok)
    \/ \E ok \in BOOLEAN : FinalUngrab(ok)

Close == \E ok \in BOOLEAN : CloseConnection(ok)

Next ==
    \/ ForeignMapping
    \/ ForeignKey
    \/ Request
    \/ SettleElapses
    \/ Cleanup
    \/ CleanupTimeout
    \/ DeadlinePasses
    \/ Close

Spec == Init /\ [][Next]_vars

(* Only the timers and the end of the process are fair: a request to the X     *)
(* server may never be answered.                                               *)
FairSpec ==
    /\ Spec
    /\ WF_vars(DeadlinePasses)
    /\ WF_vars(CleanupTimeout)
    /\ WF_vars(Close)

-----------------------------------------------------------------------------
(* The state is well formed; in particular a keycode has an image to put back  *)
(* exactly when it has one to recognise, and only a claim can be unresolved.   *)
TypeOK ==
    /\ mapping \in [Codes -> Images]
    /\ otherImage \in [Codes -> Theirs]
    /\ ours \subseteq Inputs
    /\ busy \subseteq Codes
    /\ phase \in Phases
    /\ cause \in {"none", "close", "eof", "broken"}
    /\ before \in [Codes -> Theirs \cup {NoImage}]
    /\ after \in [Codes -> Ours \cup {NoImage}]
    /\ \A c \in Codes : before[c] = NoImage <=> after[c] = NoImage
    /\ unresolved \subseteq Claimed
    /\ owned \subseteq Inputs
    /\ grabbed \in BOOLEAN /\ recent \in BOOLEAN /\ deadline \in BOOLEAN
    /\ failed \in BOOLEAN /\ faulty \in BOOLEAN
    /\ verdict \in {"none", "clean", "dirty"}

(* Whatever the guardian may be holding down it knows about, so that no lost   *)
(* reply of a press or a release can strand a key.                             *)
NothingStranded == ours \subseteq owned

(* A keycode that does not have the image others gave it is claimed, and the   *)
(* claim remembers exactly that image.                                         *)
OriginalRecoverable ==
    \A c \in Codes :
        mapping[c] # otherImage[c] => c \in Claimed /\ before[c] = otherImage[c]

(* When a resolved claim does not match what the server has, the image really  *)
(* is another client's, so giving the claim up never abandons a scratch image. *)
MismatchIsForeign ==
    \A c \in Claimed \ unresolved :
        mapping[c] # after[c] => mapping[c] = otherImage[c]

(* A clean outcome means that nothing is held down and every keycode has the   *)
(* image others gave it.                                                       *)
CleanIsClean ==
    verdict = "clean" => ours = {} /\ mapping = otherImage

(* Cleanup is not reported as failed for anything the other clients may        *)
(* legitimately do: an error needs a failed request, a passed deadline, a      *)
(* broken parent or a request that was abandoned half way.                     *)
NoSpuriousFailure ==
    verdict = "dirty" => faulty \/ deadline \/ cause \in {"none", "broken"}

(* Only another client's own write, or the first claim of a keycode, replaces  *)
(* an image another client wrote.                                              *)
ForeignSurvives ==
    [][\A c \in Codes :
          mapping[c] = otherImage[c] /\ mapping'[c] # mapping[c]
          => \/ otherImage'[c] = mapping'[c]
             \/ c \notin Claimed /\ before'[c] = mapping[c]]_vars

(* Cleanup rewrites a keycode only under the grab, and never one that somebody *)
(* holds down or uses as a modifier.                                           *)
RestoreGuarded ==
    [][\A c \in Codes :
          Cleaning /\ phase' # phase /\ mapping'[c] # mapping[c]
          => grabbed /\ c \notin ours' \cup busy]_vars

(* After a crash, and while no request of cleanup fails, a mapping is restored *)
(* only when the keystrokes before the crash have had time to be read with it. *)
SettleRespected ==
    [][Cleaning /\ Crashed /\ ~faulty /\ phase' # phase /\ mapping' # mapping
       => ~recent \/ deadline]_vars

(* Whatever the X server does or fails to answer, the helper ends.             *)
CleanupTerminates == (phase # "serving") ~> (phase = "exited")

Custody == INSTANCE DesktopCustody WITH
    held <- ours, image <- mapping, original <- otherImage

(* The guardian keeps the promise of DesktopCustody.                           *)
ImplementsCustody == Custody!CustodySpec
=============================================================================
