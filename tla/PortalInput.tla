------------------------------ MODULE PortalInput ------------------------------
(* Input through a RemoteDesktop portal session: one session at a time, shared *)
(* by all calls, with consent, replacement and close; transactions of events   *)
(* that Close cancels; and the ledger of keys and buttons held down            *)
(* (src/remote_desktop_input.go, src/key_ownership_cgo.go,                     *)
(* src/mouse_ownership_cgo.go, src/input/portal).                              *)
(*                                                                             *)
(* A device stands for the goroutine that has its mutex, linuxKeyboardMu or    *)
(* waylandMouseMu; controllers call Start, Close and CloseWaylandInput.        *)
(*                                                                             *)
(* Abstracted: native input is unavailable and every session grants every      *)
(* device; moves, scrolling and touch hold nothing down and are left out.      *)
(* Assumed of the compositor: a session that ends lets go of its inputs.       *)
EXTENDS Naturals, FiniteSets

CONSTANTS
    Devices,      \* goroutines with a device: the keyboard, the pointer
    Keyboard,     \* the keyboard
    Inputs,       \* keysyms and buttons
    Device,       \* the device of each input
    Chords,       \* what can be held: records [main, mods]
    Typed,        \* inputs that texts and clicks press and release
    Controllers,  \* goroutines that start and close sessions
    Nobody,       \* no goroutine; also no event
    MaxStarts,    \* bound on the calls of Start
    MaxCloses     \* bound on the calls of Close by controllers

Sessions == 1..MaxStarts
Procs == Devices \cup Controllers

(* Every start and close makes a generation, and so does the close of each     *)
(* device after a failure in a session.                                        *)
Generations == 0..(MaxStarts + MaxCloses + MaxStarts * Cardinality(Devices))

(* Only a chord of keys has modifiers; of the mouse single buttons are held.   *)
ASSUME PortalAssumption ==
    /\ MaxStarts \in Nat /\ MaxCloses \in Nat
    /\ Devices \cap Controllers = {} /\ Nobody \notin Procs
    /\ IsFiniteSet(Devices) /\ Keyboard \in Devices
    /\ Device \in [Inputs -> Devices]
    /\ Chords \subseteq [main : Inputs, mods : SUBSET Inputs] /\ IsFiniteSet(Chords)
    /\ \A c \in Chords :
         /\ c.main \notin c.mods
         /\ \A m \in c.mods : Device[m] = Keyboard /\ Device[c.main] = Keyboard
    /\ Typed \subseteq Inputs

VARIABLES
    sess,       \* sess[s]: "none" before s is opened, then "open", "closed"
    down,       \* down[s]: what the compositor holds down for s
    current,    \* remoteDesktopInputState.session, 0 for nil
    generation,
    op,         \* who has remoteDesktopInputOperation
    start,      \* remoteDesktopInputPending.start: "none", "live", "cancelled"
    token,      \* the operation context: likewise
    closing,
    mine,       \* the session a Start has opened, or a Close has taken out
    refs,       \* refs[g][i]: the key and button references
    holds,      \* holds[c]: the generation of the hold of c, 0 when not held
    pc,
    call,       \* call[p]: what p is doing
    chord,      \* chord[d]: of a hold, a release or a tap
    gen,        \* gen[d]: the generation d works with
    todo,       \* todo[d]: modifiers to press, or inputs to release
    got,        \* got[d]: modifiers acquired; for a burst, what it types
    event,      \* event[d]: the event on its way to the portal
    err,        \* err[d]: classes of the errors joined so far
    starts, closes,
    raised,     \* history: raised[s]: inputs that a text let go of under a hold
    doubt       \* history: sessions that hold something nobody accounts for

portal  == <<sess, down, raised>>
state   == <<current, generation>>
pending == <<start, token, closing>>
ledger  == <<refs, holds>>
local   == <<chord, gen, todo, got, event, err>>
bounds  == <<starts, closes>>
vars    == <<sess, down, raised, current, generation, op, start, token, closing, mine,
             refs, holds, pc, call, chord, gen, todo, got, event, err, starts,
             closes, doubt>>

Init ==
    /\ sess = [s \in Sessions |-> "none"]
    /\ down = [s \in Sessions |-> {}]
    /\ raised = [s \in Sessions |-> {}]
    /\ current = 0 /\ generation = 0
    /\ op = Nobody /\ start = "none" /\ token = "none" /\ closing = 0
    /\ mine = 0
    /\ refs = [g \in Generations |-> [i \in Inputs |-> 0]]
    /\ holds = [c \in Chords |-> 0]
    /\ pc = [p \in Procs |-> "idle"]
    /\ call = [p \in Procs |-> "none"]
    /\ chord = [d \in Devices |-> Nobody]
    /\ gen = [d \in Devices |-> 0]
    /\ todo = [d \in Devices |-> {}]
    /\ got = [d \in Devices |-> {}]
    /\ event = [d \in Devices |-> Nobody]
    /\ err = [d \in Devices |-> {}]
    /\ starts = 0 /\ closes = 0
    /\ doubt = {}

Open == {s \in Sessions : sess[s] = "open"}
Live == current \in Open

Go(p, where) == pc' = [pc EXCEPT ![p] = where]
Idle(p) ==
    /\ Go(p, "idle")
    /\ call' = [call EXCEPT ![p] = "none"]

(* Ending sessions ends what they hold down.                                   *)
End(S) ==
    /\ sess' = [s \in Sessions |-> IF s \in S THEN "closed" ELSE sess[s]]
    /\ down' = [s \in Sessions |-> IF s \in S THEN {} ELSE down[s]]
    /\ raised' = [s \in Sessions |-> IF s \in S THEN {} ELSE raised[s]]

(* Session.monitor: the portal ends the session, or the bus goes.              *)
PortalCloses(s) ==
    /\ s \in Open
    /\ End({s})
    /\ UNCHANGED <<state, op, pending, mine, ledger, pc, call, local, bounds,
                   doubt>>

-----------------------------------------------------------------------------
(* StartRemoteDesktopInputWithOptions.                                         *)
Start(p) ==
    /\ pc[p] = "idle" /\ starts < MaxStarts
    /\ starts' = starts + 1
    /\ Go(p, "starting")
    /\ call' = [call EXCEPT ![p] = "start"]
    /\ UNCHANGED <<portal, state, op, pending, mine, ledger, local, closes, doubt>>

(* A Start that finds a Close under way is cancelled.                          *)
StartEnters(p) ==
    /\ pc[p] = "starting" /\ op = Nobody
    /\ \/ /\ closing > 0
          /\ Idle(p)
          /\ UNCHANGED <<op, start>>
       \/ /\ closing = 0
          /\ op' = p
          /\ start' = "live"
          /\ Go(p, "opening")
          /\ UNCHANGED call
    /\ UNCHANGED <<portal, state, token, closing, mine, ledger, local, bounds,
                   doubt>>

StartReturns(p) ==
    /\ op' = Nobody /\ start' = "none"
    /\ Idle(p)

(* The portal's dialog: consent, or any failure.  Its context may be done      *)
(* when the consent comes.                                                     *)
Consent(p) ==
    \E s \in Sessions :
        /\ pc[p] = "opening"
        /\ sess[s] = "none"
        /\ sess' = [sess EXCEPT ![s] = "open"]
        /\ mine' = s
        /\ Go(p, "replacing")
        /\ UNCHANGED <<down, raised, state, op, pending, ledger, call, local, bounds,
                       doubt>>

OpenFails(p) ==
    /\ pc[p] = "opening"
    /\ IF Live THEN UNCHANGED state
       ELSE current' = 0 /\ generation' = generation + 1
    /\ StartReturns(p)
    /\ UNCHANGED <<portal, token, closing, mine, ledger, local, bounds, doubt>>

(* Fault: when the previous session cannot be closed, the new one is left.     *)
ReplaceLeaks(p) ==
    /\ pc[p] = "replacing"
    /\ End({current})
    /\ current' \in {mine, IF current = 0 THEN mine ELSE 0}
    /\ generation' = generation + 1
    /\ mine' = 0
    /\ StartReturns(p)
    /\ UNCHANGED <<token, closing, ledger, local, bounds, doubt>>

(* The previous session is closed first; if that fails there is no session.    *)
Replace(p) ==
    /\ pc[p] = "replacing"
    /\ \/ End({current}) /\ current' = mine
       \/ current # 0 /\ End({current, mine}) /\ current' = 0
    /\ generation' = generation + 1
    /\ mine' = 0
    /\ StartReturns(p)
    /\ UNCHANGED <<token, closing, ledger, local, bounds, doubt>>

-----------------------------------------------------------------------------
Cancelled(t) == IF t = "live" THEN "cancelled" ELSE t

(* Fault: only a transaction is cancelled, not a pending start.                *)
CancelOperation ==
    /\ token' = Cancelled(token)
    /\ UNCHANGED start

Cancel ==
    /\ token' = Cancelled(token)
    /\ start' = Cancelled(start)

(* CloseRemoteDesktopInput: first cancel whoever has the operation mutex, then *)
(* wait for it.  Also the last step of a device whose call has failed.         *)
Close(p) ==
    /\ \/ /\ p \in Controllers /\ pc[p] = "idle" /\ closes < MaxCloses
          /\ closes' = closes + 1
          /\ \E how \in {"close", "wayland"} : call' = [call EXCEPT ![p] = how]
       \/ p \in Devices /\ pc[p] = "failed" /\ UNCHANGED <<closes, call>>
    /\ closing' = closing + 1
    /\ Cancel
    /\ Go(p, "closing")
    /\ UNCHANGED <<portal, state, op, mine, ledger, local, starts, doubt>>

CloseEnters(p) ==
    /\ pc[p] = "closing" /\ op = Nobody
    /\ op' = p
    /\ mine' = current
    /\ current' = 0 /\ generation' = generation + 1
    /\ Go(p, "ending")
    /\ UNCHANGED <<portal, pending, ledger, call, local, bounds, doubt>>

(* clearPortalKeyboardGenerationLocked, clearPortalMouseGenerationLocked.      *)
Forget(d, g) ==
    /\ refs' = [refs EXCEPT ![g] = [i \in Inputs |->
                                      IF Device[i] = d THEN 0 ELSE @[i]]]
    /\ holds' = [c \in Chords |->
                   IF Device[c.main] = d /\ holds[c] = g THEN 0 ELSE holds[c]]

(* Session.Close; CloseWaylandInput goes on.                                   *)
CloseEnds(p) ==
    /\ pc[p] = "ending"
    /\ End({mine})
    /\ mine' = 0
    /\ closing' = closing - 1
    /\ op' = Nobody
    /\ IF p \in Devices THEN Forget(p, gen[p]) ELSE UNCHANGED ledger
    /\ IF call[p] = "wayland" THEN Go(p, "wiping") /\ UNCHANGED call ELSE Idle(p)
    /\ UNCHANGED <<state, start, token, local, bounds, doubt>>

(* CloseWaylandInput with both device locks: everything held through a portal  *)
(* is forgotten, also what a session started in between has down.              *)
Wipe(p) ==
    /\ pc[p] = "wiping"
    /\ \A d \in Devices : pc[d] = "idle"
    /\ refs' = [g \in Generations |-> [i \in Inputs |-> 0]]
    /\ holds' = [c \in Chords |-> 0]
    /\ doubt' = doubt \cup {s \in Open : down[s] # {}}
    /\ Idle(p)
    /\ UNCHANGED <<portal, state, op, pending, mine, local, bounds>>

-----------------------------------------------------------------------------
(* The calls of a device: KeyToggle and MouseToggle down and up, KeyTap, and a *)
(* burst, a text or a click.                                                   *)
Begin(d, what, c, g, S) ==
    /\ Go(d, "waiting")
    /\ call' = [call EXCEPT ![d] = what]
    /\ chord' = [chord EXCEPT ![d] = c]
    /\ gen' = [gen EXCEPT ![d] = g]
    /\ got' = [got EXCEPT ![d] = S]
    /\ err' = [err EXCEPT ![d] = {}]
    /\ UNCHANGED <<portal, state, op, pending, mine, todo, event, bounds, doubt>>

(* A second Down of a hold is refused, unless the hold is of an old session.   *)
Down(d, c) ==
    /\ pc[d] = "idle" /\ Device[c.main] = d
    /\ holds[c] = 0 \/ holds[c] # generation
    /\ IF holds[c] = 0 THEN UNCHANGED ledger ELSE Forget(d, holds[c])
    /\ Begin(d, "down", c, 0, {})

Up(d, c) ==
    /\ pc[d] = "idle" /\ Device[c.main] = d
    /\ holds[c] # 0
    /\ Begin(d, "up", c, holds[c], {})
    /\ UNCHANGED ledger

Tap(c) ==
    /\ pc[Keyboard] = "idle" /\ Device[c.main] = Keyboard
    /\ Begin(Keyboard, "tap", c, 0, {})
    /\ UNCHANGED ledger

(* A text is any sequence of keys; a click is refused for a button held down.  *)
Text ==
    /\ pc[Keyboard] = "idle"
    /\ Begin(Keyboard, "burst", Nobody, 0, {i \in Typed : Device[i] = Keyboard})
    /\ UNCHANGED ledger

Click(d, button) ==
    /\ d # Keyboard /\ pc[d] = "idle"
    /\ Device[button] = d
    /\ \A c \in Chords : c.main = button => holds[c] = 0
    /\ Begin(d, "burst", Nobody, 0, {button})
    /\ UNCHANGED ledger

(* A call that ends without an event.  An Up that finds its session gone       *)
(* forgets the holds of that session.                                          *)
Unused(d) ==
    /\ IF call[d] = "up" THEN Forget(d, gen[d]) ELSE UNCHANGED ledger
    /\ Idle(d)

(* The main key of a new hold or a tap must not be down for a hold already.    *)
Occupied(d) ==
    /\ call[d] \in {"down", "tap"}
    /\ refs[generation][chord[d].main] > 0

(* withRemoteDesktopInputLease.                                                *)
Enter(d) ==
    /\ pc[d] = "waiting" /\ op = Nobody
    /\ \/ /\ current = 0 \/ (call[d] = "up" /\ gen[d] # generation)
          /\ Unused(d)
          /\ UNCHANGED <<op, token, gen, todo>>
       \/ /\ current # 0 /\ (call[d] = "up" => gen[d] = generation)
          /\ ~Live
          /\ IF call[d] \in {"down", "tap"}
               THEN Go(d, "failed") /\ UNCHANGED <<call, ledger>>
               ELSE Unused(d)
          /\ gen' = [gen EXCEPT ![d] = generation]
          /\ UNCHANGED <<op, token, todo>>
       \/ /\ current # 0 /\ (call[d] = "up" => gen[d] = generation)
          /\ Live /\ closing > 0
          /\ IF call[d] = "burst" THEN Idle(d) ELSE Go(d, "failed") /\ UNCHANGED call
          /\ gen' = [gen EXCEPT ![d] = generation]
          /\ UNCHANGED <<op, token, todo, ledger>>
       \/ /\ current # 0 /\ Live /\ closing = 0
          /\ Occupied(d)
          /\ Idle(d)
          /\ UNCHANGED <<op, token, gen, todo, ledger>>
       \/ /\ current # 0 /\ (call[d] = "up" => gen[d] = generation)
          /\ Live /\ closing = 0 /\ ~Occupied(d)
          /\ op' = d
          /\ token' = "live"
          /\ gen' = [gen EXCEPT ![d] = generation]
          /\ LET c == chord[d] IN
             CASE call[d] = "up" ->
                    /\ todo' = [todo EXCEPT ![d] = {c.main} \cup c.mods]
                    /\ Go(d, "release")
               [] call[d] = "burst" ->
                    /\ Go(d, "burst")
                    /\ UNCHANGED todo
               [] OTHER ->
                    /\ todo' = [todo EXCEPT ![d] = c.mods]
                    /\ Go(d, "press")
          /\ UNCHANGED <<call, ledger>>
    /\ UNCHANGED <<portal, state, start, closing, mine, chord, got, event, err,
                   bounds, doubt>>

-----------------------------------------------------------------------------
(* Inside a transaction.                                                       *)
Ref(d, i) == refs[gen[d]][i]
SetRef(d, i, n) == refs' = [refs EXCEPT ![gen[d]][i] = n]

(* Modifiers go down before the main key and come up after it.                 *)
Pressing(d) ==
    IF pc[d] # "press" THEN {}
    ELSE IF todo[d] # {} THEN todo[d] ELSE {chord[d].main}
Releasing(d) ==
    IF pc[d] # "release" THEN {}
    ELSE IF call[d] # "burst" /\ chord[d].main \in todo[d] THEN {chord[d].main}
    ELSE todo[d]

Wanted(d) ==
    {[input |-> i, press |-> TRUE] : i \in {j \in Pressing(d) : Ref(d, j) = 0}}
    \cup {[input |-> i, press |-> FALSE] : i \in {j \in Releasing(d) : Ref(d, j) = 1}}
    \cup (IF pc[d] # "burst" THEN {}
          ELSE {[input |-> i, press |-> todo[d] = {}] :
                  i \in IF todo[d] = {} THEN got[d] ELSE todo[d]})

Succeeds(d, e) ==
    /\ \/ /\ pc[d] = "press" /\ e.input # chord[d].main
          /\ SetRef(d, e.input, 1)
          /\ todo' = [todo EXCEPT ![d] = @ \ {e.input}]
          /\ got' = [got EXCEPT ![d] = @ \cup {e.input}]
          /\ UNCHANGED pc
       \/ /\ pc[d] = "press" /\ e.input = chord[d].main
          /\ SetRef(d, e.input, 1)
          /\ todo' = [todo EXCEPT ![d] = IF call[d] = "tap" THEN got[d] \cup {e.input}
                                         ELSE {}]
          /\ Go(d, IF call[d] = "tap" THEN "release" ELSE "leave")
          /\ UNCHANGED got
       \/ /\ pc[d] = "release"
          /\ SetRef(d, e.input, 0)
          /\ todo' = [todo EXCEPT ![d] = @ \ {e.input}]
          /\ UNCHANGED <<pc, got>>
       \/ /\ pc[d] = "burst"
          /\ todo' = [todo EXCEPT ![d] = IF e.press THEN {e.input} ELSE {}]
          /\ UNCHANGED <<pc, got, refs>>
    /\ UNCHANGED err

(* A press that fails is rolled back; a release that fails is not repeated.    *)
Fails(d, e, why) ==
    /\ err' = [err EXCEPT ![d] = @ \cup {why}]
    /\ CASE pc[d] = "press"   -> /\ todo' = [todo EXCEPT ![d] = got[d]]
                                 /\ Go(d, "release")
         [] pc[d] = "release" -> /\ todo' = [todo EXCEPT ![d] = @ \ {e.input}]
                                 /\ UNCHANGED pc
         [] pc[d] = "burst"   -> /\ todo' = [todo EXCEPT ![d] = {}]
                                 /\ Go(d, "leave")
    /\ UNCHANGED <<refs, got>>

(* remoteDesktopEvent, up to the call: it is not made when the context is done *)
(* or the session has ended.                                                   *)
Send(d) ==
    \E e \in Wanted(d) :
        /\ event[d] = Nobody
        /\ \/ /\ token = "live" /\ Live
              /\ event' = [event EXCEPT ![d] = e]
              /\ UNCHANGED <<pc, todo, got, err, refs>>
           \/ /\ token = "cancelled"
              /\ Fails(d, e, "other")
              /\ UNCHANGED event
           \/ /\ ~Live
              /\ Fails(d, e, "closed")
              /\ UNCHANGED event
        /\ UNCHANGED <<portal, state, op, pending, mine, holds, call, chord, gen,
                       bounds, doubt>>

Press(S, e) == IF e.press THEN S \cup {e.input} ELSE S \ {e.input}

(* A text's release does not ask whether a hold has the key down.              *)
Apply(d, e) ==
    /\ down' = [down EXCEPT ![current] = Press(@, e)]
    /\ raised' = [raised EXCEPT ![current] =
                     IF pc[d] = "burst" /\ ~e.press /\ Ref(d, e.input) > 0
                       THEN @ \cup {e.input} ELSE @ \ {e.input}]

(* The call and its result: done; done, but its context is done as well by     *)
(* then; failed, which ends the session; or overtaken by the session's end.    *)
Deliver(d) ==
    LET e == event[d] IN
    /\ e # Nobody
    /\ event' = [event EXCEPT ![d] = Nobody]
    /\ \/ /\ Live /\ token = "live"
          /\ Apply(d, e)
          /\ Succeeds(d, e)
          /\ UNCHANGED <<sess, doubt>>
       \/ /\ Live
          /\ Apply(d, e)
          /\ Fails(d, e, "other")
          /\ doubt' = IF pc[d] = "burst" /\ token = "live" /\ e.press
                        THEN doubt \cup {current} ELSE doubt
          /\ UNCHANGED sess
       \/ /\ Live
          /\ End({current})
          /\ \E why \in {"other", "closed"} : Fails(d, e, why)
          /\ UNCHANGED doubt
       \/ /\ ~Live
          /\ Succeeds(d, e) \/ \E why \in {"other", "closed"} : Fails(d, e, why)
          /\ UNCHANGED <<portal, doubt>>
    /\ UNCHANGED <<state, op, pending, mine, holds, call, chord, gen, bounds>>

Share(d) ==
    \E m \in Pressing(d) :
        /\ event[d] = Nobody
        /\ Ref(d, m) > 0
        /\ SetRef(d, m, Ref(d, m) + 1)
        /\ todo' = [todo EXCEPT ![d] = @ \ {m}]
        /\ got' = [got EXCEPT ![d] = @ \cup {m}]
        /\ UNCHANGED <<portal, state, op, pending, mine, holds, pc, call, chord,
                       gen, event, err, bounds, doubt>>

(* releasePortalKeyboardRef without an event.                                  *)
Unshare(d) ==
    \E i \in Releasing(d) :
        /\ event[d] = Nobody
        /\ Ref(d, i) # 1
        /\ IF Ref(d, i) > 1
             THEN SetRef(d, i, Ref(d, i) - 1) /\ UNCHANGED err
             ELSE err' = [err EXCEPT ![d] = @ \cup {"ownership"}] /\ UNCHANGED refs
        /\ todo' = [todo EXCEPT ![d] = @ \ {i}]
        /\ UNCHANGED <<portal, state, op, pending, mine, holds, pc, call, chord,
                       gen, got, event, bounds, doubt>>

(* Fault: a call that fails leaves the session as it is.                       *)
LeaveTrusting(d) ==
    /\ \/ pc[d] = "leave"
       \/ pc[d] \in {"release", "burst"} /\ todo[d] = {} /\ event[d] = Nobody
    /\ op' = Nobody
    /\ token' = "none"
    /\ todo' = [todo EXCEPT ![d] = {}]
    /\ Idle(d)
    /\ holds' = IF call[d] = "down" /\ err[d] = {}
                  THEN [holds EXCEPT ![chord[d]] = gen[d]]
                ELSE IF call[d] = "up" THEN [holds EXCEPT ![chord[d]] = 0]
                ELSE holds
    /\ UNCHANGED <<portal, state, start, closing, mine, refs, chord, gen, got,
                   event, err, bounds, doubt>>

(* The end of the transaction.  A failure means that the session cannot be     *)
(* trusted, except that an Up on a session that is gone only forgets it.       *)
Leave(d) ==
    /\ \/ pc[d] = "leave"
       \/ pc[d] \in {"release", "burst"} /\ todo[d] = {} /\ event[d] = Nobody
    /\ op' = Nobody
    /\ token' = "none"
    /\ todo' = [todo EXCEPT ![d] = {}]
    /\ \/ /\ call[d] = "burst"
          /\ Idle(d)
          /\ UNCHANGED ledger
       \/ /\ call[d] # "burst" /\ err[d] = {}
          /\ Idle(d)
          /\ holds' = CASE call[d] = "down" -> [holds EXCEPT ![chord[d]] = gen[d]]
                        [] call[d] = "up" -> [holds EXCEPT ![chord[d]] = 0]
                        [] OTHER -> holds
          /\ UNCHANGED refs
       \/ /\ call[d] = "up" /\ err[d] \cap {"closed", "ownership"} # {}
          /\ Forget(d, gen[d])
          /\ Idle(d)
       \/ /\ call[d] \in {"down", "tap"} /\ "ownership" \in err[d]
          /\ Idle(d)
          /\ UNCHANGED ledger
       \/ /\ call[d] # "burst" /\ err[d] # {} /\ "ownership" \notin err[d]
          /\ call[d] = "up" => err[d] = {"other"}
          /\ Go(d, "failed")
          /\ UNCHANGED <<call, ledger>>
    /\ UNCHANGED <<portal, state, start, closing, mine, chord, gen, got, event,
                   err, bounds, doubt>>

-----------------------------------------------------------------------------
Control ==
    \/ \E s \in Sessions : PortalCloses(s)
    \/ \E p \in Controllers :
         Start(p) \/ StartEnters(p) \/ Consent(p) \/ OpenFails(p) \/ Replace(p)
         \/ Wipe(p)
    \/ \E p \in Procs : Close(p) \/ CloseEnters(p) \/ CloseEnds(p)

Calls ==
    \/ \E d \in Devices, c \in Chords : Down(d, c) \/ Up(d, c)
    \/ \E c \in Chords : Tap(c)
    \/ Text
    \/ \E d \in Devices, i \in Typed : Click(d, i)

Inside(d) == Send(d) \/ Deliver(d) \/ Share(d) \/ Unshare(d)

Next == Control \/ Calls \/ \E d \in Devices : Enter(d) \/ Inside(d) \/ Leave(d)

Spec == Init /\ [][Next]_vars

(* The scheduler runs everyone, mutexes are served in order, events have a     *)
(* deadline, texts end, and an open whose context is done returns.  The user   *)
(* may leave the dialog open for ever.                                         *)
Fairness ==
    /\ \A d \in Devices :
         WF_vars(Inside(d)) /\ SF_vars(Leave(d)) /\ SF_vars(Enter(d))
    /\ WF_vars(\E d \in Devices : Close(d))
    /\ SF_vars(\E p \in Procs : CloseEnters(p))
    /\ WF_vars(\E p \in Procs : CloseEnds(p))
    /\ WF_vars(\E p \in Controllers : Replace(p))
    /\ WF_vars(start = "cancelled"
               /\ \E p \in Controllers : Consent(p) \/ OpenFails(p))
    /\ SF_vars(\E p \in Controllers : Wipe(p))

LiveSpec == Spec /\ Fairness

-----------------------------------------------------------------------------
TypeOK ==
    /\ sess \in [Sessions -> {"none", "open", "closed"}]
    /\ down \in [Sessions -> SUBSET Inputs]
    /\ raised \in [Sessions -> SUBSET Inputs]
    /\ current \in 0..MaxStarts /\ mine \in 0..MaxStarts
    /\ generation \in Generations
    /\ op \in Procs \cup {Nobody}
    /\ start \in {"none", "live", "cancelled"}
    /\ token \in {"none", "live", "cancelled"}
    /\ closing \in Nat
    /\ refs \in [Generations -> [Inputs -> 0..Cardinality(Chords)]]
    /\ holds \in [Chords -> Generations]
    /\ pc \in [Procs -> {"idle", "starting", "opening", "replacing", "closing",
                         "ending", "wiping", "waiting", "press", "release",
                         "burst", "leave", "failed"}]
    /\ call \in [Procs -> {"none", "start", "close", "wayland", "down", "up",
                           "tap", "burst"}]
    /\ chord \in [Devices -> Chords \cup {Nobody}]
    /\ gen \in [Devices -> Generations]
    /\ todo \in [Devices -> SUBSET Inputs] /\ got \in [Devices -> SUBSET Inputs]
    /\ event \in [Devices -> [input : Inputs, press : BOOLEAN] \cup {Nobody}]
    /\ err \in [Devices -> SUBSET {"other", "closed", "ownership"}]
    /\ starts \in 0..MaxStarts /\ closes \in 0..MaxCloses
    /\ doubt \subseteq Sessions

(* No call is inside a transaction and no session is about to be closed.       *)
Settled == op \notin Devices /\ closing = 0 /\ \A d \in Devices : pc[d] # "failed"

Recorded == {i \in Inputs : refs[generation][i] > 0}

(* The recorded holds that use an input.                                       *)
Users(i) == {c \in Chords : /\ holds[c] = generation /\ generation > 0
                            /\ i \in c.mods \cup {c.main}}

(* What the reference ledger of the current generation says is down is what    *)
(* the compositor holds down for the current session: a hold outlives taps,    *)
(* clicks, failures and other holds, and texts as long as they do not type the *)
(* key itself: `raised` has the keys that one did, until they are pressed      *)
(* anew.  Nothing is down without an owner, but for `doubt`: a click or text   *)
(* whose deadline passes right after a press, and CloseWaylandInput with a     *)
(* session that was started in between.  And a key has as many references as   *)
(* there are recorded holds that use it, so that releasing one chord leaves    *)
(* the modifiers of the others down.                                           *)
LedgerExact ==
    /\ Settled /\ Live =>
         /\ Recorded \ raised[current] \subseteq down[current]
         /\ current \notin doubt => down[current] \subseteq Recorded
    /\ Settled => \A i \in Inputs : refs[generation][i] = Cardinality(Users(i))

(* A session that is open is the current one, or in the hands of the Start or  *)
(* the Close that has the operation mutex: none is lost when starts, failures  *)
(* and closes race.                                                            *)
NoLeak == Open \subseteq {current} \cup (IF op = Nobody THEN {} ELSE {mine})

(* CloseRemoteDesktopInput returns, whatever transaction is under way and even *)
(* if the user never answers the consent dialog.                               *)
CloseReturns == \A p \in Procs : pc[p] = "closing" ~> pc[p] \in {"idle", "wiping"}

(* CloseWaylandInput returns: it has cancelled the portal I/O that the calls   *)
(* it waits for might be in.                                                   *)
WaylandReturns == \A p \in Controllers : pc[p] = "wiping" ~> pc[p] = "idle"
=============================================================================
