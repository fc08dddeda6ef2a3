------------------------------ MODULE X11Backend ------------------------------
(* The stateful core of the X11 input backend                                  *)
(* (src/internal/x11input/backend_linux.go, keyboard_linux.go and              *)
(* pointer_linux.go): what it believes it holds on the X server, the scratch   *)
(* keycodes it remaps to type symbols the layout lacks, and how a call that    *)
(* loses the connection is cleaned up.                                         *)
(*                                                                             *)
(* Backend.mu admits one call at a time and every transaction runs inside a    *)
(* server grab, so a transaction is one step; calls made of several            *)
(* transactions (text, drag, cleanup) are several steps, with other clients    *)
(* in between.  Any request may lose the connection: the call then stops with  *)
(* any part of its events done, see Breaks.                                    *)
(*                                                                             *)
(* Assumed of the environment: other clients release only what they pressed    *)
(* and do not press what is down already.                                      *)
EXTENDS Naturals, Sequences, FiniteSets

CONSTANTS
    Codes,      \* keycodes
    Buttons,    \* pointer buttons whose state core X11 reports (1 to 5)
    Keysyms,    \* symbols
    Modifiers,  \* sets of modifier keysyms a call may ask for
    Native,     \* the keymap at start: the set of symbols on each keycode
    NativeMods, \* the keycodes in the modifier map at start
    Texts,      \* texts to type: sequences of keysyms
    Images,     \* what other clients write into a keycode
    Contested   \* the inputs that other clients use (bounds the model)

Inputs == Codes \cup Buttons

ASSUME BackendAssumption ==
    /\ Codes \cap Buttons = {}
    /\ Native \in [Codes -> SUBSET Keysyms]
    /\ NativeMods \subseteq Codes
    /\ Modifiers \subseteq SUBSET Keysyms
    /\ Images \subseteq SUBSET Keysyms
    /\ Contested \subseteq Inputs
    /\ Texts \subseteq Seq(Keysyms)

VARIABLES
    \* the X server
    holder,    \* who holds each input down: "none", "us", "other", or "orphan"
               \* for a press of a connection of ours that has ended
    map,       \* map[c]: the symbols on keycode c
    mods,      \* the keycodes in the modifier map
    wrote,     \* keycodes whose mapping is the one our connection wrote
    stray,     \* the same for connections of ours that have ended
    \* the backend
    conn,      \* "open", or how the last connection ended: "closed", "failed"
    refs,      \* keyRefs; a held button (buttons) counts 1
    held,      \* heldKeys: keysym, keycode and the modifiers it acquired
    ready,     \* scratchInitialized
    pool,      \* keycodes of scratchSlots
    bound,     \* bound[c]: {} or the symbol of slot c (scratchByKeysym)
    pending,   \* cleanupPending
    \* the call that owns Backend.mu
    pc,        \* "idle", or the step it is at
    rest,      \* what is left of a text
    lost,      \* connection lost: "no", in the "call", in its "cleanup"
    doubt,     \* a failed request of this connection did what the backend does
               \* not know of (history)
    mistyped   \* a key went down that did not carry its symbol (history)

server  == <<holder, map, mods, wrote, stray>>
scratch == <<ready, pool, bound>>
call    == <<pc, rest, lost>>
history == <<doubt, mistyped>>
vars    == <<holder, map, mods, wrote, stray, conn, refs, held, ready, pool,
             bound, pending, pc, rest, lost, doubt, mistyped>>

NoRefs == [i \in Inputs |-> 0]
NoBinding == [c \in Codes |-> {}]

Init ==
    /\ holder = [i \in Inputs |-> "none"]
    /\ map = Native
    /\ mods = NativeMods
    /\ wrote = {} /\ stray = {}
    /\ conn = "closed"
    /\ refs = NoRefs /\ held = {}
    /\ ready = FALSE /\ pool = {} /\ bound = NoBinding
    /\ pending = FALSE
    /\ pc = "idle" /\ rest = <<>> /\ lost = "no"
    /\ doubt = FALSE /\ mistyped = FALSE

Free(i) == holder[i] = "none"
-----------------------------------------------------------------------------
(* Other clients, and the guardian of an ended connection.                     *)
OtherPresses(i) ==
    /\ Free(i)
    /\ holder' = [holder EXCEPT ![i] = "other"]
    /\ UNCHANGED <<map, mods, wrote, stray>>

OtherReleases(i) ==
    /\ holder[i] = "other"
    /\ holder' = [holder EXCEPT ![i] = "none"]
    /\ UNCHANGED <<map, mods, wrote, stray>>

(* A write of the very symbol the backend bound cannot be told from its own.   *)
OtherRemaps(c, image) ==
    /\ image # map[c]
    /\ map' = [map EXCEPT ![c] = image]
    /\ wrote' = IF image # {} /\ image = bound[c] THEN wrote \cup {c} ELSE wrote \ {c}
    /\ stray' = stray \ {c}
    /\ UNCHANGED <<holder, mods>>

(* The server refuses to change the modifier role of a key that is down.       *)
OtherModifier(c) ==
    /\ Free(c)
    /\ mods' = IF c \in mods THEN mods \ {c} ELSE mods \cup {c}
    /\ UNCHANGED <<holder, map, wrote, stray>>

GuardianSettles ==
    /\ \/ stray # {}
       \/ \E i \in Inputs : holder[i] = "orphan"
    /\ holder' = [i \in Inputs |-> IF holder[i] = "orphan" THEN "none" ELSE holder[i]]
    /\ \E restored \in SUBSET stray :
           map' = [c \in Codes |-> IF c \in restored THEN {} ELSE map[c]]
    /\ stray' = {}
    /\ UNCHANGED <<mods, wrote>>

Others ==
    /\ \/ \E i \in Contested : OtherPresses(i) \/ OtherReleases(i)
       \/ \E c \in Contested \cap Codes, image \in Images : OtherRemaps(c, image)
       \/ \E c \in Contested \cap Codes : OtherModifier(c)
       \/ GuardianSettles
    /\ UNCHANGED <<conn, refs, held, scratch, pending, call, history>>

-----------------------------------------------------------------------------
(* openLocked.  A call first makes the connection it needs.                    *)
Connected == conn = "open"

Usable == pc = "idle" /\ Connected /\ ~pending

Dial ==
    /\ pc = "idle" /\ ~Connected
    /\ conn' = "open"
    /\ UNCHANGED <<server, refs, held, scratch, pending, call, history>>

(* closeLocked begins: Close, an unhealthy or changed display, a failed call.  *)
Close ==
    /\ pc = "idle" /\ Connected
    /\ pc' = "release"
    /\ UNCHANGED <<server, conn, refs, held, scratch, pending, rest, lost, history>>

-----------------------------------------------------------------------------
(* Keyboard map and scratch pool, read under the grab.                         *)

(* Fault: only the modifier role of a slot is checked, not its mapping.        *)
ConflictRoleOnly == ready /\ \E c \in pool : bound[c] # {} /\ c \in mods

(* updateScratchStateLocked finds a slot it owns taken over.                   *)
Conflict ==
    ready /\ \E c \in pool : bound[c] # {} /\ (c \in mods \/ map[c] # bound[c])

Vacant == {c \in Codes : c \notin mods /\ map[c] = {}}

(* loadKeyboardMapLocked: the pool it leaves.  A pool that owns nothing is     *)
(* built anew when the width of the keymap has changed.                        *)
Pools ==
    IF ~ready THEN {Vacant}
    ELSE {{c \in pool : c \notin mods /\ (bound[c] # {} \/ map[c] = {})}}
         \cup IF bound = NoBinding THEN {Vacant} ELSE {}

Load(P) == ~Conflict /\ P \in Pools /\ pool' = P /\ ready' = TRUE

SlotOf(P, k) == {c \in P : bound[c] = {k}}
Available(P) == {c \in P : bound[c] = {} /\ Free(c)}

(* Where a keysym is typed: on the keycode that carries it and nothing else,   *)
(* or on a scratch keycode, "new" when it has to be bound first.               *)
Plain(k) == {c \in Codes : map[c] = {k}}
Resolutions(P, k, allow, force) ==
    {[code |-> c, new |-> {}] : c \in IF force THEN {} ELSE Plain(k)}
    \cup IF ~allow \/ (~force /\ Plain(k) # {}) THEN {}
         ELSE IF SlotOf(P, k) # {}
              THEN {[code |-> c, new |-> {}] : c \in SlotOf(P, k)}
              ELSE {[code |-> c, new |-> {c}] : c \in Available(P)}

(* modifierCodesLocked: a modifier keycode for every modifier keysym.          *)
ModifierCodes(M) ==
    {{f[m] : m \in M} : f \in {g \in [M -> mods] : \A m \in M : m \in map[g[m]]}}

(* ChangeKeyboardMapping of every keycode in f to the symbol f gives it.       *)
Bind(f) ==
    /\ map' = [c \in Codes |-> IF c \in DOMAIN f THEN f[c] ELSE map[c]]
    /\ bound' = [c \in Codes |-> IF c \in DOMAIN f THEN f[c] ELSE bound[c]]
    /\ wrote' = wrote \cup DOMAIN f
    /\ stray' = stray \ DOMAIN f
    /\ mods' = mods

Resolve(P, k, r) == Load(P) /\ Bind([c \in r.new |-> {k}])

(* Fault: a modifier somebody else holds is taken for our own.                 *)
AcquiredAll(C) == C

(* acquireModifiersLocked: those not held down by somebody else.               *)
Acquired(C) == {c \in C : Free(c) \/ refs[c] > 0}

(* acquireMainKeyLocked                                                        *)
MayPress(c, C) == Free(c) /\ c \notin C

Mistype(c, k) == mistyped' = (mistyped \/ map'[c] # {k})
-----------------------------------------------------------------------------
(* A request of a transaction lost the connection.  Of the inputs in S, those  *)
(* in down are down and those in believed are in the ledger; of the bindings   *)
(* in f, all those written but at most one are in the pool.  An input held     *)
(* before stays in the ledger until the server has confirmed its release.      *)
Breaks(S, f) ==
    /\ \E down \in SUBSET S, believed \in SUBSET S, written \in SUBSET DOMAIN f :
       \E unknown \in SUBSET written :
        /\ Cardinality(unknown) <= 1
        /\ \A i \in down : refs[i] > 0 => i \in believed
        /\ holder' = [i \in Inputs |-> IF i \in down THEN "us"
                                       ELSE IF i \in S THEN "none" ELSE holder[i]]
        /\ refs' = [i \in Inputs |-> IF i \in believed THEN 1
                                     ELSE IF i \in S THEN 0 ELSE refs[i]]
        /\ map' = [c \in Codes |-> IF c \in written THEN f[c] ELSE map[c]]
        /\ bound' = [c \in Codes |-> IF c \in written \ unknown THEN f[c] ELSE bound[c]]
        /\ wrote' = wrote \cup written
        /\ stray' = stray \ written
        /\ doubt' = (down # believed \/ unknown # {})
    /\ pc' = "release"
    /\ lost' = "call"
    /\ rest' = <<>>
    /\ UNCHANGED <<mods, conn, held, pending, mistyped>>

(* The grab, a query, a motion event or the ungrab failed, or the keyboard map *)
(* cannot be used: errX11Connection or errX11KeyboardMap.                      *)
QueryFails ==
    /\ Usable \/ pc \in {"text", "drag"}
    /\ Breaks({}, <<>>)
    /\ UNCHANGED <<ready, pool>>

-----------------------------------------------------------------------------
(* Keys.  KeyboardReady; also Location and the moves, which keep no state.     *)
KeyboardReady ==
    /\ Usable
    /\ \E P \in Pools : Load(P)
    /\ UNCHANGED <<server, conn, refs, held, bound, pending, call, history>>

(* tapKeysymLocked: press, hold and release in one transaction.  A key that is *)
(* down already is refused, and the binding made for it stays.                 *)
TapKeysym(k, M, allow, force) ==
    \E P \in Pools, C \in ModifierCodes(M) :
    \E r \in Resolutions(P, k, allow, force) :
        /\ MayPress(r.code, C)
        /\ Resolve(P, k, r)
        /\ mistyped' = (mistyped \/ map'[r.code] # {k})
        /\ UNCHANGED <<holder, conn, refs, held, pending, doubt>>

TapRefused(k, M, allow, force) ==
    \E P \in Pools, C \in ModifierCodes(M) :
    \E r \in Resolutions(P, k, allow, force) :
        /\ ~MayPress(r.code, C)
        /\ Resolve(P, k, r)
        /\ UNCHANGED <<holder, conn, refs, held, pending, history>>

(* No keycode for a modifier or for the symbol itself: ErrUnsupported.         *)
Unsupported(k, M, allow, force) ==
    \E P \in Pools :
        /\ Load(P)
        /\ \/ ModifierCodes(M) = {}
           \/ Resolutions(P, k, allow, force) = {}
        /\ UNCHANGED <<server, conn, refs, held, bound, pending, history>>

TapFails(k, M, allow, force) ==
    TapRefused(k, M, allow, force) \/ Unsupported(k, M, allow, force)

(* The connection is lost between the first press and the last release.        *)
TapBreaks(k, M, allow, force) ==
    \E P \in Pools, C \in ModifierCodes(M) :
    \E r \in Resolutions(P, k, allow, force) :
        /\ Load(P)
        /\ Breaks({c \in C \cup {r.code} : Free(c)}, [c \in r.new |-> {k}])

Tap(k, M, allow, force) ==
    /\ Usable
    /\ \/ (TapKeysym(k, M, allow, force) \/ TapFails(k, M, allow, force))
          /\ UNCHANGED call
       \/ TapBreaks(k, M, allow, force)

(* toggleDownResolvedLocked: the key and the modifiers it acquired stay down.  *)
ToggleDown(k, M) ==
    /\ Usable
    /\ \E P \in Pools, C \in ModifierCodes(M), c \in Plain(k) :
        /\ Load(P)
        /\ IF \E h \in held : h.key = k
           THEN UNCHANGED <<holder, refs, held, mistyped>>
           ELSE IF MayPress(c, C)
           THEN /\ holder' = [i \in Inputs |-> IF i = c \/ i \in Acquired(C)
                                               THEN "us" ELSE holder[i]]
                /\ refs' = [i \in Inputs |-> IF i = c THEN 1
                                             ELSE IF i \in Acquired(C) THEN refs[i] + 1
                                             ELSE refs[i]]
                /\ held' = held \cup {[key |-> k, code |-> c, mods |-> Acquired(C)]}
                /\ mistyped' = (mistyped \/ map[c] # {k})
           ELSE UNCHANGED <<holder, refs, held, mistyped>>
        /\ UNCHANGED <<map, mods, wrote, stray, conn, bound, pending, call, doubt>>

ToggleDownRefused(k, M) ==
    Usable /\ Unsupported(k, M, FALSE, FALSE) /\ UNCHANGED call

ToggleDownBreaks(k, M) ==
    /\ Usable
    /\ \A h \in held : h.key # k
    /\ TapBreaks(k, M, FALSE, FALSE)

(* Fault: a key two holds need is forgotten with the first of them.            *)
DropForgets(released) ==
    /\ refs' = [i \in Inputs |-> IF i \in released THEN 0 ELSE refs[i]]
    /\ holder' = [i \in Inputs |-> IF i \in released /\ refs[i] = 1
                                   THEN "none" ELSE holder[i]]

(* releaseOwnedKeyLocked on every code in released.                            *)
Drop(released) ==
    /\ refs' = [i \in Inputs |-> IF i \in released THEN refs[i] - 1 ELSE refs[i]]
    /\ holder' = [i \in Inputs |-> IF i \in released /\ refs[i] = 1
                                   THEN "none" ELSE holder[i]]

ToggleUp(k) ==
    /\ Usable
    /\ \E h \in held :
        /\ h.key = k
        /\ Drop({h.code} \cup h.mods)
        /\ held' = held \ {h}
    /\ UNCHANGED <<map, mods, wrote, stray, conn, scratch, pending, call, history>>

ToggleUpRefused(k) ==
    /\ Usable
    /\ \A h \in held : h.key # k
    /\ UNCHANGED <<server, conn, refs, held, scratch, pending, call, history>>

ToggleUpBreaks(k) ==
    /\ Usable
    /\ \E h \in held :
        /\ h.key = k
        /\ Breaks({c \in {h.code} \cup h.mods : refs[c] = 1}, <<>>)
    /\ UNCHANGED <<ready, pool>>

-----------------------------------------------------------------------------
(* Text: first reserve a scratch keycode for every symbol, then tap them, each *)
(* in a transaction of its own.                                                *)
Missing(P, t) == {t[n] : n \in DOMAIN t} \ {k \in Keysyms : SlotOf(P, k) # {}}

(* One scratch keycode for each missing symbol.                                *)
Reservations(P, t) ==
    {f \in UNION {[D -> {{k} : k \in Missing(P, t)}] : D \in SUBSET Available(P)} :
        /\ \A k \in Missing(P, t) : \E c \in DOMAIN f : f[c] = {k}
        /\ Cardinality(DOMAIN f) = Cardinality(Missing(P, t))}

ReserveText(t) ==
    /\ Usable
    /\ \E P \in Pools :
        /\ Load(P)
        /\ \/ \E f \in Reservations(P, t) :
                /\ Bind(f)
                /\ pc' = IF t = <<>> THEN "idle" ELSE "text"
                /\ rest' = t
           \/ /\ Reservations(P, t) = {}
              /\ UNCHANGED <<map, mods, wrote, stray, bound, pc, rest>>
    /\ UNCHANGED <<holder, conn, refs, held, pending, lost, history>>

ReserveBreaks(t) ==
    /\ Usable
    /\ \E P \in Pools :
        /\ Load(P)
        /\ \E f \in Reservations(P, t) : Breaks({}, f)

TextTap ==
    /\ pc = "text"
    /\ \/ /\ TapKeysym(Head(rest), {}, TRUE, TRUE)
          /\ rest' = Tail(rest)
          /\ pc' = IF Len(rest) = 1 THEN "idle" ELSE "text"
          /\ UNCHANGED lost
       \/ /\ TapFails(Head(rest), {}, TRUE, TRUE)
          /\ rest' = <<>>
          /\ pc' = "idle"
          /\ UNCHANGED lost
       \/ TapBreaks(Head(rest), {}, TRUE, TRUE)

-----------------------------------------------------------------------------
(* Buttons.                                                                    *)
AcquireButton(b) ==
    /\ Usable
    /\ Free(b)
    /\ holder' = [holder EXCEPT ![b] = "us"]
    /\ refs' = [refs EXCEPT ![b] = 1]
    /\ UNCHANGED <<map, mods, wrote, stray, conn, held, scratch, pending, rest,
                   lost, history>>

ButtonDown(b) == AcquireButton(b) /\ UNCHANGED pc

(* Toggle, Click, Scroll and DragSmooth refuse a button that is down.          *)
ButtonRefused(b) ==
    /\ Usable
    /\ \/ ~Free(b)
       \/ refs[b] = 0       \* releasing it
    /\ UNCHANGED <<server, conn, refs, held, scratch, pending, call, history>>

ReleaseButton(b) ==
    /\ refs[b] > 0
    /\ holder' = [holder EXCEPT ![b] = "none"]
    /\ refs' = [refs EXCEPT ![b] = 0]
    /\ UNCHANGED <<map, mods, wrote, stray, conn, held, scratch, pending, rest,
                   lost, history>>

ButtonUp(b) == Usable /\ ReleaseButton(b) /\ UNCHANGED pc

(* Click and each step of Scroll: down and up in one transaction.              *)
Click(b) ==
    /\ Usable
    /\ Free(b)
    /\ UNCHANGED <<server, conn, refs, held, scratch, pending, call, history>>

(* DragSmooth: down, the moves, and up; only the ends are transactions.        *)
DragDown(b) == AcquireButton(b) /\ pc' = "drag"
DragUp(b) == pc = "drag" /\ ReleaseButton(b) /\ pc' = "idle"

ButtonBreaks(b) ==
    /\ \/ Usable /\ (Free(b) \/ refs[b] > 0)
       \/ pc = "drag" /\ refs[b] > 0
    /\ Breaks({b}, <<>>)
    /\ UNCHANGED <<ready, pool>>

-----------------------------------------------------------------------------
(* closeLocked: release what is held, put the scratch keycodes back, and end   *)
(* the connection.  Each half is a transaction of its own.                     *)
Believed == {i \in Inputs : refs[i] > 0}

(* releaseOwnedInputLocked: inputs in released went up.                        *)
Released(released) ==
    /\ holder' = [i \in Inputs |-> IF i \in released THEN "none" ELSE holder[i]]
    /\ refs' = [i \in Inputs |-> IF i \in released THEN 0 ELSE refs[i]]
    /\ held' = {h \in held : refs'[h.code] > 0}
    /\ pc' = "restore"
    /\ UNCHANGED <<map, mods, wrote, stray, conn, scratch, pending, rest, history>>

ReleaseOwned ==
    /\ pc = "release"
    /\ \/ Released(Believed) /\ UNCHANGED lost
       \/ \E released \in SUBSET Believed : Released(released) /\ lost' = "cleanup"

Bound == {c \in pool : bound[c] # {}}

(* Fault: a slot that is pressed is skipped instead of retried.                *)
KeptUnpressed == {c \in Bound : map[c] = bound[c] /\ Free(c)}

(* The slots that still carry what the backend wrote.                          *)
Kept == {c \in Bound : map[c] = bound[c]}
Blocked == {c \in Kept : ~Free(c) \/ c \in mods}

(* Keycodes in restored are empty again; the guardian takes over whatever the  *)
(* connection leaves behind.                                                   *)
EndConnection(restored) ==
    /\ map' = [c \in Codes |-> IF c \in restored THEN {} ELSE map[c]]
    /\ holder' = [i \in Inputs |-> IF holder[i] = "us" THEN "orphan" ELSE holder[i]]
    /\ stray' = stray \cup (wrote \ restored)
    /\ wrote' = {}
    /\ refs' = NoRefs /\ held' = {}
    /\ ready' = FALSE /\ pool' = {} /\ bound' = NoBinding
    /\ pending' = FALSE
    /\ doubt' = FALSE

(* The connection stays, to be closed again, when a keycode cannot be restored.*)
Postpone ==
    /\ map' = [c \in Codes |-> IF c \in Kept \ Blocked THEN {} ELSE map[c]]
    /\ bound' = [c \in Codes |-> IF c \in Blocked THEN bound[c] ELSE {}]
    /\ wrote' = wrote \ (Kept \ Blocked)
    /\ pending' = TRUE
    /\ UNCHANGED <<holder, stray, conn, refs, held, ready, pool, doubt>>

(* restoreScratchMappingsLocked                                                *)
Restore ==
    /\ pc = "restore"
    /\ \/ /\ Blocked # {} /\ lost # "cleanup"
          /\ Postpone
       \/ /\ Blocked = {} \/ lost = "cleanup"
          /\ EndConnection(Kept \ Blocked)
          /\ conn' = IF lost = "cleanup" THEN "failed" ELSE "closed"
       \/ \E restored \in SUBSET (Kept \ Blocked) :
          /\ EndConnection(restored)
          /\ conn' = "failed"
    /\ pc' = "idle" /\ lost' = "no" /\ rest' = <<>>
    /\ UNCHANGED <<mods, mistyped>>

-----------------------------------------------------------------------------
Keyboard ==
    \/ KeyboardReady
    \/ \E k \in Keysyms, M \in Modifiers :
        \/ \E allow, force \in BOOLEAN : Tap(k, M, allow, force)
        \/ ToggleDown(k, M)
        \/ ToggleDownRefused(k, M)
        \/ ToggleDownBreaks(k, M)
    \/ \E k \in Keysyms : ToggleUp(k) \/ ToggleUpRefused(k) \/ ToggleUpBreaks(k)
    \/ \E t \in Texts : ReserveText(t) \/ ReserveBreaks(t)
    \/ TextTap

Pointer ==
    \E b \in Buttons :
        \/ ButtonDown(b) \/ ButtonRefused(b) \/ ButtonUp(b) \/ Click(b)
        \/ DragDown(b) \/ DragUp(b) \/ ButtonBreaks(b)

Backend == Dial \/ Close \/ QueryFails \/ Keyboard \/ Pointer \/ ReleaseOwned \/ Restore
Next == Others \/ Backend
Spec == Init /\ [][Next]_vars

-----------------------------------------------------------------------------
Holders == {"none", "us", "other", "orphan"}
TypeOK ==
    /\ holder \in [Inputs -> Holders]
    /\ map \in [Codes -> SUBSET Keysyms]
    /\ mods \subseteq Codes
    /\ wrote \subseteq Codes
    /\ stray \subseteq Codes
    /\ conn \in {"open", "closed", "failed"}
    /\ refs \in [Inputs -> Nat]
    /\ held \subseteq [key : Keysyms, code : Codes, mods : SUBSET Codes]
    /\ ready \in BOOLEAN
    /\ pool \subseteq Codes
    /\ bound \in [Codes -> SUBSET Keysyms]
    /\ pending \in BOOLEAN
    /\ pc \in {"idle", "text", "drag", "release", "restore"}
    /\ rest \in Seq(Keysyms)
    /\ lost \in {"no", "call", "cleanup"}
    /\ doubt \in BOOLEAN
    /\ mistyped \in BOOLEAN

Uses(c) == {h \in held : c = h.code \/ c \in h.mods}

(* The ledger is right, in the middle of a cleanup too: exactly the inputs the *)
(* backend counts as held are down because of it, unless it lost an answer;    *)
(* and outside a cleanup keyRefs counts the heldKeys entries that use a        *)
(* keycode, so that a key or modifier goes up with the last hold of it.        *)
Ledger ==
    /\ ~doubt => \A i \in Inputs : (refs[i] > 0) <=> (holder[i] = "us")
    /\ pc \in {"idle", "text", "drag"} =>
         \A c \in Codes : refs[c] = Cardinality(Uses(c))

(* Whatever other clients do to the keymap between the transactions of a text, *)
(* every key that goes down carries the symbol it was meant to type.           *)
TypesItsSymbol == ~mistyped

(* README.md: when cleanup is blocked, the blocking state is external.         *)
PendingIsExternal == pending => \A c \in Blocked : holder[c] # "us"

(* The backend never releases an input somebody else holds, unless it lost the *)
(* answer to its own release of it; and it rewrites only keycodes that are     *)
(* empty or still carry what it wrote.                                         *)
ForeignKept ==
    [][\/ Others
       \/ /\ \A i \in Inputs : holder[i] = "other" /\ holder'[i] # "other"
                                => pc = "release" /\ doubt
          /\ \A c \in Codes : map'[c] # map[c]
                                => map[c] = {} \/ map[c] = bound[c]]_vars

(* A connection closed without an error, and without a lost answer before,     *)
(* leaves no input down and no keycode rewritten.                              *)
CleanClose ==
    [][Connected /\ conn' = "closed" /\ ~doubt
         => /\ \A i \in Inputs : holder[i] # "us"
            /\ stray' = stray]_vars
=============================================================================
