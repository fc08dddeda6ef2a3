---------------------------- MODULE DesktopCustody ----------------------------
(* What a custodian of desktop input state promises the rest of the desktop.   *)
(* A custodian presses keys and buttons and temporarily rewrites keyboard      *)
(* mappings that every client shares.  The image of a keycode is at all times  *)
(* either one of the custodian's own or the one the others last wrote: the     *)
(* custodian never brings back an older image over a newer one of somebody     *)
(* else.  It announces a clean end only when nothing it pressed is held and    *)
(* every keycode is back with the others.  X11Guardian implements this.        *)
CONSTANTS
    Inputs,     \* keys and buttons that can be held down
    Codes,      \* keycodes whose mapping can be rewritten
    Theirs,     \* mapping images that other clients write
    Ours        \* mapping images that only the custodian writes

VARIABLES
    held,       \* inputs held down because the custodian pressed them
    image,      \* the image the display server has for each keycode
    original,   \* the image somebody else last gave each keycode
    verdict     \* "none" until the custodian ends, then "clean" or "dirty"

custodyVars == <<held, image, original, verdict>>

Rewritten == {c \in Codes : image[c] # original[c]}

CustodyInit ==
    /\ held = {}
    /\ image \in [Codes -> Theirs]
    /\ original = image
    /\ verdict = "none"

(* The custodian presses and releases, rewrites and restores, several at a     *)
(* time; whatever it does not rewrite has the image the others want.           *)
Handle ==
    /\ held' \subseteq Inputs
    /\ DOMAIN image' = Codes
    /\ \A c \in Codes : image'[c] \in {image[c], original[c]} \cup Ours
    /\ UNCHANGED original

Custody ==
    /\ verdict # "clean"
    /\ Handle
    /\ UNCHANGED verdict

(* Another client gives a keycode an image of its own, at any time.            *)
Foreign ==
    \E c \in Codes, i \in Theirs :
        /\ image' = [image EXCEPT ![c] = i]
        /\ original' = [original EXCEPT ![c] = i]
        /\ UNCHANGED <<held, verdict>>

EndClean ==
    /\ verdict = "none"
    /\ held = {}
    /\ Rewritten = {}
    /\ verdict' = "clean"
    /\ UNCHANGED <<held, image, original>>

EndDirty ==
    /\ verdict = "none"
    /\ verdict' = "dirty"
    /\ UNCHANGED <<held, image, original>>

CustodyNext == Custody \/ Foreign \/ EndClean \/ EndDirty

CustodySpec == CustodyInit /\ [][CustodyNext]_custodyVars
=============================================================================
