---------------------------- MODULE OwnedInputs ----------------------------
(***************************************************************************)
(* What the process promises about input that is held down on behalf of an *)
(* agent.  At most one session owns the desktop's input.  Only the owner   *)
(* presses, and only until it is sealed, that is until its Close has waited *)
(* for the action under way.  The claim is given back when nothing is held, *)
(* so that nothing the owner knows of is down without an owner who will    *)
(* release it.  The exception are inputs that an action of the owner fails  *)
(* to release without the owner learning of it: whoever comes next inherits *)
(* them, until they are pressed again, or go up by themselves.              *)
(***************************************************************************)
CONSTANTS Sessions, Inputs, None

VARIABLES
    owner,   \* the session that has the claim, or None
    sealed,  \* the owner presses nothing more
    held,    \* inputs that are down on behalf of the owner
    left     \* inputs that an action left down

vars == <<owner, sealed, held, left>>

Init ==
    /\ owner = None
    /\ sealed = FALSE
    /\ held = {}
    /\ left = {}

Claim(s) ==
    /\ owner = None
    /\ owner' = s
    /\ sealed' = FALSE
    /\ UNCHANGED <<held, left>>

Press(i) ==
    /\ owner # None /\ ~sealed
    /\ held' = held \cup {i}
    /\ left' = left \ {i}
    /\ UNCHANGED <<owner, sealed>>

(* What is held is never merely left behind.                                 *)
Leave(i) ==
    /\ owner # None /\ ~sealed
    /\ i \notin held
    /\ left' = left \cup {i}
    /\ UNCHANGED <<owner, sealed, held>>

Seal ==
    /\ owner # None
    /\ sealed' = TRUE
    /\ UNCHANGED <<owner, held, left>>

(* Released by the owner, or lost with the backend that held it.             *)
Raise(i) ==
    /\ held' = held \ {i}
    /\ left' \in {left, left \ {i}}
    /\ UNCHANGED <<owner, sealed>>

GiveBack ==
    /\ sealed /\ held = {}
    /\ owner' = None
    /\ sealed' = FALSE
    /\ UNCHANGED <<held, left>>

Next ==
    \/ \E s \in Sessions : Claim(s)
    \/ \E i \in Inputs : Press(i) \/ Leave(i) \/ Raise(i)
    \/ Seal
    \/ GiveBack

Spec == Init /\ [][Next]_vars
=============================================================================
