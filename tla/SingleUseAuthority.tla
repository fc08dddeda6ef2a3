-------------------------- MODULE SingleUseAuthority --------------------------
(* What a single-use authority promises.  A grant authorises one act on the    *)
(* strength of some pieces of evidence (its roots).  It is committed only      *)
(* while all of them are still there, it is used at most once and only after   *)
(* it was committed, and it never comes back.  Retiring evidence ends every    *)
(* grant that rests on it and is not committed yet.  SemanticAction implements *)
(* this.                                                                       *)
CONSTANTS
    Grants,     \* the possible grants
    Evidence    \* the possible pieces of evidence

VARIABLES
    auth,       \* auth[g]: "none", "held", "committed", "used" or "dead"
    rests,      \* rests[g]: the evidence g rests on, once granted
    present,    \* the evidence there is now
    shut        \* the issuer has stopped

authorityVars == <<auth, rests, present, shut>>

AuthorityInit ==
    /\ auth = [g \in Grants |-> "none"]
    /\ rests = [g \in Grants |-> {}]
    /\ present = {}
    /\ shut = FALSE

Collect ==
    /\ ~shut
    /\ \E e \in Evidence : present' = present \cup {e}
    /\ UNCHANGED <<auth, rests, shut>>

Grant ==
    \E g \in Grants, R \in SUBSET present :
        /\ ~shut
        /\ auth[g] = "none"
        /\ auth' = [auth EXCEPT ![g] = "held"]
        /\ rests' = [rests EXCEPT ![g] = R]
        /\ UNCHANGED <<present, shut>>

Commit ==
    \E g \in Grants :
        /\ auth[g] = "held"
        /\ rests[g] \subseteq present
        /\ auth' = [auth EXCEPT ![g] = "committed"]
        /\ UNCHANGED <<rests, present, shut>>

Use ==
    \E g \in Grants :
        /\ auth[g] = "committed"
        /\ auth' = [auth EXCEPT ![g] = "used"]
        /\ UNCHANGED <<rests, present, shut>>

Revoke ==
    \E g \in Grants :
        /\ auth[g] = "held"
        /\ auth' = [auth EXCEPT ![g] = "dead"]
        /\ UNCHANGED <<rests, present, shut>>

(* Evidence goes, and with it what rests on it.  Once the issuer has stopped   *)
(* there is nothing left to revoke.                                            *)
Retire ==
    \E E \in SUBSET present :
        /\ present' = present \ E
        /\ auth' = [g \in Grants |->
                      IF auth[g] = "held" /\ rests[g] \cap E # {}
                        THEN "dead" ELSE auth[g]]
        /\ UNCHANGED <<rests, shut>>

Stop ==
    /\ shut' = TRUE
    /\ auth' = [g \in Grants |->
                  IF auth[g] \in {"none", "held"} THEN "dead" ELSE auth[g]]
    /\ UNCHANGED <<rests, present>>

AuthorityNext == Collect \/ Grant \/ Commit \/ Use \/ Revoke \/ Retire \/ Stop

AuthoritySpec == AuthorityInit /\ [][AuthorityNext]_authorityVars
=============================================================================
