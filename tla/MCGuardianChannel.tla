-------------------------- MODULE MCGuardianChannel --------------------------
(* The instance of MCGuardianChannel.cfg: two callers, two event waiters.      *)
EXTENDS GuardianChannel, TLC
=============================================================================
