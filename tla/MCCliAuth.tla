----------------------------- MODULE MCCliAuth -----------------------------
(***************************************************************************)
(* Instances of CliAuth for TLC: two processes, one login, two codes.  A   *)
(* login and a bootstrap token live for one tick of the clock, a code for  *)
(* three, sessions and client tokens outlive the run.                      *)
(***************************************************************************)
EXTENDS CliAuth, TLC

CONSTANTS p1, p2, k1, k2, l1, h1, b1, s1, s2, a1

MCKindOf == (h1 :> "human_session") @@ (b1 :> "bootstrap_install")
         @@ (s1 :> "cli_session") @@ (s2 :> "cli_session")
         @@ (a1 :> "client_access")

MCTokenTtl ==
    [k \in Kinds \ {"human_session"} |->
        IF k = "bootstrap_install" THEN 1 ELSE MaxTime + 1]

\* What one run may use together: two codes and a session; a code, two
\* sessions and a client token; a bootstrap token and two sessions.
MCSupplies == {{k1, k2, s1}, {k1, k2, s2}, {k1, s1, s2, a1}, {h1, b1, s1, s2}}

Twins == Permutations(Procs) \cup Permutations({s1, s2})
=============================================================================
