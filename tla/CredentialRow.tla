--------------------------- MODULE CredentialRow ---------------------------
(***************************************************************************)
(* One row of the table provider_credentials, and what each statement of   *)
(* the credential repository does to it.  No state: the modules that have  *)
(* a table of rows extend this one.                                        *)
(*                                                                         *)
(* Time is relative.  `cool' is how long the cooldown still lasts: NoTime  *)
(* for cooldown_until = NULL, 0 for a cooldown_until that has passed.      *)
(* `age' is the time since updated_at; it is not counted beyond LeaseTtl,  *)
(* the only value the code compares it with.                               *)
(***************************************************************************)
EXTENDS Integers

CONSTANTS
    CooldownTicks,  \* the 300 seconds a rate-limited credential rests
    LeaseTtl        \* credential_lease_ttl_seconds

ASSUME TicksAssumption == CooldownTicks \in Nat \ {0} /\ LeaseTtl \in Nat \ {0}

NoTime == -1

CredentialState == {"active", "cooldown", "rate_limited", "disabled"}
CredentialVisibility == {"private", "enterprise_pool", "shared_opt_in"}

\* A credential id is generated once: a deleted row never comes back.
Phase == {"unborn", "live", "gone"}

Row == [phase  : Phase,
        state  : CredentialState,
        cool   : 0 .. CooldownTicks \cup {NoTime},
        leases : Nat,
        max    : Nat \ {0},
        vis    : CredentialVisibility,
        age    : 0 .. LeaseTtl]

-----------------------------------------------------------------------------
\* The WHERE clause of `select'.

Selectable(c) ==
    \/ c.state = "active" /\ c.cool \in {NoTime, 0}
    \/ c.state \in {"cooldown", "rate_limited"} /\ c.cool = 0

Accessible(c, isOwner, isAdmin) ==
    \/ c.vis = "enterprise_pool"
    \/ isOwner
    \/ c.vis = "shared_opt_in" /\ isAdmin

HasFreeLease(c) == c.leases < c.max

-----------------------------------------------------------------------------
\* The updates.  Every one of them stores updated_at = now.

\* Mutant: the decrement is not clamped.
LessOneUnclamped(n) == n - 1

LessOne(n) == IF n = 0 THEN 0 ELSE n - 1

TakeLease(c) ==
    [c EXCEPT !.state = "active", !.cool = NoTime, !.leases = @ + 1, !.age = 0]

ReleaseLease(c) == [c EXCEPT !.leases = LessOne(@), !.age = 0]

CoolDown(c) ==
    [c EXCEPT !.state = "cooldown", !.cool = CooldownTicks,
              !.leases = LessOne(@), !.age = 0]

Disable(c) ==
    [c EXCEPT !.state = "disabled", !.cool = NoTime,
              !.leases = LessOne(@), !.age = 0]

ResetLeases(c) == [c EXCEPT !.leases = 0, !.age = 0]

SetVisible(c, v) == [c EXCEPT !.vis = v, !.age = 0]

\* Mutant: the sweep does not look at updated_at.
StaleAnyAge(c) == c.phase = "live" /\ c.leases > 0

\* Mutant: only saturated rows are swept.
StaleSaturated(c) == c.phase = "live" /\ c.leases = c.max /\ c.age = LeaseTtl

\* What reset_stale_leases looks for.
Stale(c) == c.phase = "live" /\ c.leases > 0 /\ c.age = LeaseTtl

\* One tick of the clock.
Older(c) ==
    [c EXCEPT !.age  = IF @ < LeaseTtl THEN @ + 1 ELSE @,
              !.cool = IF @ > 0 THEN @ - 1 ELSE @]

=============================================================================
