-------------------------- MODULE MCLeaseLifecycle --------------------------
(***************************************************************************)
(* Instances of LeaseLifecycle for TLC.  Two credentials of different auth *)
(* kinds, two router instances, requests of the owner and of an admin.     *)
(***************************************************************************)
EXTENDS LeaseLifecycle, TLC

CONSTANTS c1, c2, r1, r2, r3, i1, i2, alice, root

MCInstanceOf == [r \in Reqs |-> IF r = r2 THEN i2 ELSE i1]
MCWhoOf      == [r \in Reqs |-> IF r = r2 THEN root ELSE alice]
MCAdmins     == {root}
MCOwnerOf    == (c1 :> alice) @@ (c2 :> root)
MCKindOf     == (c1 :> "imported") @@ (c2 :> "api_key")
MCAuthModes  == <<"imported", "api_key">>
MCServes     == [r \in Reqs |-> Creds]

NewRow(max, vis) ==
    [phase |-> "live", state |-> "active", cool |-> NoTime, leases |-> 0,
     max |-> max, vis |-> vis, age |-> 0]

\* One lease on the owner's shared credential; the other, of the enterprise
\* pool, is created while requests run.
MCInitRow ==
    (c1 :> NewRow(1, "shared_opt_in"))
 @@ (c2 :> [NewRow(2, "enterprise_pool") EXCEPT !.phase = "unborn"])

\* A single credential of the pool, with one lease or with two.
MCOneSlot == (c1 :> NewRow(1, "enterprise_pool"))
MCTwoLeases == (c1 :> NewRow(2, "enterprise_pool"))
=============================================================================
