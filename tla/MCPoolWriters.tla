--------------------------- MODULE MCPoolWriters ---------------------------
(***************************************************************************)
(* Instances of PoolWriters for TLC.                                       *)
(***************************************************************************)
EXTENDS PoolWriters, TLC

CONSTANTS c1, r1, r2, i1, alice, root, b1, w1

MCInstanceOf == [r \in Reqs |-> i1]
MCWhoOf      == [r \in Reqs |-> alice]
MCAdmins     == {root}
MCOwnerOf    == (c1 :> alice)
MCKindOf     == (c1 :> "imported")
MCAuthModes  == <<"imported">>
MCServes     == [r \in Reqs |-> Creds]

NewRow(max) ==
    [phase |-> "live", state |-> "active", cool |-> NoTime, leases |-> 0,
     max |-> max, vis |-> "enterprise_pool", age |-> 0]

\* One credential of the pool, with one lease or with two.
MCInitRow == (c1 :> NewRow(1))
MCTwoLeases == (c1 :> NewRow(2))
=============================================================================
