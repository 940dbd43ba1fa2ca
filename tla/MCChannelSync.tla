--------------------------- MODULE MCChannelSync ---------------------------
(***************************************************************************)
(* Instances of ChannelSync for TLC: two credentials with one channel name *)
(* and one with a name of its own.                                         *)
(***************************************************************************)
EXTENDS ChannelSync, TLC

CONSTANTS c1, c2, c3, i1, i2

\* c1 and c2 are of one owner and account, as two imports of Codex are.
MCNameOf == [c \in Creds |-> IF c = c3 THEN "other" ELSE "twice"]

Twins == Permutations(Instances) \cup Permutations(Creds \ {c3})
=============================================================================
