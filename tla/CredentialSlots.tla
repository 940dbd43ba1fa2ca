--------------------------- MODULE CredentialSlots ---------------------------
(***************************************************************************)
(* What the credential pool promises: a credential has Max slots.  A       *)
(* request takes a free one and occupies it until it gives it back; the    *)
(* slot of a request that dies is lost, and lost slots come back only      *)
(* while no request occupies a slot of that credential.                    *)
(***************************************************************************)
EXTENDS Integers

CONSTANTS Creds, Reqs,
          Max    \* [Creds -> Nat]

VARIABLES held,  \* [Creds -> SUBSET Reqs]: who occupies a slot
          free   \* [Creds -> Nat]: slots to be taken

svars == <<held, free>>

Acquire(r, c) ==
    /\ \A d \in Creds : r \notin held[d]
    /\ free[c] > 0
    /\ held' = [held EXCEPT ![c] = @ \cup {r}]
    /\ free' = [free EXCEPT ![c] = @ - 1]

Release(r, c) ==
    /\ r \in held[c]
    /\ held' = [held EXCEPT ![c] = @ \ {r}]
    /\ free' = [free EXCEPT ![c] = @ + 1]

\* The requests in S die and leave their slots behind.
Lose(S) ==
    /\ held' = [c \in Creds |-> held[c] \ S]
    /\ UNCHANGED free

\* A slot is lost before its request learns that it has it.
Leak(c) ==
    /\ free[c] > 0
    /\ free' = [free EXCEPT ![c] = @ - 1]
    /\ UNCHANGED held

Heal(C) ==
    /\ \A c \in C : held[c] = {}
    /\ free' = [c \in Creds |-> IF c \in C THEN Max[c] ELSE free[c]]
    /\ UNCHANGED held

SlotsInit ==
    /\ held = [c \in Creds |-> {}]
    /\ free = Max

SlotsNext ==
    \/ \E r \in Reqs, c \in Creds : Acquire(r, c) \/ Release(r, c)
    \/ \E S \in SUBSET Reqs : Lose(S)
    \/ \E c \in Creds : Leak(c)
    \/ \E C \in SUBSET Creds : Heal(C)

SlotsSpec == SlotsInit /\ [][SlotsNext]_svars
=============================================================================
