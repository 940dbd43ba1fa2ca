-------------------------- MODULE QueryCacheProofs --------------------------
(***************************************************************************)
(* What the rules of the query cache do to an entry, for any set D of      *)
(* answers: cited by the proofs about the pages of the console.            *)
(***************************************************************************)
EXTENDS QueryCache, TLAPS

\* An entry that was never fetched.
LEMMA AbsentEntry ==
    ASSUME NEW D
    PROVE  /\ Absent \in Entry(D) /\ Absent.data = NoData /\ Absent.fetch = "idle"
           /\ ~Absent.failed
BY DEF Absent, Entry

\* A new fetch keeps the data, and nothing of the fetch before.
LEMMA SentEntry ==
    ASSUME NEW D, NEW q \in Entry(D)
    PROVE  Sent(q) \in Entry(D) /\ Sent(q).data = q.data /\ Sent(q).fetch = "sent"
BY DEF Entry, Sent

\* A component that appears joins a fetch or begins one.
LEMMA MountedEntry ==
    ASSUME NEW D, NEW q \in Entry(D)
    PROVE  /\ Mounted(q) \in Entry(D) /\ Mounted(q).data = q.data
           /\ \/ q.fetch = "idle" /\ Mounted(q).fetch = "sent"
              \/ q.fetch # "idle" /\ Mounted(q) = q
BY SentEntry DEF Mounted

\* An invalidation begins a fetch, unless it meets the first one.
LEMMA InvalidatedEntry ==
    ASSUME NEW D, NEW q \in Entry(D)
    PROVE  /\ Invalidated(q) \in Entry(D) /\ Invalidated(q).data = q.data
           /\ \/ ~Loading(q) /\ Invalidated(q).fetch = "sent"
              \/ Loading(q) /\ Invalidated(q) = q
BY SentEntry DEF Invalidated, Loading

\* An edit of the data by a handler.
LEMMA WithDataEntry ==
    ASSUME NEW D, NEW q \in Entry(D), NEW d \in D
    PROVE  /\ WithData(q, d) \in Entry(D) /\ WithData(q, d).data = d
           /\ ~WithData(q, d).failed
           /\ WithData(q, d).fetch = q.fetch /\ WithData(q, d).answer = q.answer
BY DEF Entry, WithData

\* A step of a fetch from a server that would answer d.
LEMMA FetchedEntry ==
    ASSUME NEW D, NEW q \in Entry(D), NEW d \in D, NEW p \in Fetched(q, d)
    PROVE  /\ p \in Entry(D)
           /\ \/ /\ q.fetch = "sent" /\ p.fetch = "answered" /\ p.answer = d
                 /\ p.data = q.data /\ p.failed = q.failed
              \/ /\ q.fetch = "sent" /\ p.fetch = "refused"
                 /\ p.data = q.data /\ p.failed = q.failed
              \/ /\ q.fetch = "answered" /\ p.fetch = "idle"
                 /\ p.data = q.answer /\ ~p.failed
              \/ /\ q.fetch = "refused" /\ p.fetch = "idle"
                 /\ p.data = q.data /\ p.failed
<1>1. q.fetch \in {"idle", "sent", "answered", "refused"}
    BY DEF Entry
<1>2. CASE q.fetch = "idle"
    BY <1>2 DEF Fetched
<1>3. CASE q.fetch = "sent"
    <2>1. p \in {[q EXCEPT !.fetch = "answered", !.answer = d], [q EXCEPT !.fetch = "refused"]}
        BY <1>3 DEF Fetched
    <2> QED BY <1>3, <2>1 DEF Entry
<1>4. CASE q.fetch = "answered"
    <2>1. p = [Absent EXCEPT !.data = q.answer]
        BY <1>4 DEF Fetched
    <2> QED BY <1>4, <2>1 DEF Entry, Absent
<1>5. CASE q.fetch = "refused"
    <2>1. p = [q EXCEPT !.fetch = "idle", !.failed = TRUE]
        BY <1>5 DEF Fetched
    <2> QED BY <1>5, <2>1 DEF Entry
<1> QED BY <1>1, <1>2, <1>3, <1>4, <1>5
=============================================================================
