------------------------------ MODULE MCConsole ------------------------------
(* A small instance of the pages of the web console. *)
EXTENDS Console

CONSTANTS m1, m2, k1, k2, a1, a2, i1, i2

MCGroupOf == [m \in Models |-> IF m = m1 THEN "g1" ELSE "g2"]

MCServed == {Fallback, <<"o1", "claude">>, <<"o1", "o2">>, <<>>}

MCMatches == [text \in {"x"} |-> {"o2", "claude"}]

MCModel(i, p, a, src) == [id |-> i, provider |-> p, alias |-> a, source |-> src]

MCOffers == LET system == MCModel("x1", "openai", "", "catalog")
                bought == MCModel("x1", "openai", "", "byok")
                named  == MCModel("x2", "openai_compat", "openai", "compat")
                other  == MCModel("x2", "openai_compat", "acme", "compat")
            IN {{system, bought, named}, {system, other}, {bought}, {}}
=============================================================================
