------------------------------ MODULE MCServer ------------------------------
(* The environment sets one variable, .env the workers, twice. *)
EXTENDS Server

CONSTANTS e1, e2, h1

Texts(key) ==
    IF key = "WEBHOOK_WORKERS" THEN {Unset, Empty, Bad, -1, 0, 1}
    ELSE IF key = "WEBHOOK_MAX_ATTEMPTS" THEN {Bad, 0}
    ELSE IF key = "WEBHOOK_CB_OPEN_DURATION" THEN {Bad, 0, 30}
    ELSE IF key = "WEBHOOK_TIMEOUT" THEN {Bad, -1, 10} ELSE {Bad, -8, 0, 8}

MCEnvirons == UNION {{[NoEnviron EXCEPT ![key] = text] : text \in Texts(key)} : key \in Keys}
Line(key, value) == [key |-> key, value |-> value]
MCDotEnvs ==
    {<<>>} \cup
    {<<Line("WEBHOOK_WORKERS", v), Line("WEBHOOK_WORKERS", 1)>> : v \in {Empty, Bad, 0}}
=============================================================================
