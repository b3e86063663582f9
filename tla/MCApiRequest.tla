---------------------------- MODULE MCApiRequest ----------------------------
(* A job of every kind with the attempts the code gives it, and a direct     *)
(* download with a single one.                                               *)
EXTENDS ApiRequest

CONSTANTS s1, s2

OneJob(kind, attempts) == [kind |-> kind, attempts |-> attempts]

EveryJob ==
    {OneJob("listing", 3), OneJob("file", 3), OneJob("raw", 3), OneJob("direct", 1),
     OneJob("direct", 2), OneJob("llm", 3), OneJob("message", 2)}
=============================================================================
