---------------------------- MODULE MCSelection ----------------------------
EXTENDS Selection

\* A server of both lists (b3 and w3), a second copy of one (b4), garbage.
Rows ==
    [b1 |-> [server |-> 1, country |-> "US", score |-> 2, place |-> 1],
     b3 |-> [server |-> 3, country |-> "DE", score |-> 1, place |-> 3],
     b4 |-> [server |-> 1, country |-> "US", score |-> 2, place |-> 4],
     w1 |-> [server |-> 4, country |-> "RU", score |-> 1, place |-> 5],
     w2 |-> [server |-> 5, country |-> "RU", score |-> 2, place |-> 6],
     w3 |-> [server |-> 3, country |-> "DE", score |-> 1, place |-> 7],
     w4 |-> [server |-> 6, country |-> "??", score |-> 1, place |-> 8],
     w5 |-> [server |-> 7, country |-> "RU", score |-> 3, place |-> 9]]

MCParsed == [blacklist |-> {"b1", "b3", "b4"},
             whitelist |-> {"w1", "w2", "w3", "w4", "w5"}]
MCServer == [c \in DOMAIN Rows |-> Rows[c].server]
MCCountry == [c \in DOMAIN Rows |-> Rows[c].country]
MCScore == [c \in DOMAIN Rows |-> Rows[c].score]
MCPlace == [c \in DOMAIN Rows |-> Rows[c].place]
MCCodes == <<"DE", "RU", "US">>

Small == [total |-> 4, perCountry |-> 2, mixBlack |-> 2, mixWhite |-> 2, ru |-> 80,
          minFast |-> 1, minStable |-> 1, share |-> 30, exempt |-> TRUE]

MCSettings ==
    {Small,
     [Small EXCEPT !.perCountry = 0, !.ru = 100, !.minFast = 0],
     [Small EXCEPT !.total = 3, !.perCountry = 1, !.minStable = 2, !.exempt = FALSE],
     [Small EXCEPT !.total = 0, !.ru = 50, !.minFast = 2]}
=============================================================================
