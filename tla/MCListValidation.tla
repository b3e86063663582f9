-------------------------- MODULE MCListValidation --------------------------
(* The lists and configurations TLC considers. *)
EXTENDS ListValidation

CONSTANTS c1, c2, c3, c4, c5

\* Two lists; c1 and c4 are the same server.
TwoLists == <<{c1, c2, c3}, {c4, c5}>>
SameServer == [c \in {c1, c2, c3, c4, c5} |-> IF c = c4 THEN c1 ELSE c]

\* c3 does not use TLS, c5 is a QUIC server.
SomeQuic == [c \in {c1, c2, c3, c4, c5} |->
               CASE c = c3 -> {"tcp", "xray"}
                 [] c = c5 -> {"singbox"}
                 [] OTHER  -> {"tcp", "tls", "xray"}]

\* The settings file of the repository, with small limits.
Base == [tcp |-> TRUE, tls |-> TRUE, xray |-> TRUE, noPool |-> FALSE,
         xrayThere |-> TRUE, xrayRequired |-> TRUE, singboxThere |-> TRUE,
         failOpen |-> FALSE, dropUnchecked |-> FALSE, dropUnsupported |-> TRUE,
         ttl |-> TRUE, tcpLimit |-> 0, tcpRounds |-> 3, tlsLimit |-> 0,
         xrayLimit |-> 0, tcpAlive |-> 0, maxAlive |-> 2, banMin |-> 1,
         minAlive |-> 1]

Configurations ==
    {Base,
     [Base EXCEPT !.tcpLimit = 1, !.tcpRounds = 2, !.tcpAlive = 1, !.tls = FALSE,
                  !.xrayRequired = FALSE, !.xrayThere = FALSE],
     [Base EXCEPT !.tlsLimit = 1, !.xrayLimit = 1, !.dropUnsupported = FALSE,
                  !.singboxThere = FALSE, !.ttl = FALSE],
     [Base EXCEPT !.failOpen = TRUE, !.minAlive = 2, !.maxAlive = 1],
     [Base EXCEPT !.failOpen = TRUE, !.minAlive = 2, !.xray = FALSE],
     [Base EXCEPT !.tcp = FALSE, !.xray = FALSE, !.failOpen = TRUE,
                  !.dropUnchecked = TRUE],
     [Base EXCEPT !.tcp = FALSE, !.tls = FALSE, !.maxAlive = 0],
     [Base EXCEPT !.xray = FALSE, !.noPool = TRUE],
     [Base EXCEPT !.xrayThere = FALSE],
     [Base EXCEPT !.tcp = FALSE, !.tls = FALSE, !.xray = FALSE]}
=============================================================================
