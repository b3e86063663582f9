---------------------------- MODULE MCProbeStage ----------------------------
(* The calls TLC considers: each validator, with and without a limit. *)
EXTENDS ProbeStage

CONSTANTS c1, c2, c3

OneCall(kind, attempts, required, proxies, viaProxies, cap, slots, timed) ==
    [kind |-> kind, attempts |-> attempts, required |-> required,
     proxies |-> proxies, viaProxies |-> viaProxies, cap |-> cap,
     slots |-> slots, timed |-> timed]

Calls ==
    {OneCall("tcp", 2, 1, 0, 0, 1, 2, FALSE),
     OneCall("tcp", 1, 1, 0, 0, 2, 3, FALSE),
     OneCall("tls", 2, 1, 0, 0, 0, 1, FALSE),
     OneCall("xray", 3, 2, 0, 0, 1, 2, TRUE),
     OneCall("xray", 1, 1, 2, 1, 2, 3, FALSE),
     OneCall("singbox", 2, 2, 0, 0, 0, 2, TRUE)}
=============================================================================
