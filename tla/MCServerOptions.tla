---------------------------- MODULE MCServerOptions ----------------------------
EXTENDS ServerOptions

Size(r, n) == [resource |-> r, size |-> n, wellFormed |-> TRUE]
Malformed == [resource |-> "pods", size |-> 1, wellFormed |-> FALSE]

\* For every flag the values that the code tells apart; a flag that is not given
\* has its default.
MCValues ==
    [signingKey |-> {"sa", "bad"},
     keyFiles |-> {<<"sa">>, <<"other">>, <<"other", "sa">>, <<"bad">>},
     issuers |-> {<<"i">>, <<"">>, <<"i", "j">>, <<"i", "i">>, <<"bad">>},
     audiences |-> {<<"a">>},
     maxExpiration |-> {LowBound - 1, LowBound, UpBound, UpBound + 1},
     jwksURI |-> {"https", "http"},
     oidcIssuer |-> {TRUE},
     anonymous |-> {FALSE},
     clientCA |-> {"ca", "bad"},
     clientKey |-> {"caKey", "bad"},
     modes |-> {<<>>, <<"RBAC">>, <<"RBAC", "AlwaysAllow">>, <<"ABAC">>, <<"Webhook">>,
                <<"RBAC", "RBAC">>, <<"Unknown">>},
     policyFile |-> {"policy", "bad"},
     webhookFile |-> {"webhook"},
     tlsKey |-> {"tls", "bad"},
     certDir |-> {FALSE},
     ranges |-> {<<"v4">>, <<"v4", "v6", "v6">>, <<"bad">>, <<"tiny">>, <<"v4", "bad">>},
     watchCache |-> {FALSE},
     cacheSizes |-> {<<Size("pods", 2), Size("pods", 3)>>, <<Size("pods", -1)>>, <<Malformed>>},
     fairness |-> {FALSE},
     inFlight |-> {0},
     embedded |-> {TRUE},
     peerPort |-> {FALSE}]

MCDefaultSizes == [pods |-> 1, secrets |-> 0]
===============================================================================
