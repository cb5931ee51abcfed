---------------------------- MODULE MCProvision ----------------------------
(* A small instance of Provision for TLC. *)
EXTENDS Provision

Answers(auth, nodes, allowed, valid, texts) ==
    [auth |-> auth, nodes |-> nodes, issue |-> nodes # <<>>, valid |-> valid,
     allowed |-> [p \in Profile |-> allowed], env |-> texts, unit |-> texts]

\* mTLS for both nodes; JWT for one node, and for two of which no profile
\* allows the second; and a subject name that does not parse.
MCServerSpecs ==
    {Answers("mtls", <<"n1", "n2">>, {"n1", "n2"}, TRUE, FALSE),
     Answers("jwt", <<"n1">>, {"n1"}, TRUE, FALSE),
     Answers("jwt", <<"n1", "n2">>, {"n1"}, TRUE, TRUE),
     Answers("mtls", <<"n1">>, {"n1"}, FALSE, FALSE)}
=============================================================================
