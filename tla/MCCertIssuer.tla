----------------------------- MODULE MCCertIssuer -----------------------------
(***************************************************************************)
(* CertIssuer on a small instance: a base domain of one label, two good    *)
(* service names (one also written in capitals), one that serviceNameRE    *)
(* rejects, and hosts of every kind publicHandler tells apart.             *)
(***************************************************************************)
EXTENDS CertIssuer

MCLabel == {"", "www", "base", "foo", "FOO", "api", "a_b", "org"}
MCLower == [l \in MCLabel |-> IF l = "FOO" THEN "foo" ELSE l]
MCWellFormed == {"www", "base", "foo", "api", "org"}
MCBase == <<"base">>

MCName == {<<"foo">>, <<"FOO">>, <<"a_b">>}

MCHost == {<<"base">>, <<"base", "">>, <<"www", "base">>, <<"foo", "base">>,
           <<"FOO", "base", "">>, <<"api", "foo", "base">>, <<"a_b", "base">>,
           <<"foo", "", "base">>, <<"foo", "org">>, <<"">>}
===============================================================================
