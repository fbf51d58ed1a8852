------------------------------- MODULE MCScoring -------------------------------
(* Scoring for TLC: a file of d1 that names k2 and d2 and has both urls, a   *)
(* later file of d1 with another key, a file of d2 that names k1 after a bad *)
(* entry and a domain, a list of validators with an entry too many and a     *)
(* node that no file names, and at the ips_url the addresses of the file,    *)
(* which keeps the run small: the files of k2 replace addresses by others.   *)
EXTENDS Scoring

CONSTANTS k1, k2, k3, d1, d2, i1, i2

MCFiles ==
    {[domain |-> d1, key |-> k1, validators |-> <<k2, d2>>, ips |-> <<i1, i2>>,
      urls |-> {"validators", "ips"}],
     [domain |-> d1, key |-> k2, validators |-> <<>>, ips |-> <<>>, urls |-> {}],
     [domain |-> d2, key |-> k2, validators |-> <<NULL, d1, k1>>, ips |-> <<i1>>, urls |-> {}]}

MCValidatorLists == {<<k3, k2, k1>>}

MCIpLists == {<<i1, i2>>}
===============================================================================
