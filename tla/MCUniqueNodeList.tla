--------------------------- MODULE MCUniqueNodeList ---------------------------
(* UniqueNodeList for TLC: two domains, one of which a list may name, a     *)
(* file f1 that refers to both and has both urls, and others that have      *)
(* neither.                                                                 *)
EXTENDS UniqueNodeList

CONSTANTS d1, d2, f1, f2

MCRefers == [f \in Files |-> IF f = f1 THEN Domains ELSE {}]

MCUrls == [f \in Files |-> IF f = f1 THEN {"validators", "ips"} ELSE {}]
===============================================================================
