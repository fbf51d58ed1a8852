------------------------------- MODULE HttpsGet -------------------------------
(***************************************************************************)
(* What HttpsClient::httpsGet promises its caller: the completion routine  *)
(* is called at most once, with an error or with a page, and in the end it *)
(* is called.  It may be called before httpsGet returns, when no site      *)
(* could be tried at all.                                                  *)
(***************************************************************************)
VARIABLES
    status,           \* "idle", "busy" or "done"
    outcome           \* what the completion routine was called with

getVars == <<status, outcome>>

GetTypeOK ==
    /\ status \in {"idle", "busy", "done"}
    /\ outcome \in {"none", "page", "error"}

GetInit == status = "idle" /\ outcome = "none"

\* The caller asks for a page.
Get ==
    /\ status = "idle"
    /\ status' = "busy"
    /\ outcome' = outcome

\* No site could be tried: the caller is told before httpsGet returns.
GetFails ==
    /\ status = "idle"
    /\ status' = "done"
    /\ outcome' = "error"

\* The one call of the completion routine.
Complete ==
    /\ status = "busy"
    /\ status' = "done"
    /\ outcome' \in {"page", "error"}

GetNext == Get \/ GetFails \/ Complete

GetSafety == GetInit /\ [][GetNext]_getVars

GetLive == WF_getVars(Complete)

GetSpec == GetSafety /\ GetLive
===============================================================================
