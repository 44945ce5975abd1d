------------------------------- MODULE MCUpdate -------------------------------
(***************************************************************************)
(* UpdateTransaction for TLC: two versions, one session handle, and in the *)
(* configurations the faults and the administrator's requests of each run. *)
(***************************************************************************)
EXTENDS UpdateTransaction

Crashes == {"service_crash", "helper_crash", "operator_stop", "service_start"}

AnyFault == Crashes \cup {"helper_start", "coordinator", "action", "journal", "cleanup", "contradiction"}

\* Without the stops of the service that lose a hand-over, and without outsiders.
Interruptions == AnyFault \ {"service_crash", "operator_stop", "contradiction"}

AnyRequest == {"prepare_update", "commit_update", "abort_update", "prepare_uninstall"}

=============================================================================
