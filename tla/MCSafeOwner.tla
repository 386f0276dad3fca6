------------------------------ MODULE MCSafeOwner ------------------------------
(* The owner command with two deferred actions and one contract to accept.    *)
EXTENDS SafeOwner
================================================================================
