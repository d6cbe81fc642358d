----------------------------- MODULE WebSessions -----------------------------
(* The sessions of the key and seal API, which its records in Valkey and   *)
(* in the journal are named after.                                         *)

CONSTANTS
  Sessions,    \* sessions that may be created
  None         \* no record, no key
=============================================================================
