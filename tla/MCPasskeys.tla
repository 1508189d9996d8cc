----------------------------- MODULE MCPasskeys -----------------------------
(* Small instance of Passkeys for TLC. *)
EXTENDS Passkeys

\* The server with no failing statement and no client that goes away, restarts aside.
FaultFreeSpec == Init /\ [][Operate \/ Elsewhere \/ Restart]_vars
=============================================================================
