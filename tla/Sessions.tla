------------------------------ MODULE Sessions ------------------------------
(***************************************************************************)
(* Table sessions (src/src/db/sessions.rs).  Expiry is compared by SQL, as *)
(* RFC 3339 text; codes and tokens are compared as instants (Store).       *)
(*                                                                         *)
(* An instant counts ticks, the last digit of a fraction of a second.      *)
(* Dates have a fixed width and sort by the second, but to_rfc3339 writes  *)
(* no trailing zeros: "...:07Z", "...:07.25Z".  The letter Z sorts after   *)
(* every digit and after the point, so within a second the text order is   *)
(* not the order of time.                                                  *)
(***************************************************************************)
EXTENDS Store

CONSTANTS
  Radix,     \* of the digits: ten
  Precision  \* digits of the fraction of a second: nine

ASSUME PrecisionAssumption == Radix \in Nat \ {0, 1} /\ Precision \in Nat

TicksPerSecond == Radix ^ Precision

\* A power of a positive number is positive: the provers do not evaluate powers.
ASSUME TicksAssumption == TicksPerSecond \in Nat \ {0}

Second(t) == t \div TicksPerSecond

\* Character i of the fraction: its digit, or Z (Radix) once only zeros are left.
Char(t, i) ==
  IF t % Radix ^ (Precision - i + 1) = 0 THEN Radix
  ELSE (t \div Radix ^ (Precision - i)) % Radix

\* SQL: the text of t > the text of u.
SortsAfter(t, u) ==
  \/ Second(t) > Second(u)
  \/ /\ Second(t) = Second(u)
     /\ \E i \in 1 .. Precision :
          /\ Char(t, i) > Char(u, i)
          /\ \A j \in 1 .. i - 1 : Char(t, j) = Char(u, j)

-----------------------------------------------------------------------------
(* Statements *)

UpsertSession(sessions, id, data, expires) ==
  Put(sessions, id, [data |-> data, expires_at |-> expires])

\* MUTANT: the expiry is not looked at.
LiveForever(sessions, id, now) == id \in DOMAIN sessions

\* An expired row is a missing row to every reader.
LiveSession(sessions, id, now) ==
  id \in DOMAIN sessions /\ SortsAfter(sessions[id].expires_at, now)

DeleteSession(sessions, id) == Restrict(sessions, DOMAIN sessions \ {id})

\* MUTANT: the sweep is a second ahead of the clock.
CleanupTooEager(sessions, now) ==
  Restrict(sessions,
    {id \in DOMAIN sessions : LiveSession(sessions, id, now + TicksPerSecond)})

\* MUTANT: the comparison the wrong way round.
CleanupLive(sessions, now) ==
  Restrict(sessions, {id \in DOMAIN sessions : ~LiveSession(sessions, id, now)})

CleanupExpiredSessions(sessions, now) ==
  Restrict(sessions, {id \in DOMAIN sessions : LiveSession(sessions, id, now)})
=============================================================================
