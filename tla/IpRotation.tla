------------------------------ MODULE IpRotation ------------------------------
(***************************************************************************)
(* ip_rotation.py: connect_with_rotation(), through which IQ_Option.connect*)
(* logs in, with a new address from WARP after a login that was refused for*)
(* its rate.  Every thread that reconnects runs it, and they share the time*)
(* of the last rotation, which is read before a rotation and written after *)
(* it, without a lock.  Without ENABLE_IP_ROTATION the login is called     *)
(* once, and that is all.                                                  *)
(***************************************************************************)
EXTENDS Naturals, FiniteSets

CONSTANTS
  Dialers,      \* threads that call connect()
  MaxLogins,    \* max_attempts
  Cooldown,     \* _MIN_ROTATION_COOLDOWN, in ticks
  MaxDialed     \* bound: calls of each thread

ASSUME RotationAssumption ==
  /\ IsFiniteSet(Dialers)
  /\ MaxLogins \in Nat \ {0} /\ Cooldown \in Nat \ {0} /\ MaxDialed \in Nat

VARIABLES
  enabled,       \* _WARP_ENABLED
  dial,          \* where each thread stands
  logins,        \* attempts of the call
  dialed,        \* bound
  sinceRotation, \* time.time() - _last_rotation_time, up to Cooldown
  rotations      \* history: rotations that ended less than Cooldown before the
                 \* last one, and that one

rotationVars == <<enabled, dial, logins, dialed, sinceRotation, rotations>>

RotationInit ==
  /\ enabled \in BOOLEAN
  /\ dial = [t \in Dialers |-> "idle"]
  /\ logins = [t \in Dialers |-> 0]
  /\ dialed = [t \in Dialers |-> 0]
  /\ sinceRotation = Cooldown
  /\ rotations = 0

-----------------------------------------------------------------------------
Dials(t, from, to) == dial[t] = from /\ dial' = [dial EXCEPT ![t] = to]

CallsConnect(t) ==
  /\ Dials(t, "idle", "dialing")
  /\ dialed[t] < MaxDialed
  /\ dialed' = [dialed EXCEPT ![t] = @ + 1]
  /\ logins' = [logins EXCEPT ![t] = 0]
  /\ UNCHANGED <<enabled, sinceRotation, rotations>>

\* The login succeeds, or fails for a reason that a rotation does not help with.
LoginEnds(t) ==
  /\ Dials(t, "dialing", "idle")
  /\ UNCHANGED <<enabled, logins, dialed, sinceRotation, rotations>>

LoginLimited(t) ==
  /\ Dials(t, "dialing", IF enabled THEN "limited" ELSE "idle")
  /\ logins' = [logins EXCEPT ![t] = @ + 1]
  /\ UNCHANGED <<enabled, dialed, sinceRotation, rotations>>

\* rotate_ip_warp(): the cooldown, and whether there is a WARP client.
RotationBegins(t) ==
  /\ Dials(t, "limited", "rotating")
  /\ sinceRotation >= Cooldown
  /\ UNCHANGED <<enabled, logins, dialed, sinceRotation, rotations>>

RotationRefused(t) ==
  /\ Dials(t, "limited", "resting")
  /\ UNCHANGED <<enabled, logins, dialed, sinceRotation, rotations>>

\* The next attempt, or the end: the last one is followed by a rotation or a rest
\* as well.
Onward(t) == IF logins[t] < MaxLogins THEN "dialing" ELSE "idle"

Counted == rotations' = IF sinceRotation < Cooldown THEN rotations + 1 ELSE 1

RotationEndsIfNew(t) ==   \* variant: the time is kept only if the address has changed
  \/ /\ Dials(t, "rotating", Onward(t))
     /\ sinceRotation' = 0 /\ Counted
     /\ UNCHANGED <<enabled, logins, dialed>>
  \/ /\ Dials(t, "rotating", "resting")
     /\ rotations' = rotations + 1
     /\ UNCHANGED <<enabled, logins, dialed, sinceRotation>>

\* With another address the login is tried again at once; with the same one it
\* waits, as after a rotation that was refused.
RotationEnds(t) ==
  /\ Dials(t, "rotating", Onward(t)) \/ Dials(t, "rotating", "resting")
  /\ sinceRotation' = 0
  /\ Counted
  /\ UNCHANGED <<enabled, logins, dialed>>

\* warp-cli times out or raises: nothing is kept of this rotation.
RotationRaises(t) ==
  /\ Dials(t, "rotating", "resting")
  /\ UNCHANGED <<enabled, logins, dialed, sinceRotation, rotations>>

\* The sleep of 60 s, to be waited for after the last attempt, too.
RestEnds(t) ==
  /\ Dials(t, "resting", Onward(t))
  /\ UNCHANGED <<enabled, logins, dialed, sinceRotation, rotations>>

RotationClock ==
  /\ sinceRotation < Cooldown
  /\ sinceRotation' = sinceRotation + 1
  /\ UNCHANGED <<enabled, dial, logins, dialed, rotations>>

Dialing(t) ==
  \/ LoginEnds(t) \/ LoginLimited(t)
  \/ RotationBegins(t) \/ RotationRefused(t) \/ RotationEnds(t) \/ RotationRaises(t)
  \/ RestEnds(t)

RotationNext ==
  \/ \E t \in Dialers : CallsConnect(t) \/ Dialing(t)
  \/ RotationClock

RotationSpec == RotationInit /\ [][RotationNext]_rotationVars

-----------------------------------------------------------------------------
RotationTypeOK ==
  /\ enabled \in BOOLEAN
  /\ dial \in [Dialers -> {"idle", "dialing", "limited", "rotating", "resting"}]
  /\ logins \in [Dialers -> 0 .. MaxLogins]
  /\ dialed \in [Dialers -> 0 .. MaxDialed]
  /\ sinceRotation \in 0 .. Cooldown
  /\ rotations \in Nat

\* The cooldown is checked before a rotation and begins after it, so that threads
\* that reconnect together may rotate together; but no more than one rotation of
\* each falls into a chain of rotations that are less than the cooldown apart.
RotationsBounded == rotations <= Cardinality(Dialers)
=============================================================================
