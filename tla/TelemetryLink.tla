---------------------------- MODULE TelemetryLink ----------------------------
(***************************************************************************)
(* What the telemetry connection promises to the rest of the program: it   *)
(* is dialled once, it may come up, while it is up newer and newer frames  *)
(* are stored, and once it is lost it stays lost.  Module StellaClient     *)
(* implements this specification; module WidgetControl relies on it (its   *)
(* variable link).                                                         *)
(***************************************************************************)
EXTENDS Naturals

CONSTANT MaxFrames   \* bound: the frames the server sends

VARIABLES phase,     \* "idle", "dialing", "up" or "down"
          newest     \* number of the newest frame stored, 0 = none

linkVars == <<phase, newest>>

LinkInit == phase = "idle" /\ newest = 0

Dial == phase = "idle" /\ phase' = "dialing" /\ UNCHANGED newest

ComeUp == phase = "dialing" /\ phase' = "up" /\ UNCHANGED newest

(* The last frame may be stored while the connection goes down.            *)
Store ==
  /\ phase = "up"
  /\ newest' \in (newest + 1)..MaxFrames
  /\ phase' \in {"up", "down"}

GoDown == phase = "up" /\ phase' = "down" /\ UNCHANGED newest

LinkNext == Dial \/ ComeUp \/ Store \/ GoDown

LinkSpec == LinkInit /\ [][LinkNext]_linkVars
=============================================================================
