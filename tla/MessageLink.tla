----------------------------- MODULE MessageLink -----------------------------
(***************************************************************************)
(* What the archives promise to the rest of the program: telemetry and     *)
(* orders travel as messages.  One that a text can carry is delivered as   *)
(* it is, or is found to be broken and ends the session, which may still   *)
(* deliver one message; an order that is heard is the one that was in      *)
(* force when it was sent.  Module Archive implements this specification;  *)
(* module StellaClient relies on it (its kinds of frames), and so do       *)
(* WidgetControl and DeskTiming (their wire).                              *)
(***************************************************************************)
EXTENDS Sequences

CONSTANTS
  Messages,   \* external: what the server may send
  Legible,    \* the messages whose numbers are all finite
  Kept,       \* the messages that are stored
  Unread,     \* what the client holds before the first of them
  Orders,     \* what the desk may order
  None        \* no order

VARIABLES
  line,       \* what is on its way to the desk: "free", "whole" or "broken"
  message,    \* external: the message it was
  session,    \* "open", "closing" or "closed"
  stored,     \* what the client holds
  given,      \* the order in force
  air,        \* the order on its way to the vehicle, <<>> = none
  obeyed      \* external: the last order the vehicle heard

linkVars == <<line, message, session, stored, given, air, obeyed>>

LinkInit ==
  /\ line = "free" /\ message = Unread /\ session = "open" /\ stored = Unread
  /\ given = None /\ air = <<>> /\ obeyed = None

Send(m) ==
  /\ session # "closed" /\ line = "free"
  /\ line' = IF m \in Legible THEN "whole" ELSE "broken"
  /\ message' = m
  /\ UNCHANGED <<session, stored, given, air, obeyed>>

Break ==
  /\ line = "whole"
  /\ line' = "broken"
  /\ UNCHANGED <<message, session, stored, given, air, obeyed>>

Arrive ==
  /\ session # "closed" /\ line = "whole"
  /\ line' = "free"
  /\ session' = IF session = "open" THEN "open" ELSE "closed"
  /\ stored' = IF message \in Kept THEN message ELSE stored
  /\ UNCHANGED <<message, given, air, obeyed>>

Fail ==
  /\ session # "closed" /\ line = "broken"
  /\ line' = "free"
  /\ session' = IF session = "open" THEN "closing" ELSE "closed"
  /\ UNCHANGED <<message, stored, given, air, obeyed>>

Close ==
  /\ session = "closing"
  /\ session' = "closed"
  /\ UNCHANGED <<line, message, stored, given, air, obeyed>>

Give(order) ==
  /\ given' = order
  /\ UNCHANGED <<line, message, session, stored, air, obeyed>>

Repeat ==
  /\ given # None /\ air = <<>>
  /\ air' = <<given>>
  /\ UNCHANGED <<line, message, session, stored, given, obeyed>>

Hear ==
  /\ air # <<>>
  /\ air' = <<>>
  /\ obeyed' \in {obeyed, Head(air)}
  /\ UNCHANGED <<line, message, session, stored, given>>

LinkNext ==
  \/ \E m \in Messages : Send(m)
  \/ Break \/ Arrive \/ Fail \/ Close
  \/ \E order \in Orders : Give(order)
  \/ Repeat \/ Hear

LinkSpec == LinkInit /\ [][LinkNext]_linkVars
=============================================================================
