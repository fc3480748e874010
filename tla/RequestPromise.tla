---------------------------- MODULE RequestPromise ----------------------------
(***************************************************************************)
(* What the desk promises of the operator's requests (start, stop, exit,   *)
(* door), whatever the sender's pace and the losses on the way: once the   *)
(* sender lives, no request that is in force while the desk is busy with a *)
(* handler is withdrawn before the vehicle has received it.  While the     *)
(* desk runs an event loop a pool thread's copy may still replace what is  *)
(* in force.  Module DeskTiming implements this specification.             *)
(***************************************************************************)
CONSTANT Requests

VARIABLES busy,      \* a handler holds the GUI thread
          alive,     \* the sender thread runs
          given,     \* the requests in force
          received   \* those of them that the vehicle has received

promiseVars == <<busy, alive, given, received>>

PromiseInit == ~busy /\ ~alive /\ given = {} /\ received = {}

(* New requests replace old ones.                                          *)
Give(requests) == given' = requests /\ received' = received \cap requests

Begin ==
  /\ ~busy
  /\ busy' = TRUE
  /\ \E requests \in SUBSET Requests : Give(requests)
  /\ UNCHANGED alive

Finish ==
  /\ busy
  /\ alive => given \subseteq received
  /\ busy' = FALSE
  /\ alive' \in {alive, TRUE}
  /\ \E requests \in SUBSET Requests : Give(requests)

Receive == alive /\ received' = given /\ UNCHANGED <<busy, alive, given>>

Overwrite ==
  /\ ~busy
  /\ \E requests \in SUBSET Requests : Give(requests)
  /\ UNCHANGED <<busy, alive>>

PromiseNext == Begin \/ Finish \/ Receive \/ Overwrite

PromiseSpec == PromiseInit /\ [][PromiseNext]_promiseVars
=============================================================================
