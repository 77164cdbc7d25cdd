-------------------------------- MODULE Disk --------------------------------
(***************************************************************************)
(* What a block device promises its callers: every request is served at    *)
(* most once, and a call reports success exactly when the device has       *)
(* served that very request with success.  A request may be refused.       *)
(***************************************************************************)

CONSTANT Threads

VARIABLES
  phase,    \* how far each caller's request is
  result    \* what its call returns, "none" until it does

diskVars == <<phase, result>>

DiskInit ==
  /\ phase = [t \in Threads |-> "idle"]
  /\ result = [t \in Threads |-> "none"]

Ask(t) ==
  /\ phase[t] = "idle"
  /\ phase' = [phase EXCEPT ![t] = "asked"]
  /\ UNCHANGED result

\* The device serves a request, with success or not.
Serve(t) ==
  /\ phase[t] = "asked"
  /\ phase' \in {[phase EXCEPT ![t] = how] : how \in {"ok", "error"}}
  /\ UNCHANGED result

\* A request is refused without being sent to the device.
Refuse(t) ==
  /\ phase[t] = "asked"
  /\ phase' = [phase EXCEPT ![t] = "refused"]
  /\ result' = [result EXCEPT ![t] = "error"]

\* The caller learns the outcome of its own request.
Learn(t) ==
  /\ phase[t] \in {"ok", "error"} /\ result[t] = "none"
  /\ result' = [result EXCEPT ![t] = phase[t]]
  /\ UNCHANGED phase

Leave(t) ==
  /\ result[t] # "none"
  /\ phase' = [phase EXCEPT ![t] = "idle"]
  /\ result' = [result EXCEPT ![t] = "none"]

DiskNext == \E t \in Threads : Ask(t) \/ Serve(t) \/ Refuse(t) \/ Learn(t) \/ Leave(t)

DiskSpec == DiskInit /\ [][DiskNext]_diskVars
=============================================================================
