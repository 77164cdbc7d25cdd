---------------------------- MODULE MCPteThreads ----------------------------
(* TLC instance of the POSIX threads library's threads: each behaviour is  *)
(* about their creation and end or about their specific data.              *)
EXTENDS PteThread, PteKeys

CONSTANTS p1, p2, p3, k1, k2

Bound(a, b, c) == [t \in PThreads |-> CASE t = p1 -> a [] t = p2 -> b [] t = p3 -> c]
ThreadCalls == [thread |-> Bound(2, 2, 4), keys |-> Bound(1, 2, 2)]

vars == <<commonVars, thVars, kyVars>>

Init == (\E c \in DOMAIN MaxCalls : CommonInit(c)) /\ ThVarsInit /\ KyVarsInit
Next ==
  \/ component = "thread" /\ ThreadNext /\ UNCHANGED kyVars
  \/ component = "keys" /\ KeysNext /\ UNCHANGED thVars

Spec == Init /\ [][Next]_vars
=============================================================================
