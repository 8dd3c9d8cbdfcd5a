------------------------------ MODULE Advertiser ------------------------------
(***************************************************************************)
(* What SSDP::Start and SSDP::Stop promise the server: one call at a time, *)
(* a set of endpoints that is announced from a start until the next, and   *)
(* a call that meets another one in progress, or that has nothing to do,   *)
(* changes nothing.  Ssdp is shown to implement it; NetworkWatch uses it.  *)
(***************************************************************************)
CONSTANT EndpointSets         \* what a start may be asked to announce

VARIABLES
  phase,                      \* off, starting, on, stopping
  advertised                  \* ActiveEndpoints(): kept by a stop and by a start that fails

vars == <<phase, advertised>>

Init == phase = "off" /\ advertised = {}

\* The endpoints are stored before a socket is opened.
BeginStart(E) ==
  /\ phase = "off"
  /\ phase' = "starting"
  /\ advertised' = E

Started == phase = "starting" /\ phase' = "on" /\ UNCHANGED advertised

StartFails == phase = "starting" /\ phase' = "off" /\ UNCHANGED advertised

BeginStop == phase = "on" /\ phase' = "stopping" /\ UNCHANGED advertised

Stopped == phase = "stopping" /\ phase' = "off" /\ UNCHANGED advertised

Next ==
  \/ \E E \in EndpointSets : BeginStart(E)
  \/ Started
  \/ StartFails
  \/ BeginStop
  \/ Stopped

Spec == Init /\ [][Next]_vars
=============================================================================
