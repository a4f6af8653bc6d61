---------------------------- MODULE HandleLease ----------------------------
(***************************************************************************)
(* What the call-in-progress flags of the handles are for: a handle in use *)
(* belongs to one thread, and what another thread does neither takes it    *)
(* away nor destroys it.  Module HandleCalls implements it for the         *)
(* applications it describes.                                              *)
(***************************************************************************)
CONSTANTS Threads, Handles, Nobody

VARIABLES
  alive,     \* the handles that exist
  holder     \* the thread whose call is in progress on each handle, or Nobody

Init == alive = {} /\ holder = [h \in Handles |-> Nobody]

Changed(h) == holder'[h] # holder[h] \/ (h \in alive) # (h \in alive')

(* Thread t creates, takes, gives back or destroys handles no other thread *)
(* is using.                                                               *)
Step(t) ==
  /\ alive' \subseteq Handles
  /\ holder' \in [Handles -> Threads \cup {Nobody}]
  /\ \A h \in Handles : Changed(h) => {holder[h], holder'[h]} \subseteq {t, Nobody}
  /\ \A h \in Handles : holder'[h] # Nobody => h \in alive'

Next == \E t \in Threads : Step(t)

Spec == Init /\ [][Next]_<<alive, holder>>
=============================================================================
