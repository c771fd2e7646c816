--------------------------- MODULE MCSessionStorm ---------------------------
(***************************************************************************)
(* Requests of two server threads in any order, in two sizes: every route  *)
(* on one session, and two sessions, which two requests that find none     *)
(* make at once.                                                           *)
(***************************************************************************)
EXTENDS MCControlSession

VARIABLE scope  \* chosen at the start; never changes

SessionsIn == [routes |-> 1, race |-> 2]
RequestsIn == [routes |-> Ops, race |-> {"connect_ro", "detect", "confirm", "start"}]

\* The sessions made, and those that requests under way are about to make.
Within ==
  /\ Cardinality({l \in Loops : sess[l].state # "unbuilt"})
       + Cardinality({h \in Handlers : job[h].pc = "create"}) <= SessionsIn[scope]
  /\ \A h \in Handlers : job[h].op \in RequestsIn[scope] \cup {"none"}

StormInit == Init /\ scope \in {"routes", "race"}

StormNext ==
  /\ Next /\ UNCHANGED scope
  /\ (\E h \in Handlers : job[h].op = "none" /\ job'[h].op # "none") => Within'

StormSpec == StormInit /\ [][StormNext]_<<vars, scope>>

=============================================================================
