-------------------------- MODULE ProtectedHistory --------------------------
(***************************************************************************)
(* What the hosted service promises about the published history of one     *)
(* vault, whatever its clients, its provider and its cleanup worker do:    *)
(* versions form one line, a version is appended to the end of that line   *)
(* or not at all, and every object of every version stays readable.        *)
(***************************************************************************)
CONSTANTS Versions, Objects, NoVersion

VARIABLES
  last,      \* the newest version of the line
  parent,    \* the version each version of the line was appended to
  contents,  \* the objects of each version of the line
  readable   \* the objects that can be read back

vars == <<last, parent, contents, readable>>

\* The versions of the line: those with contents.
Line == {v \in Versions : contents[v] # {}}

Init ==
  /\ last = NoVersion
  /\ parent = [v \in Versions |-> NoVersion]
  /\ contents = [v \in Versions |-> {}]
  /\ readable = {}

\* A version is appended: all it holds is readable at that moment.
Append(v, objects) ==
  /\ v \notin Line
  /\ objects # {}
  /\ objects \subseteq readable
  /\ last' = v
  /\ parent' = [parent EXCEPT ![v] = last]
  /\ contents' = [contents EXCEPT ![v] = objects]
  /\ UNCHANGED readable

\* Objects come and go, the ones some version holds stay.
Churn(objects) ==
  /\ \A v \in Versions : contents[v] \subseteq objects
  /\ readable' = objects
  /\ UNCHANGED <<last, parent, contents>>

Next ==
  \/ \E v \in Versions, objects \in SUBSET Objects : Append(v, objects)
  \/ \E objects \in SUBSET Objects : Churn(objects)

Spec == Init /\ [][Next]_vars
=============================================================================
