------------------------------ MODULE StateFeed ------------------------------
(***************************************************************************)
(* What RobotState promises to the getters, whatever the bytes on the wire *)
(* do: the variables of a package appear together, packages appear in the  *)
(* order in which the controller made them, and every read of a variable   *)
(* returns the value of the package that is shown at that moment.          *)
(***************************************************************************)
EXTENDS Naturals, Sequences

CONSTANTS
    Names,        \* the variables of the output recipe that can be decoded
    MaxPackages,  \* bound: packages made by the controller
    MaxReads      \* bound: calls of a getter

VARIABLES
    view,  \* name -> number of the package its value is from, 0 before the first
    seen   \* what the getters returned, in order: the variable and the package

Init ==
    /\ view = [n \in Names |-> 0]
    /\ seen = <<>>

\* A package appears as a whole; packages may be left out, never taken back.
Show(p) ==
    /\ \A n \in Names : view[n] < p
    /\ view' = [n \in Names |-> p]
    /\ UNCHANGED seen

\* A reconnection replaces the RobotState by a new one.
Renew ==
    /\ view' = [n \in Names |-> 0]
    /\ UNCHANGED seen

Read(n) ==
    /\ Len(seen) < MaxReads
    /\ seen' = Append(seen, <<n, view[n]>>)
    /\ UNCHANGED view

Next ==
    \/ \E p \in 1..MaxPackages : Show(p)
    \/ Renew
    \/ \E n \in Names : Read(n)

Spec == Init /\ [][Next]_<<view, seen>>
=============================================================================
