---------------------------- MODULE MCApptCrowds ----------------------------
(***************************************************************************)
(* Crowds in one run, one of which comes: those who book, move and cancel, *)
(* all at once; or a customer who moves a visit, or a table, while the     *)
(* worker goes its rounds, one session at a time.                          *)
(***************************************************************************)
EXTENDS MCAppointments

Rush  == [who |-> {b1, b2, m1, q1, r1}, together |-> MaxOpen, until |-> Horizon - 1]
Moves == {[who |-> {b, m2, w1}, together |-> 1, until |-> Horizon] : b \in {b3, b4}}

Come(c) == /\ \A r \in Requests \ c.who : pc[r] = "idle"
           /\ Cardinality({r \in Requests : pc[r] \in Busy}) <= c.together
           /\ now <= c.until

OneCrowdComes == \E c \in {Rush} \cup Moves : Come(c)'

\* One session at a time, each step announces what the agenda says
\* (TrueAnnouncements).
AnnouncedIsTrueAlone ==
    [][(\E c \in Moves : Come(c)') => TrueAnnouncements]_vars
=============================================================================
