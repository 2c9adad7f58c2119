--------------------------- MODULE MCAppointments ---------------------------
(***************************************************************************)
(* A shop with two or three slots, and a few customers, advisers and       *)
(* workers, for TLC.                                                       *)
(***************************************************************************)
EXTENDS Appointments, TLC

CONSTANTS
    s1, s2, s3,
    b1, b2, b3, b4, a1, m1, m2, q1, k1, k2, r1, j1, j2, w1, w2   \* requests, named by their role

\* s2 starts before s1 ends, at an hour only the staff may choose; s3 is the
\* day after.
Day_ == [s \in Slots |-> IF s = s3 THEN 3 ELSE 2]
Clash_ == [s \in Slots |-> IF s = s3 THEN {s} ELSE Slots \ {s3}]

RoleOf ==
    (b1 :> "booker" @@ b2 :> "booker" @@ b3 :> "booker" @@ b4 :> "booker" @@ a1 :> "asker" @@ m1 :> "mover" @@ m2 :> "mover"
       @@ q1 :> "quitter" @@ k1 :> "confirmer" @@ k2 :> "confirmer" @@ r1 :> "remover"
       @@ j1 :> "judge" @@ j2 :> "judge" @@ w1 :> "worker" @@ w2 :> "worker")
Role_ == [r \in Requests |-> RoleOf[r]]

=============================================================================
