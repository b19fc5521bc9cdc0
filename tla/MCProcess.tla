------------------------------ MODULE MCProcess ------------------------------
(***************************************************************************)
(* Instances of Process for TLC: the callers of all three programs, of     *)
(* which the program started uses its own.                                 *)
(***************************************************************************)
EXTENDS Process, TLC

CONSTANTS r1, s1, l1, l2, j1

KindOf ==
    r1 :> "request" @@
    s1 :> "sms" @@ l1 :> "mail" @@ l2 :> "mail" @@
    j1 :> "job"
CallerKind == [c \in Callers |-> KindOf[c]]
=============================================================================
