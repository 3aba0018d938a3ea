----------------------------- MODULE MCLoginCodes -----------------------------
(* Instances of LoginCodes for TLC. *)
EXTENDS LoginCodes, TLC

CONSTANTS l1, l2, l3, v1, v2, v3, ann, bob

\* Two logins share a name, so that they race for its user id.
MCNameOf == (l1 :> ann) @@ (l2 :> ann) @@ (l3 :> bob)
===============================================================================
