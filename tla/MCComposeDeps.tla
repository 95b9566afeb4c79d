----------------------------- MODULE MCComposeDeps -----------------------------
(* Three services and a name that is none. *)
EXTENDS ComposeDeps

CONSTANTS a, b, c, u

MCService == {a, b, c}
MCName    == MCService \cup {u}
================================================================================
