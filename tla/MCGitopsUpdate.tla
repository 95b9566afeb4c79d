--------------------------- MODULE MCGitopsUpdate ---------------------------
(* Instances of GitopsUpdate for TLC: which revisions forbid reboots,
   and which flags are touched by hand. *)
EXTENDS GitopsUpdate

\* The second revision turns unattended reboots off.
SecondAttended == {2}
NoneAttended   == {}

\* What the administrator does with flag files.
AnyFlag   == {"failed", "force", "disabled"}
OnlyForce == {"force"}
NoFlag    == {}
=============================================================================
