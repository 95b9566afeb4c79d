------------------------- MODULE MCContainerService -------------------------
(* Values of the constants of ContainerService for TLC: one service, or two that
   use the same image and are interchangeable. *)
EXTENDS ContainerService, TLC

CONSTANTS web, worker

MCUnit     == {web}
MCTwoUnits == {web, worker}
MCImages   == {"app"}
MCSame     == [u \in Units |-> "app"]
Symmetric  == Permutations(MCTwoUnits)

=============================================================================
