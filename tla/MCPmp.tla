-------------------------------- MODULE MCPmp --------------------------------
(* The memory and the regions of the instance of Pmp.                       *)
EXTENDS Pmp, TLC

Sym == Permutations(Ctx)

Region(start, size, flags) == [start |-> start, size |-> size, flags |-> flags]

MCStack == [start |-> 2, size |-> 2]
MCRom == [start |-> 8, size |-> 4]

\* One word, one that overlaps it beside the stack and is locked, one that is
\* refused.
MCTorRegions ==
  {Region(6, 1, {"R", "W"}), Region(4, 3, {"R", "L"}), Region(8, 0, {"R"})}

MCNapotRegions ==
  {Region(6, 1, {"R", "W"}), Region(12, 2, {"R", "L"}), Region(0, 4, {"R", "W"})}
=============================================================================
