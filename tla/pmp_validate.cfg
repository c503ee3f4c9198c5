\* Contexts that are set up, added to, applied and validated in any order.
CONSTANTS
  Slots = 8
  MemBits = 4
  Ctx = {p1, p2}
  TorRegions <- MCTorRegions
  NapotRegions <- MCNapotRegions
  Stack <- MCStack
  Rom <- MCRom
  MaxAdds = 2
  MaxInits = 1
SYMMETRY Sym
SPECIFICATION PmpSpec
INVARIANTS NeverTooPermissive
