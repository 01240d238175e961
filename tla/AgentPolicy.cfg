SPECIFICATION LiveSpec
CONSTANTS
  IAs = {ia1, ia2}
  Blocks = {b1}
  NodeCIDRs = {node}
  CNI = TRUE
  MaxDisturb = 4
  Torn = Torn
  None = None
INVARIANTS TypeOK NoLostUpdate
 
