SPECIFICATION Spec
CONSTANTS
  Nodes = {n1}
  Selectors = {{n1}}
  IPs = {ip1}
  IAs = {ia1}
  AgentStates = {"ready"}
  Platforms = {"True"}
  Backends = {"http", "anapaya"}
  MaxDisturb = 4
  NoSIG = NoSIG
  NoIA = NoIA
  NoSpec = NoSpec
INVARIANTS TypeOK RegisteredGuarded AtRestConverged
PROPERTY ISDASKept
