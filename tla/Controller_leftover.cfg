SPECIFICATION Spec
CONSTANTS
  Nodes = {n1}
  Selectors = {{n1}}
  IPs = {ip1}
  IAs = {ia1}
  AgentStates = {"ready"}
  Platforms = {"True"}
  Backends = {"manual", "http", "anapaya"}
  MaxDisturb = 3
  NoSIG = NoSIG
  NoIA = NoIA
  NoSpec = NoSpec
INVARIANT OnlyDocumentedLeftovers
