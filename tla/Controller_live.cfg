SPECIFICATION LiveSpec
CONSTANTS
  Nodes = {n1}
  Selectors = {{n1}}
  IPs = {ip1}
  IAs = {}
  AgentStates = {"ready"}
  Platforms = {"Unknown"}
  Backends = {"manual", "http"}
  MaxDisturb = 2
  NoSIG = NoSIG
  NoIA = NoIA
  NoSpec = NoSpec
PROPERTIES DeletionCompletes RegistrationConverges
