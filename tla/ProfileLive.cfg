SPECIFICATION LiveSpec
CONSTANTS
  Ops = {o1, o2}
  Kinds = {"save", "missing", "detect"}
  Events = {"norestore", "lose"}
  Hosts = {h1}
  Groups = {g1}
  Auths = {"password"}
  Backends = {"vault"}
  Settings = {s1}
  Passwords = {w1}
  DetectTries = 2
  None = None
  Lost = Lost
INVARIANT
  TokenHasOwner
PROPERTY
  RequestEnds
