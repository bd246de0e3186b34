SPECIFICATION Spec
CONSTANTS
  Ops = {o1, o2}
  Kinds = {"save"}
  Events = {}
  Hosts = {h1}
  Groups = {g1}
  Auths = {"password", "key", "direct"}
  Backends = {"keyring", "vault"}
  Settings = {s1}
  Passwords = {w1}
  DetectTries = 2
  None = None
  Lost = Lost
INVARIANT
  SwitchingIsAccepted
