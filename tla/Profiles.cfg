SPECIFICATION MCSpec
CONSTANTS
  Ops = {o1, o2}
  Kinds = {"save", "remember", "clear", "delete", "reject", "trust", "revoke", "settings", "audio", "lang", "groups", "recents", "detect"}
  Events = {"lose", "restart", "revoke", "nosync", "preview"}
  Hosts = {h1, h2}
  Groups = {g1, g2}
  Auths = {"password", "key", "direct"}
  Backends = {"keyring", "vault"}
  Settings = {s1, s2}
  Passwords = {w1, w2}
  DetectTries = 2
  None = None
  Lost = Lost
SYMMETRY Symmetry
INVARIANTS
  SecretsMatchReference
  ExpectedStaysCurrent
  PublishedIsSaved
PROPERTIES
  TrustIsOrdered
  PreviewStaysTransient
