SPECIFICATION Spec
CONSTANTS
  Threads = {t1}
  Clients = {k1, k2}
  Projects = {a}
  Events = {e1}
  NoClient = NoClient
SYMMETRY Symmetry
INVARIANTS StoredUntilPushed
