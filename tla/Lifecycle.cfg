SPECIFICATION Spec
CONSTANTS
  Threads = {t1, t2}
  Clients = {k1, k2, k3}
  Projects = {a, b}
  Events = {e1, e2}
  NoClient = NoClient
SYMMETRY Symmetry
INVARIANTS TypeOK LoneClientStores OneOwner OneSharedClient
