CONSTANTS
  c1 = c1  c2 = c2  c3 = c3
  Clients <- TwoClients
SPECIFICATION Spec
INVARIANT GrabbingRestored
