\* Two entities, two contents, three files, one request of `apply' on its way.
CONSTANTS
  e1 = e1
  e2 = e2
  c1 = c1
  c2 = c2
  None = None
  Entities = {e1, e2}
  Contents = {c1, c2}
  Bundles <- MCBundles
  Orders = {o1}
SPECIFICATION Spec
CONSTRAINT NoEditBesideStray
PROPERTIES
  OverwritesAreDecided
  AppliedAsAnnounced
