CONSTANTS
  Uris = {zip, image, gone}
  Openable = {zip, image}
  Zips = {zip}
  NoUri = NoUri
  Nothing = Nothing
  Closed = Closed
  Fds = {3, 4}
  Exported <- AsBuilt
  MaxPicks = 3
  MaxRecreated = 1
SPECIFICATION Spec
INVARIANTS
  ReadableFileIsInspected
