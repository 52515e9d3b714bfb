SPECIFICATION Spec
CONSTANTS
  server = server
  web = web
  Packages <- TwoPackages
  Releases = 3
  Manifest <- Back
  Assets <- BackAssets
  MaxFaults = 1
  Lossy = FALSE
INVARIANTS
  UpdatedMeansInstalled
