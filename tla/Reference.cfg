\* Rule versions, seeds, branding, the matcher and the suggestions.
SPECIFICATION Spec
CONSTANTS
  Versions <- MCVersions
  Shipped = "shipped"
  Genuine <- MCGenuine
  Rules <- MCRules
  Managers = {m1, m2, m3}
  Datasets = {v1, v2, v3}
  Known <- MCKnown
  Seeds = {s1, s2, s3}
  VersionOf <- MCVersionOf
  Saves = {w1, w2}
  PlaceOf <- MCPlaceOf
  Perm = {w1}
  Editors <- MCEditors
  Kind <- MCKind
  MediaType <- MCMedia
  Words <- MCWords
  Within <- MCWithin
  MaxWords = 3
  Catalog <- MCCatalog
  Lexical = {0, 5, 7}
  Semantic = {0, 10}
  limit = 2
  Faults = TRUE
  v1 = v1  v2 = v2  v3 = v3
  s1 = s1  s2 = s2  s3 = s3  w1 = w1  w2 = w2
  Accra = Accra  Ho = Ho
  None = None
CHECK_DEADLOCK FALSE
INVARIANTS TypeOK AtMostOneActive PlacesAreFlagged SuggestionsFit
PROPERTY EditsAreSeparate
