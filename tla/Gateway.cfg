SPECIFICATION FairSpec
CONSTANTS
  t1 = t1
  s1 = s1
  s2 = s2
  s3 = s3
  api = api
  Requests = {r1}
  Appliers = {a1}
  Texts = {t1}
  Paths = {api}
  Secrets = {s1, s2, s3}
  NumLayers = 2
  LazyLayers = {2}
  LinesOf <- MCLinesOf
  Bodies <- MCBodies
  LayerOf <- MCLayerOf
  Uncompiled = {s3}
  Configs <- Toggles
  MaxSize = 1
INVARIANTS
  TypeOK
  HonestStatus
  ConfigInstalled
PROPERTIES
  RequestAnswered
