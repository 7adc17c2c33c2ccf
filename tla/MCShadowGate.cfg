SPECIFICATION Spec
CONSTANTS
  Handlers = {h1, h2}
  Runs = {r1, r2, r3}
  MaxShadows = 2
  NoRun = NoRun
INVARIANTS
  SlotsAreCounted
PROPERTIES
  MainHoldsShadowsBack
  QuietLetsShadowsFinish
