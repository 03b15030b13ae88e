SPECIFICATION ProbeSpec
CONSTANTS
  rtx = rtx
  arc = arc
  rx = rx
  rxt = rxt
  vega = vega
  radeonGraphics = radeonGraphics
  old = old
  m1 = m1
  m1gpu = m1gpu
  m1pro = m1pro
  AppleGPU = AppleGPU
  None = None
  Cards <- SomeCards
  Hosts <- SomeHosts
  Specs <- Table
  Similar <- Resembles
  Generic <- GenericKeys
INVARIANTS
  CardsOnce
  
  SpecsFit
CHECK_DEADLOCK FALSE
