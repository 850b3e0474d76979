SPECIFICATION Spec
CONSTANTS
  r1 = r1
  r2 = r2
  script = script
  config = config
  extra = extra
  Release = {r1, r2}
  File = {script, config, extra}
  ConfigFile = config
  NoText = NoText
  Garbage = Garbage
  Ships <- Shipped
  MaxVersion = 5
  sa = sa
  sb = sb
  va = va
  vb = vb
  Script = {sa, sb}
  Value = {va, vb}
  Absent = Absent
  Nested = {vb}
  MaxSamples = 4
  Batch = 2
  Poison = {2}
INVARIANTS
  DerivedTakesEffect
