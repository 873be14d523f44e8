CONSTANTS
  local0 = local0  eth = eth  bond = bond  loop = loop
  vlan = vlan  loopvlan = loopvlan  x = x  y = y  template = template
  Names <- MCNames
  Vals = {x, y}
  Class <- MCClass
  Outputs <- MCOutputs
  Size <- MCSize
  Bytes <- MCBytes
  BufSize = 4
  OutputLen = 12
  Lists <- MCLists
  Template = template
  MaxBonds = 2
  MaxLcps = 2
  MaxIfs = 3
SPECIFICATION Spec
INVARIANTS TypeOK BufferBounds NothingCutNeedlessly ReadersAreExact CapSparesAllButLast NothingMadeUp
CHECK_DEADLOCK FALSE
