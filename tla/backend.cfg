CONSTANTS
  eth = eth  loop = loop  bond = bond  vlan = vlan
  a1 = a1  a2 = a2  m1500 = m1500  tap = tap
  None = None
  Phys = {eth}
  Loops = {loop}
  Bonds = {bond}
  Subs = {vlan}
  Parent <- MCParent
  Addr4 = {a1, a2}
  Addr6 = {}
  Mtus = {m1500}
  Hosts = {tap}
  Netns = {}
  DefaultsFilled = TRUE
  YangMtu = m1500
  Bond0 = bond
  MaxIndex = 4
  Hardware <- MCHardware
  Meddled <- MCMeddled
  Paired <- MCPaired
  Targets <- MCTargets
SPECIFICATION Spec
INVARIANTS TypeOK QuietTransactionIsTransact QuietCreateIsExact StateDataIsWhole
PROPERTIES KeepsPromise StraysOnlyOnReuse
