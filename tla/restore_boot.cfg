CONSTANTS
  eth = eth  bond = bond  vlan = vlan  loop = loop
  a1 = a1  m1500 = m1500  tap = tap  tap2 = tap2  ns = ns
  None = None
  Phys = {eth}
  Loops = {}
  Bonds = {bond}
  Subs = {vlan}
  Parent <- MCParent
  Addr4 = {a1}
  Addr6 = {}
  Hosts = {tap, tap2}
  Netns = {ns}
  Mtus = {m1500}
  DefaultsFilled = FALSE
  YangMtu = m1500
  Built <- MCVlanBuilt
  Saved <- MCVlanSaved
  Crashes = 2
  Commits = 1
SPECIFICATION FairSpec
INVARIANTS TypeOK NothingInvented PassRestores
PROPERTIES EventuallyRestored
CHECK_DEADLOCK FALSE
