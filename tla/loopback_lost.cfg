CONSTANTS
  eth = eth  bond = bond  vlan = vlan  loop = loop
  a1 = a1  m1500 = m1500  tap = tap  tap2 = tap2  ns = ns
  None = None
  Phys = {eth}
  Loops = {loop}
  Bonds = {}
  Subs = {}
  Parent <- MCNoParent
  Addr4 = {a1}
  Addr6 = {}
  Hosts = {}
  Netns = {}
  Mtus = {}
  DefaultsFilled = FALSE
  YangMtu = m1500
  Built <- MCLoopBuilt
  Saved <- MCLoopSaved
  Crashes = 0
  Commits = 0
SPECIFICATION Spec
INVARIANTS InterfacesComeBack
CHECK_DEADLOCK FALSE
