CONSTANTS
  eth = eth  bond = bond  vlan = vlan  loop = loop
  a1 = a1  a2 = a2  a6 = a6  m1500 = m1500  tap = tap  ns = ns
  None = None  NoIf = NoIf
  Phys = {eth}
  Loops = {}
  Bonds = {}
  Subs = {}
  Parent <- MCNoParent
  Addr4 = {a1}
  Addr6 = {}
  Mtus = {}
  Hosts = {}
  Netns = {}
  DefaultsFilled = FALSE
  YangMtu = m1500
  Sessions = {s1, s2}
  Configurable <- MCShared
  Faults = {}
SPECIFICATION Spec
SYMMETRY Symmetry
INVARIANTS CommittedIsSaved
