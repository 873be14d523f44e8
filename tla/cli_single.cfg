CONSTANTS
  eth = eth  bond = bond  vlan = vlan  loop = loop
  a1 = a1  a2 = a2  a6 = a6  m1500 = m1500  tap = tap  ns = ns
  None = None  NoIf = NoIf
  Phys = {eth}
  Loops = {}
  Bonds = {bond}
  Subs = {vlan}
  Parent <- MCParent
  Addr4 = {a1}
  Addr6 = {}
  Mtus = {}
  Hosts = {tap}
  Netns = {ns}
  DefaultsFilled = FALSE
  YangMtu = m1500
  Sessions = {s1}
  Configurable <- MCBondVlan
  Faults = {}
SPECIFICATION SpecAndView
VIEW Relevant
INVARIANTS TypeOK NothingLostSilently NoSubifSection ShowIsComplete
