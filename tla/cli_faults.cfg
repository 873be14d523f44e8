CONSTANTS
  eth = eth  bond = bond  vlan = vlan  loop = loop
  a1 = a1  a2 = a2  a6 = a6  m1500 = m1500  tap = tap  ns = ns
  None = None  NoIf = NoIf
  Phys = {eth}
  Loops = {loop}
  Bonds = {}
  Subs = {}
  Parent <- MCNoParent
  Addr4 = {}
  Addr6 = {a6}
  Mtus = {}
  Hosts = {}
  Netns = {}
  DefaultsFilled = FALSE
  YangMtu = m1500
  Sessions = {s1}
  Configurable <- MCLoopback
  Faults = {"rpc", "open", "outage", "hangup"}
SPECIFICATION SpecWindow
VIEW ButStartup
INVARIANTS NothingLostSilently QuietCommitIsExact
PROPERTY SavesWhatLasts
