CONSTANTS
  eth = eth  bond = bond  vlan = vlan  loop = loop
  a1 = a1  a2 = a2  a6 = a6  m1500 = m1500  tap = tap  ns = ns
  None = None  NoIf = NoIf
  Phys = {eth}
  Loops = {}
  Bonds = {bond}
  Subs = {}
  Parent <- MCNoParent
  Addr4 = {a1, a2}
  Addr6 = {}
  Mtus = {m1500}
  Hosts = {}
  Netns = {}
  DefaultsFilled = TRUE
  YangMtu = m1500
  Sessions = {s1}
  Configurable <- MCBondMember
  Faults = {}
SPECIFICATION Spec
VIEW WholeTexts
INVARIANT NothingLostSilently
PROPERTY QuietCommitHarmless
