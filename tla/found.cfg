CONSTANTS
  dl = dl
  t6 = t6
  NoDev = NoDev
  Gone = Gone
  NoPort = NoPort
  Ports = {0, 1}
  IgnorePorts = {}
  Devices = {dl, t6}
  HotMonitors = {}
  Chips = {dl, t6}
  Builtin <- OneBuiltin
  Wide = {}
  MaxArea <- MCMaxArea
  SmallSku <- MCSmallSku
  Accepts <- OneAccepts
  Reports <- OneReports
  Cfg <- OneCfg
SPECIFICATION Spec
PROPERTY Found
