CONSTANTS
  dl = dl
  t6 = t6
  NoDev = NoDev
  Gone = Gone
  NoPort = NoPort
  Ports = {0, 1}
  IgnorePorts = {0}
  Devices = {dl, t6}
  HotMonitors = {dl}
  Chips = {dl, t6}
  Builtin <- MCBuiltin
  Wide = {4}
  MaxArea <- MCMaxArea
  SmallSku <- MCSmallSku
  Accepts <- MCAccepts
  Reports <- MCReports
  Cfg <- MCCfg
SPECIFICATION Spec
PROPERTY LossSeen
