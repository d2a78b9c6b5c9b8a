\* Two Senders compete for two Receivers; addresses change between runs of LuminT,
\* and that of d2 also behind its start page.
SPECIFICATION FairSpec
CONSTANTS
  d1 = d1
  d2 = d2
  d3 = d3
  i1 = i1
  i2 = i2
  i3 = i3
  gateway = gateway
  Device = {d1, d2, d3}
  SendsFrom = {d1, d3}
  ReceivesAt = {d2, d3}
  ID = {i1, i2, i3, gateway}
  PassedOver = {gateway}
  Trusts <- MCTrusts
  MovesOn <- MCMovesOn
  MaxBacklog = 2
  NoID = NoID
  NoDevice = NoDevice
INVARIANTS
  TypeOK
  OneSenderAtATime
  ReachesIDShown
  WaitingIsReachable
PROPERTIES
  ConnectionSettled
