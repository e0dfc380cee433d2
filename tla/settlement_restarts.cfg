CONSTANTS
  n1 = n1
  n2 = n2
  n3 = n3
  n4 = n4
  c1 = c1
  c2 = c2
  w1 = w1
  s1 = s1
  s2 = s2
  None = None
  Node <- FourNodes
  Call <- TwoCalls
  Work = {w1}
  Sid = {s1, s2}
  Coordinator <- Rivals
  Peers <- RivalPeers
  WorkOf <- SameWork
  SidOf <- RivalSids
  Forgetful = {n3, n4}
SPECIFICATION SettleSpec
INVARIANT OneSettlement
SYMMETRY OthersSym
CHECK_DEADLOCK FALSE
