SPECIFICATION FairSpec
CONSTANTS
  t1 = t1
  t2 = t2
  m1 = m1
  m2 = m2
  w1 = w1
  w2 = w2
  x = x
  Tids = {t1}
  Msgs = {m1}
  Wires = {w1}
  Media = {x}
  Chat = {m1}
  MsgOf <- SingleMsgOf
  WireOf <- SingleWireOf
  MediaOf <- CopiesMediaOf
  Direct = {m1}
  MaxDiscards = 1
  MaxIntents = 2
INVARIANTS
  FilesPresent
PROPERTIES
  LeftoversGo
