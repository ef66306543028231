SPECIFICATION Spec
CONSTANTS
  t1 = t1
  t2 = t2
  m1 = m1
  m2 = m2
  w1 = w1
  w2 = w2
  x = x
  Tids = {t1, t2}
  Msgs = {m1}
  Wires = {w1, w2}
  Media = {x}
  Chat = {m1}
  MsgOf <- CopiesMsgOf
  WireOf <- CopiesWireOf
  MediaOf <- CopiesMediaOf
  Direct = {}
  MaxDiscards = 1
  MaxIntents = 1
INVARIANTS
  ReceiptsBacked
  PurgeAuthority
  DeletedStaysDeleted
PROPERTIES
  KeepsFates
