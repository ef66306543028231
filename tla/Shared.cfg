SPECIFICATION Spec
CONSTANTS
  t1 = t1
  t2 = t2
  m1 = m1
  m2 = m2
  w1 = w1
  w2 = w2
  x = x
  Tids = {t1, t2}
  Msgs = {m1, m2}
  Wires = {w1}
  Media = {x}
  Chat = {m1, m2}
  MsgOf <- SharedMsgOf
  WireOf <- SharedWireOf
  MediaOf <- SharedMediaOf
  Direct = {}
  MaxDiscards = 1
  MaxIntents = 2
INVARIANTS
  RetainedFilesPresent
  NoOrphans
