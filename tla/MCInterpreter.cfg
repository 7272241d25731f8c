SPECIFICATION FairSpec
CONSTANTS
  o = o
  a = a
  b = b
  itf = itf
  x = x
  main = main
  f = f
  g = g
  p = p
  q = q
  co = co
  ca = ca
  cb = cb
  ci = ci
  NoClass = NoClass
  Classes <- MCClasses
  Super <- MCSuper
  SuperClasses <- MCSuperClasses
  Interfaces = {itf}
  Methods <- MCMethods
  ClassOf <- MCClassOf
  Static = {main, f, p, co, ca, cb, ci}
  Println = {p, q}
  Clinit = {co, ca, cb, ci}
  Main = main
  SlotNeed <- MCSlotNeed
  MaxSize = 1024
  FrameSize = 80
  HeaderSize = 20
  Programs <- MCPrograms
  Code <- MCCode
  Table <- MCTable
  Debug <- MCDebug
INVARIANTS TypeOK CallChain
PROPERTIES ClinitOnce SuperFirst UseAfterInit CaughtWhereProtected Termination
CHECK_DEADLOCK FALSE
