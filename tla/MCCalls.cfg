SPECIFICATION Spec
CONSTANTS
  main = main
  add = add
  arr = arr
  get = get
  join = join
  nat = nat
  pj = pj
  pl = pl
  pn = pn
  pr = pr
  Methods <- MCMethods
  Main = main
  put = put
  Static = {main, add, arr, put, pj, pn}
  Native = {nat, put}
  Println = {pj, pl, pn, pr}
  Params <- MCParams
  Result <- MCResult
  MaxStack <- MCMaxStack
  MaxLocals <- MCMaxLocals
  MaxDepth = 3
INVARIANTS SlotsAccounted ValuesArrive ReceiverFound
CHECK_DEADLOCK FALSE
