SPECIFICATION Spec
CONSTANTS
  main = main  second = second  remote = remote  None = None  Failed = Failed
  c1 = c1  c2 = c2
  Store = {main, second, remote}
  Role <- Roles
  Primary = main
  Capacity <- Sizes
  Entries <- Config
  Customer = {c1, c2}
  MaxUsed <- Most
  MaxQuota = 2
  MaxChanges = 2
INVARIANTS TypeOK DisplayAgrees
PROPERTIES SellableIsBacked GrantsFit
SYMMETRY Customers
