SPECIFICATION Spec
CONSTANTS
  Items = {i1, i2, i3}
  Lists = {"pool_list_", "pending_", "tmp"}
  Null = Null
  PoolSize = 2
INVARIANTS
  ListsAreIntact
  OwnedOnce
PROPERTY
  ImplementsItemLists
