CONSTANTS
  s1 = s1
  s2 = s2
  v1 = v1
  v2 = v2
  v3 = v3
  Stocks = {s1, s2}
  Vins = {v1, v2, v3}
  NoKey = NoKey
  BadRow = BadRow
  Demo <- MCDemo
  MaxCars = 3
  MaxRows = 2
  MaxCrashes = 1
SPECIFICATION InventorySpec
INVARIANTS StockNamesOneCar OfferedIsListed SyncIsIdempotent
CHECK_DEADLOCK FALSE
