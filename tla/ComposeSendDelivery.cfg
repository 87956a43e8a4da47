SPECIFICATION FairSpec
CONSTANTS
  k1 = k1
  Nil = Nil
  Keys = {k1}
  MaxVersion = 2
  MaxRequests = 3
  MaxUploads = 1
CHECK_DEADLOCK FALSE
PROPERTIES
  RefinesDelivery
  SendSettles
