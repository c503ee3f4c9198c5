\* One connection at a time (the default), over two handles.  Advertising data
\* of up to six bytes.
CONSTANTS
  Handle = {h1, h2}
  NoHandle = NoHandle
  MaxConn = 1
  BufNum = 2
  MaxLen = 2
  MaxEvents = 2
  Byte = {0, 1}
  CharLen <- MCCharLen
  DisVal <- MCDisVal
  B_MAX_ADV_LEN = 6
  AdType = {1}
  AdByte = {2}
  MaxData = 2
  MaxElems = 2
  NoList = NoList
SPECIFICATION MCSpec
INVARIANTS PollFollowsClient NoStrayLink ReadWhole AdvertisedAsAsked
PROPERTIES PollStops AdvertisesAgain
