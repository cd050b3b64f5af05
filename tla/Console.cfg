SPECIFICATION MCSpec
CONSTANTS
  Streams <- MCStreams
  fb_Bpp = 4
  fb_depth = 3
  Chunks = {1, 2, 3, 5, 8, 13, 21}
  RQMax = 40
  MaxSessions = 2
  Sizes <- MCSizes
  ClearSize <- MCClearSize
  Windows <- MCWindows
  Drags <- MCDrags
  MaxPending = 1
  MaxSizes = 2
  KeyCodes = {13, 16, 17, 65, 219}
  Shift = 16
  Ctrl = 17
  DeadKey = 219
  Typed <- MCTyped
  ListMax = 3
  Buttons = {"left", "right"}
  Wheel = "up"
  ArrMax = 2
  PageSettings = {"clip", "cursor", "path"}
  CursorUri = TRUE
  Files <- MCFiles
  Asker = "websock.js"
  Nested <- MCFlash
  SettingType <- MCType
  SettingDefault <- MCDefault
  RfbDefault <- MCRfbDefault
  PageDefault <- MCPageDefault
  Queries <- MCQueries
  Texts = {"", "9"}
  Numbers = {"2", "9", "15"}
  LowerCase <- MCLowerCase
  Passwords <- MCPasswords
  Challenges <- MCChallenges
INVARIANTS
  StreamKept
  InOrder
  EveryPixelComes
  Remembered
  PointerTold
  PanelsAndModes
  Inflated
  SameWords
  PixelsAgree
  Accepted
  StartsOnce
  Configured
PROPERTIES
  Shown
CHECK_DEADLOCK FALSE
