SPECIFICATION Spec
CONSTANTS
  Firmwares = {"new", "old"}
  ImageSize <- Sizes
  Messages <- Many
  Upgrade <- Again
  Factory = "old"
  Platforms = {"esp32", "esp8266"}
  Enabled = {TRUE, FALSE}
  None = None
INVARIANTS TypeOK WrittenInOrder UpdaterReleased StagedIsAnnounced StagedIsLeftAlone
  LastStatusIsTold
PROPERTIES ForeignUntouched NeverResumed
