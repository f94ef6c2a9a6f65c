SPECIFICATION FairSpec
CONSTANTS
  Firmwares = {"new", "old"}
  ImageSize <- Sizes
  Messages <- Few
  Upgrade <- Again
  Factory = "old"
  Platforms = {"esp32", "esp8266"}
  Enabled = {TRUE}
  None = None
PROPERTIES TransferEnds RetrySucceeds
