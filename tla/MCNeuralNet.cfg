SPECIFICATION PartSpec
CONSTANTS
  Pixels <- TestPixels
  MaxResets = 1
INVARIANTS ResultOfOnePixel NeverBoth
PROPERTIES ClickFollowsVerdict
