SPECIFICATION Spec
CONSTANTS
  HEXA_OLED_WIDTH = 7
  HEXA_OLED_HEIGHT = 16
  Font <- MCFont
  BaseFrames <- MCBaseFrames
  Xs <- MCXs
  Ys <- MCYs
  Sizes <- MCSizes
  Radii <- MCRadii
  Pictures <- MCPictures
  Texts <- MCTexts
  Cuts = {5, 14}
  MaxCuts = 2
INVARIANTS
  TypeOK
  LinesExact
  RectsExact
  CirclesExact
  PicturesExact
  
