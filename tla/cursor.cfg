SPECIFICATION PointerSpec
CONSTANTS
  Width = 3
  Height = 3
  Top = 1
  Sprite <- MCSprite
  SpriteW = 2
  SpriteH = 2
  Packets <- MCPackets
  Lines <- MCLines
  Regions <- MCRegions
  Track <- MCTrack
  Boxes <- MCBoxes
  Marker <- MCMarker
  MaxDraws = 4
INVARIANT NoGhost
CHECK_DEADLOCK FALSE
