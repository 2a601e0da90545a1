SPECIFICATION BadgeSpec
CONSTANTS
  v = v
  w = w
  left = left
  right = right
  Video = {v, w}
  Place = {left, right}
  NoVideo = NoVideo
  OutOfView = OutOfView
INVARIANTS OnlyInItsMode BadgesMatchVideos
PROPERTIES BadgeGoes
CHECK_DEADLOCK FALSE
