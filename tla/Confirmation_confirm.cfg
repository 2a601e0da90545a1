SPECIFICATION Spec
CONSTANTS
  Url = {"file", "list", "video"}
  NoUrl = NoUrl
  HasName = {"file", "list", "video"}
  Site <- MCSite
  Kind <- MCKind
  Served <- MCServed
  Bypass <- MCBypass
  Typed = {"file", "list"}
  Choices = {"Auto", "HLS"}
  Payloads <- MCPayloads
  Copies = 1
  MaxEdits = 2
  MaxProbes = 2
INVARIANTS CookiesAsRuled PickedFolderKept 
PROPERTIES Checked
CHECK_DEADLOCK FALSE
