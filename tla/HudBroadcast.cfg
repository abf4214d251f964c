SPECIFICATION HudSpec
CONSTANTS
  Ask = {a1, a2}
  Job = {"ask", "transcribe"}
  Hud = {h1, h2}
  NoHud = NoHud
  MaxSubscribers = 1
  MaxEvents = 4
  Silence = TRUE
  LatePage = TRUE
SYMMETRY Symmetric
CHECK_DEADLOCK FALSE
INVARIANT NoneMissed
INVARIANT ShowsLatest
INVARIANT RestIsFinal
