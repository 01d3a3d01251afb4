SPECIFICATION Spec
CONSTANTS
  Ids = {1, 2}
  MaxOthers = 2
  MaxSession = 2
  Movable = {"web", "api"}
  Pinned = {"agent"}
  Modes = {TRUE, FALSE}
  Menus = {{"taint", "untaint", "cordon"}, {"cordon", "drain"}, {"approve", "deny"}, {"scale", "pause", "apply"}, {"restart", "setimage", "undo"}, {"suspend", "trigger", "label"}, {"delete"}, {"exec"}}
INVARIANTS  DrainFenced
PROPERTIES  WritesAreAtomic
CHECK_DEADLOCK FALSE
