SPECIFICATION Spec
CONSTANTS
  Screens = {s1, s2}
  AppControllers = {c1, c2}
  NoController = none
  Kinds = {"home", "video", "search"}
  MaxDepth = 2
PROPERTY SearchFlagForSearch
