SPECIFICATION Spec
CONSTANTS
  Screens = {s1, s2}
  AppControllers = {c1, c2}
  NoController = none
  Kinds = {"home", "videoNews", "search", "account", "video", "article", "category"}
  MaxDepth = 2
SYMMETRY Symmetry
INVARIANTS
  TypeOK
  LoadedBannerShown
  BrokenBuildHasCause
  GoneBannersFreed
