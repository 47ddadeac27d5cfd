SPECIFICATION Spec
CONSTANTS
  Screens = {s1, s2}
  AppControllers = {c1, c2}
  NoController = none
  Kinds = {"home", "article"}
  MaxDepth = 2
SYMMETRY Symmetry
INVARIANT ArticleBannerThere
