SPECIFICATION Spec
CONSTANTS
  Handlers = {h1, h2}
  MaxRoutes = 6
  Chips = {c1, c2, c3}
  FirstChip = c1
  NoArticles = no_articles
  MaxFeed = 3
  Languages = {en, id}
  Nothing = nothing
  MaxNews = 4
  MaxUpdates = 3
  Videos = {v1, v2}
  Buttons = {like}
  MaxShown = 2
  MaxVideoCalls = 3
SYMMETRY Symmetry
INVARIANTS
  PartsTypeOK
  NavigatorKeepsAScreen
  OfflineIsShown
  LateUseOnlyByLinks
  FeedMatchesChip
  NewsInLanguage
  ProfileFollowsDevice
  VideoMarksTrue
