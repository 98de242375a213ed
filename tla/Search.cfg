CONSTANTS
  c1 = c1
  c2 = c2
  c3 = c3
  w = w
  text = text
  code = code
  terminal = terminal
  Contents = {c1, c2, c3}
  Tokens = {w}
  Categories = {text, code}
  Apps = {terminal}
  TokensOf <- MCTokensOf
  CategoryOf <- MCCategoryOf
  AppOf <- MCAppOf
  NoClip = NoClip
  NoApp = NoApp
  NoFilter = NoFilter
  MaxLimit = 2
  FetchCap = 2
  EastOffset = 2
  MaxId = 3
  MaxTime = 3
  Asked <- MCAsked
  Limits = {0, 1, 2}
  MaxFavorites = 1
SPECIFICATION RSpec
SYMMETRY Symmetry
INVARIANTS ShortMeansAll NothingBetterLeftOut RecentIsNewest
PROPERTIES FavoritesStay OldestGoFirst
