SPECIFICATION Spec
CONSTANTS
  c1 = c1 c2 = c2 h1 = h1 h2 = h2 g1 = g1 g2 = g2
  Convs = {c1, c2}
  Handlers = {h1, h2}
  Groups = {g1, g2}
  MaxTopics = 2
  NoGroup = NoGroup
  NoConv = NoConv
  Asks = {a1, a2}
  MaxTurns = 2
  MaxAsked = 3
  Shops <- SomeShops
  Keywords <- Wishes
  Cities <- Towns
  Tags <- SomeTags
INVARIANTS TopicsKeptApart AnswersFindTheirWay PreviewIsNewest SessionIsRecent
SYMMETRY Alike
CHECK_DEADLOCK FALSE
