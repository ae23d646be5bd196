CONSTANTS
  Answers <- MCAnswers
  MaxTitle = 8
  MaxBullets = 4
  MinBullets = 2
  MaxWords = 8
  MaxHighlight = 15
  MaxSubtitle = 10
  DenseWords = 30
  DataWords = 6
  TitleLimit = 8
  BulletLimit = 4
  WordLimit = 8
  Sections = {"s1", "s2"}
  Types = {"title", "content", "chart"}
  MaxTemplate = 5
  TextSizes = {0, 1800, 30001}
SPECIFICATION MCSpec
INVARIANTS DeckIsPresentable RepairedDeckIsAccepted PlanFollowsTemplate PromptFits
PROPERTIES BulletsSurvive RefinementPays
\* A deck that is scored and a prompt that is written end the behaviour.
CHECK_DEADLOCK FALSE
