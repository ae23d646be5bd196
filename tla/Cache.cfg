\* Two runs, two releases with their own prompts, and
\* research that lives for two ticks.
CONSTANTS
  Runs = {r1, r2}
  TTL = 2
  Prompts = {p1, p2}
  p1 = p1
  p2 = p2
  PromptOf <- MCPromptOf
  LastRelease = 2
SYMMETRY MCSymmetry
SPECIFICATION Spec
INVARIANTS IntermediatesExpire DrainedBumpIsClean DeckMatchesPrompt
