SPECIFICATION Spec
CONSTANTS
  Letters <- MCLetters
  SPACE = " "
  commands <- MCCommands
  TERMINAL_INPUT_SIZE = 5
  PROMPT_STRING <- MCPrompt
  PROMPT_START_Y = 0
  COLUMNS = 5
  ROWS = 3
  LINES = 3
INVARIANTS
  TypeOK
  CursorInStep
  PromptOnScreen
  LineShown
  StringsFit
  AliasesDistinct
  BlocksAccounted
