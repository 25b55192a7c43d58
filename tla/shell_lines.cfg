SPECIFICATION Spec
CONSTANTS
  kCommandPromptLengthMax = 6
  kCommandArgMax = 3
  kCommandsMax = 2
  Names <- ThreeNames
  Letters = {"a", "b"}
  MaxLine = 8
INVARIANT TypeOK
PROPERTY ExecutesTypedLine
