\* lab1.asm for all pairs of short strings, functions_adv.asm for small
\* numbers.
CONSTANTS
  Strings <- MCStrings
  Numbers <- MCNumbers
  WordSize = 32
  Top = 12
SPECIFICATION FairSpec
INVARIANTS
  FramesIntact
  ReturnsToCaller
  FirstMatchIsRight
  FactIsRight
PROPERTY Ends
CHECK_DEADLOCK FALSE
