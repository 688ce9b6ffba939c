SPECIFICATION Spec
CONSTANTS
  WordMod = 256
  Alphabet <- MCAlphabet
  Strings <- MCStrings
  Chars <- MCChars
  Calls <- MCCalls
INVARIANTS
  RendersCall
  CountExact
