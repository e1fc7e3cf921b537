SPECIFICATION Spec
CONSTANTS
  t1 = t1
  t2 = t2
  w1 = w1
  w2 = w2
  Texts <- MCTexts
  FirstText <- t1
  Words <- MCWords
  WordsIn <- MCWordsIn
  NoText = NoText
  NoWord = NoWord
  MaxEvents = 3
INVARIANTS Inv
PROPERTIES PageReachesApp HoverSettles
CHECK_DEADLOCK FALSE
