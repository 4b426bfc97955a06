SPECIFICATION Spec
CONSTANTS
  CommandLines <- MCCommandLines
  UsualLine <- MCUsualLine
  Keys <- MCKeys
  NoNumber <- MCNoNumber
  Words <- MCWords
INVARIANTS
  ParametersAreValid
  AttachedOrSeparate
  RatesAgree
  KeyIsDecoded
CHECK_DEADLOCK FALSE
