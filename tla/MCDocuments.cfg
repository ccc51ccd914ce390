CONSTANTS
  Affix <- MCAffix
  AffixAnyCase <- MCAffixAnyCase
  Id <- MCId
  Key <- MCKey
  Value <- MCValue
  Filter <- MCFilter
  Condition <- MCCondition
  FilterDepth <- MCFilterDepth
  ConditionDepth <- MCConditionDepth
  Page <- MCPage
  None = None
  MaxMade = 2
SPECIFICATION Spec
INVARIANTS DocumentsTypeOK SameDocuments SelectsMeant
CHECK_DEADLOCK FALSE
