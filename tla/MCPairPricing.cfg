CONSTANTS
  Word = 4
  Denominator = 3
  Base = 2
  Precision = 2
  Protocol <- MCProtocols
  Amount = {0, 1, 2, 3}
  QuoteAmount = {0, 1, 3}
  Places = {0, 3}
  FewA = {0}
  FewB = {1}
  SqrtPrice = {0, 1, 3, 8}
  SqrtOne = 2
  BinPrice = {1, 6}
  Time <- MCTime
  Degradation = {0, 1, 2}
  Worth = {0, 2}
  SupplyAmount = {0, 3}
  CurvePlaces = 1
SPECIFICATION Spec
INVARIANTS
  NoPanic
  WithinHoldings
  SharesConserved
  PriceAccurate
  TwoSidedPools
  ValuesAgree
