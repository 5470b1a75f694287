CONSTANT MaxLen = 12
INIT Init
NEXT Next
INVARIANT ServiceURLNeverPanics
