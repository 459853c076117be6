\* Amounts in fifths of a cent; at most two warnings for at most three lines,
\* as in the code more lines than warnings are allowed.
CONSTANTS
    Extracted <- MCExtracted
    Corrections <- MCCorrections
    Typed <- MCTyped
    None = None
    Cent = 5
    Percent = 10
    Step = 5
    Tolerance = 2
    MaxLines = 3
    MaxWarnings = 2
SPECIFICATION Spec
INVARIANT WarningsNeverBlock
