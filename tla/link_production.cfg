SPECIFICATION Spec
CONSTANTS
    Texts <- MCTexts
    None = "none"
    Shown <- MCShown
    Clash <- MCClash
    Volatile <- MCVolatile
    Stderr = FALSE
INVARIANT Idempotent
