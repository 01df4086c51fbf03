CONSTANT MaxQuotes = 3
SPECIFICATION Spec
INVARIANT EmbeddedJsonKept
