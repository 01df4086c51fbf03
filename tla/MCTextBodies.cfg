CONSTANT MaxQuotes = 3
SPECIFICATION Spec
INVARIANTS TypeOK Intact NeverRequoted 
