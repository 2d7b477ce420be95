CONSTANTS
    Server = {a, b, c}
    None = None
    virtualNodeNum = 1
    MaxPos = 3
SPECIFICATION Spec
INVARIANTS RingMatchesMembers BackupsFormACycle
PROPERTIES DeleteMovesOnlyItsKeys AddMovesOnlyToIt
