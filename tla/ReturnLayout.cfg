CONSTANTS
    Members <- MCMembers
    MaxMembers = 4
SPECIFICATION Spec
INVARIANTS
    TypeOK
    FieldsInOrder
    BitfieldsInUnit
    PlainIntsFit
    MembersPlaced
    AssignmentExact
