CONSTANTS
    Members <- MCMembers
    MaxMembers = 3
SPECIFICATION Spec
INVARIANT IntsAligned
