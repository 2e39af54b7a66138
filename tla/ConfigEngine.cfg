CONSTANTS
    Threads <- Three
    Names = {"f", "g"}
    Devices = 2
    Width = 1
    Height = 2
    Size <- Cells_
    Policies <- AllPolicies
    Calls <- Roles
    MaxCalls = 2
    MaxAddress = 6
SPECIFICATION Spec
INVARIANT LockDiscipline
INVARIANT ExecutesMapped
INVARIANT TablesAgree
INVARIANT OneCopyWhenReused
INVARIANT OnlyRemovalsThrow
INVARIANT SomeoneGoesOn
