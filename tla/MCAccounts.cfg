SPECIFICATION MCSpec
CONSTANTS
    ann = ann bob = bob None = None
    u1 = u1 u2 = u2 c1 = c1 c2 = c2
    Nobody = Nobody
    parts = {"accounts", "contacts", "autoDelete", "devices", "notices"}
    Person = {ann, bob}
    First = ann
    Request = {u1, u2}
    MaxSessions = 3
    MaxKeys = 3
    MaxIndex = 2
    MaxPasskeys = 3
    Life = 2
    Bounds <- MCBounds
    User = {u1, u2}
    Call = {c1, c2}
    Side = {u1, u2}
    Days = {1, 2}
    CapDays = 3
    Device = {u1, u2}
    MaxDevices = 1
SYMMETRY Alike
INVARIANTS
    EndedHasACause
    HandleIsOneOwners
    ContactsInOrder
    AutoDeleteInOrder
    DevicesInOrder
    NoticesInOrder
CHECK_DEADLOCK FALSE
