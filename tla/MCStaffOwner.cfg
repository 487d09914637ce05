\* Two owners remove each other.
CONSTANTS
    Owners = {ann, bob}
    FirstOwners = {ann, bob}
    Flags = {schedule}
    MaxClicks = 1
    MaxReloads = 2
SPECIFICATION StaffSpec
PROPERTY NeverTheLastOwner
CHECK_DEADLOCK FALSE
