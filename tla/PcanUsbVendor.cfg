\* The vendor request against the comment that says what it does.
CONSTANTS
    MaxTransfers = 2
    MaxResets = 1
SPECIFICATION Spec
PROPERTY VendorResets
