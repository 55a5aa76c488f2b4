SPECIFICATION Spec
CONSTANTS
    Scripts <- MCScripts
    BufferSize = 13
    KeepaliveMaxConn = 3
PROPERTIES
    ReadsMoreBeforeGivingUp
