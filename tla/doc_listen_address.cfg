SPECIFICATION Spec
CONSTANTS
    Lines <- MCLines
    MaxLines = 3
    Digits <- MCDigits
    Numeric = {"192.168.17.140", "127.0.0.1"}
    Resolved = {"ftp.host"}
    NONE = "NONE"
CHECK_DEADLOCK FALSE
INVARIANTS ListensAsConfigured
