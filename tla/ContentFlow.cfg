SPECIFICATION ContentSpec
CONSTANTS
    Nothing = Nothing
    Languages = {"hi", "fr"}
    DaySlots = 24
    ScanSlots = 26
    Windows <- MCWindows
    Shifts <- MCShifts
    QuietTypes = {"RISK-001", "SIPX-001"}
    MaxSms = 160
    SmsLengths <- MCSmsLengths
    Channels = {"SMS", "EMAIL"}
    Stored <- MCStored
CHECK_DEADLOCK FALSE
INVARIANTS
    ConsumedAsProduced
    AdmittedRenders
    MandatoryIsTransactional
    QuietHoursKept
