CONSTANTS
    MaxNotifications = 2
    MaxRecords = 2
    SDKBuffer = 1
    EventNames = {"put", "delete", "get"}
    Objects = {"", "photos/"}
    PrefixValues = {"", "2016/"}
SPECIFICATION Spec
INVARIANT TypeOK
INVARIANT EventsFaithful
PROPERTY NotificationsForwarded
CHECK_DEADLOCK FALSE
