SPECIFICATION Spec
CONSTANTS
    Episodes = {e1, e2}
    MaxAlerts = 3
    LastDay = 0
    MaxReports = 3
    MaxRestarts = 1
    MaxErrors = 0
INVARIANT DismissedStayOnRecord
