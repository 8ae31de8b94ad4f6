\* Items that arrive between a download's query and its record.
SPECIFICATION Spec
CONSTANTS
    MaxRowid = 2
    Requests = {r1}
    Nobody = Nobody
    Threshold = 2
    Keep = 1
    MaxTime = 1
INVARIANT ReminderDue
