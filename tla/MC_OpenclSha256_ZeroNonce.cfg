\* One task; the first work range starts at nonce 0, as GetWork hands it out.
CONSTANTS
    NTasks = 1
    NSlots = 2
    Npar = 2
    Start = 0
    MaxRounds = 1
    DeviceErrors = FALSE
SPECIFICATION Spec
INVARIANT ReportedShareSubmitted
