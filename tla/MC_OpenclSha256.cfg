\* Two tasks on the shared queue, two result slots, three nonces a round,
\* three rounds per task; kernels may fail.  The ranges start at nonce 1:
\* the drop of nonce 0 is the run opencl_sha256_zero_nonce.
CONSTANTS
    NTasks = 2
    NSlots = 2
    Npar = 3
    Start = 1
    MaxRounds = 3
    DeviceErrors = TRUE
SPECIFICATION Spec
PROPERTY ImplementsMinerRounds
