\* A device that lets one allocation take all of its global memory
\* (MaxMemAllocSize = GlobalMemSize, as AMD drivers report with
\* GPU_MAX_ALLOC_PERCENT=100): SetDevicePortion allocates no scratch buffer.
CONSTANTS
    Tasks = {t1, t2}
    GlobalMemSize = 12
    MaxMemAllocSize = 12
    DeviceErrors = FALSE

SPECIFICATION Spec

INVARIANT ScratchAvailable
