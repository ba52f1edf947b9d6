\* Three tasks share the scratch buffers of one device.  GlobalMemSize 12 and
\* MaxMemAllocSize 3 give SetDevicePortion two scratch buffers, so the
\* ScratchQueue fills and buffers are handed from task to task.  A kernel may
\* end with an error status, which the callback turns into an exception.
CONSTANTS
    Tasks = {t1, t2, t3}
    GlobalMemSize = 12
    MaxMemAllocSize = 3
    DeviceErrors = TRUE

SPECIFICATION Spec

PROPERTY
    StopCompletesTasks
