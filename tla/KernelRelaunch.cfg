SPECIFICATION BootSpec
CONSTANTS
    Kernels = {k1, k2}
    NoKernel = NoKernel
PROPERTY
    Relaunches
CHECK_DEADLOCK FALSE
