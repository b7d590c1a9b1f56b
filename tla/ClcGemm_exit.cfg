CONSTANT Kernels <- OverlappedKernel
SPECIFICATION Spec
INVARIANT PeerStaysForArrivals
