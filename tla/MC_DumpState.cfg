SPECIFICATION Spec
INVARIANT DumpWritesInBuffer
