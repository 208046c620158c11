CONSTANTS
  tty_width = 2
  tty_height = 2
  Base = 2
  NumBufferSize = 5
  ByteBase = 2
  Powers <- PowersOf2
  Texts <- KernelTexts
  SyscallTexts <- ProgramTexts
  MaxCalls = 2
  MaxSyscalls = 2
SPECIFICATION Spec
INVARIANTS StaysInBuffers  CursorShown
CHECK_DEADLOCK FALSE
