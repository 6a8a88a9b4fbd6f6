SPECIFICATION Spec
CONSTANTS
  Fds = {f1, f2}
  NoFd = nofd
  MaxConnections = 3
  MaxMessages = 4
SYMMETRY FdSymmetry
INVARIANTS
  TypeOK
  RepliesAreTheirs
  OpenClientsAreFound
  NoMoreAfterClose
\* The application may crash the process, and the bounds end the run.
CHECK_DEADLOCK FALSE
