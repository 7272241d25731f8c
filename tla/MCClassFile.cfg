\* Parsing and the run-time constant pool over the files of MCClassFile.
CONSTANT
  Files <- MCFiles
SPECIFICATION Spec
INVARIANTS
  InStep
  PoolsAgree
  ConstantsExact
\* Parse ends
CHECK_DEADLOCK FALSE
