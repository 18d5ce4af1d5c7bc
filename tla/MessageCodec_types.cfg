SPECIFICATION Spec
CONSTANTS
  Benches <- Programs
  Builds <- ProgramBuilds
  Inputs <- ProgramInputs
  ShortLen = 5
  Garbage = {45}
INVARIANTS RegistrationKept LengthsExact PrefixExact BuffersPartition ParseRecovers
