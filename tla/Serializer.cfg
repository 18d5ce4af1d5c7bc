SPECIFICATION SerSpec
CONSTANTS
  Benches <- HyperProtoBench
  Builds <- HyperProtoBuilds
  Inputs <- HyperProtoInputs
  ShortLen = 5
  Garbage = {0}
INVARIANTS WalkInStep UploadFilled ParseRecovers CardTakesField CardUsesBuffers
