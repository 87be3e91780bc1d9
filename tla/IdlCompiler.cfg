\* Families of files: field lists, pairs of definitions, constants, includes.
SPECIFICATION Spec
CONSTANTS
  Inputs <- MCInputs
  KeyRange = 8
  MaxDepth = 4
  KnownTargets = {"cpp", "java", "go"}
INVARIANTS
  TypeOK
  StructsWellFormed
  ReferencesMeanTheirDefinition
  ConstantsMeanTheirDefinition
  TargetsSeeTheSource
PROPERTIES
  ValidInputsAreCompiled
CHECK_DEADLOCK FALSE
