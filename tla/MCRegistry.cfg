CONSTANTS
  Names = {"a", "b", "c", "ghost"}
  Files = {"fa", "fb", "fc", "outside"}
  Unsafe = {"outside"}
  NoName = NoName
  Registries <- MCRegistries
SPECIFICATION Spec
INVARIANTS DependenciesFirst WalkIsExact CheckedRegistryAdds InstallsClosure
