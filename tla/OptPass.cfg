\* Every target of three small files.
CONSTANTS
  Callee = {"main_closure", "thread_spawn", "send", "lock"}
  Programs <- SmallPrograms
SPECIFICATION Spec
INVARIANTS
  TypeOK
  BuildsAgree
  NumbersIdentify
  LastRowNamesSite
