SPECIFICATION Spec
INVARIANTS
  ShownIsSo
PROPERTIES
  LinkRecovers
  EndsCome
CHECK_DEADLOCK FALSE
