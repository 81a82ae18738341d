SPECIFICATION Spec
INVARIANTS
  AnswerKept
PROPERTIES
  ChatsSettle
  ImplementsView
  SessionsSettle
CHECK_DEADLOCK FALSE
