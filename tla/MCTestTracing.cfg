SPECIFICATION Spec
CONSTANTS
  Tests = {"test", "child", "other"}
  Functions = {"f", "g", "h"}
  Main = "main"
  ParentTest <- MCParentTest
  Programs <- MCPrograms
  Forms <- MCForms
INVARIANTS VerdictStands SpanCoversFunction OriginsTraced
CHECK_DEADLOCK FALSE
