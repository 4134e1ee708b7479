SPECIFICATION Spec
CONSTANTS
  ArgumentLists <- MCArgumentLists
  Findings <- MCFindings
  Nolints <- MCNolints
  MAX_FILES = 2
  MAX_LINES = 1
  MAX_REPORTS = 2
INVARIANTS TypeOK PrintedAreVisible CountsAgree ExitStatus
