SPECIFICATION Spec
CONSTANTS
  File <- Files
  MaxFiles = 2
  Environment <- Environments
  None = None
  Outcome <- Outcomes
  MaxLines = 3
  Reported <- Metadatas
  Delimiter <- Delimiters
  Version <- TheVersion
INVARIANTS
  TemplateLoads
