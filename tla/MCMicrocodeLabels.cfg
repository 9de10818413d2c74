SPECIFICATION Spec
CONSTANTS
  Stoi <- MCStoi
  LabelKey <- MCLabelKey
  WithEof <- MCWithEof
  Leftover <- MCLeftover
  Texts <- MCTexts
  Args <- MCArgs
  MaxTokens = 20
  Els = 4
INVARIANT LabelsAreAddresses
CHECK_DEADLOCK FALSE
