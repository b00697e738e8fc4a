SPECIFICATION Spec
CONSTANTS
  NONE = NONE
  BAD = BAD
  StatusForms <- Statuses
  ResponseForms <- Responses
  ExtensionForms <- ExtensionLists
  OptionForms <- OptionLists
  CallForms <- CallArguments
  MaxCalls = 3
INVARIANT MissingCodeIsError
