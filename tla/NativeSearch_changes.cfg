CONSTANTS
    Entries <- MCEntries
    Type <- MCType
    Hidden <- MCHidden
    Rulesets <- MCRulesets
    Requests <- MCRequests
    Contents = {0, 2}
    MaxChanges = 1
    None = None
SPECIFICATION Spec
INVARIANTS TypeOK CompleteIsComplete PolicyIsCurrent LimitIsProven AcceptedByClient
    ReadIsAllOrNothing
