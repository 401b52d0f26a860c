SPECIFICATION AuthoringSpec
CONSTANTS
    Scheme <- MCScheme
    Org = "org"
    Changes = {"c1", "c2"}
    Publications = {"p"}
    Scopes = {"one", "two"}
    Owners <- MCOwners
    Admins = {"amy"}
    Proposals <- MCProposals
    Calls <- MCCalls
    GovernancePolicies <- MCGovernancePolicies
    GovernanceBindings <- MCGovernanceBindings
    MaxApplyAttempts = 2
    MaxGovernance = 1
    MaxCrashes = 1
INVARIANTS
    ChangesAreApproved
    OneWinnerPerVersion
    PlansFollowTheRules
CHECK_DEADLOCK FALSE
