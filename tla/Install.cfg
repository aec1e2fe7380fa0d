SPECIFICATION EitherSpec
CONSTANTS
    Builds = {b1, b2}
    Signed = {b1}
    Fits <- MCFits
    Calls = {c1, c2}
    Ways <- MCWays
    ToolCalls = {c1}
    Removes = {r1}
    None = None
INVARIANTS LandedAsChecked ComponentHasItsManifest VerifiedIsServed CompletionIsWhole
CHECK_DEADLOCK FALSE
\* These hold as well; they can be checked in place of the ones above.
\* INVARIANTS InlineIsSure ProviderTypes NoStreamLeft NothingUnsaid TypeOK ChainAsConfigured RuntimeTypes RefusalLeavesNothing
\* PROPERTIES GateKeepsItsOrder InstalledBecomesCallable
