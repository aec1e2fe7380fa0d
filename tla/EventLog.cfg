SPECIFICATION EitherSpec
CONSTANTS
    s1 = s1
    s2 = s2
    Sessions = {s1, s2}
    Kinds <- MCKinds
    Payloads <- MCPayloads
    NewPayloads = {"new"}
    OldTables <- MCOldTables
    OldTranscripts <- MCOldTranscripts
    NoDigest = NoDigest
    None = None
    MaxRows = 3
    MaxCrashes = 2
    ByHand <- MCByHand
    BySetup <- MCBySetup
    Environment <- MCEnvironment
    Programs = {"github"}
    Writers = {"w1", "w2"}
    MaxEdits = 1
    Starters = {2, 3}
    OldSessions <- MCOldSessions
    Broken = {0}
    GuestsOf <- MCGuestsOf
    Components <- MCComponents
    Limit = 2
    MaxStarts = 3
INVARIANTS DigestsTrue EarlierSessionsSeen
\* These hold as well; they can be checked in place of the ones above.
\* INVARIANTS Gapless EditsAreNoticed ConvertedOnce LaunchTypes ReplayWholeTurns ConfigIsWhole AuditForetells TypeOK ChainIntact ForkIsPrefix
\* PROPERTIES AppendOnly
