SPECIFICATION LiveSpec
CONSTANTS
    Null = Null
    Canary = {"navigation", "cookie_preferences", "safe_fill", "safe_fill_deny", "preference_safe_fill", "phone_contract", "continue", "diagnostic", "profile_v2", "live_inspection", "verified_session"}
    MaxDrifts = 2
INVARIANTS ReportsCoverEffects RouteFollowsLastLook ManifestNeedsCleanEntry
PROPERTIES ApplyOnFreshLook ProfileWrittenOnReviewedForm ContinueOnVerifiedForm EntryStaysFenced
CHECK_DEADLOCK FALSE
