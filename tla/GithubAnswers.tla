---------------------------- MODULE GithubAnswers ---------------------------
(***************************************************************************)
(* What the integrations make of GitHub's answers                          *)
(* (backend/src/integrations: the clients, github-answer, the three type   *)
(* strategies and their services, integration-errors): pure operators from *)
(* a response to the result of a validation or of a connection test.       *)
(*                                                                         *)
(* A response is its status (0 stands for none at all: a timeout, a broken *)
(* connection or a redirect; 500 for any status that the code does not     *)
(* name), whether a header of it tells of a rate limit (none remaining, or *)
(* Retry-After), and what its body comes to: "good", unreadable ("bad"),   *)
(* or one of the ways in which a readable body is not good enough.         *)
(***************************************************************************)
EXTENDS Naturals, FiniteSets

Status == {0, 200, 201, 401, 403, 404, 429, 500}

\* The statuses that the code behind each call tells apart.
Statuses(call) ==
    {0, 403, 429, 500} \cup
    CASE call \in {"user", "page"} -> {200, 401}
      [] call = "exchange"         -> {200}
      [] call = "lookup"           -> {200, 404}
      [] OTHER                     -> {201, 404}

\* The bodies of each call.
Bodies(call) ==
    CASE call = "user"     -> {"good", "noScope", "odd", "bad"}
      [] call = "exchange" -> {"good", "odd", "badCode", "bad"}
      [] call = "page"     -> {"good", "bad"}
      [] call = "lookup"   -> {"good", "foreign", "suspended", "noPerms", "bad"}
      [] OTHER             -> {"good"}

Body == {"good", "noScope", "odd", "badCode", "foreign", "suspended",
         "noPerms", "bad"}

Response == [status: Status, limit: BOOLEAN, body: Body]

\* Only an exchange looks at the body of a failure.
ResponsesTo(call) ==
    {r \in Response : /\ r.status \in Statuses(call) /\ r.body \in Bodies(call)
                      /\ r.limit => r.status \in {403, 429}
                      /\ r.status # 200 => \/ r.body = "bad"
                                           \/ call = "exchange" /\ r.status # 0
                                           \/ call = "mint"}

\* rateLimitFields and isRateLimited.
IsRateLimited(r) == r.status \in {403, 429} /\ r.limit

\* The domain errors; the first four count toward the cool-off.
CountsTowardCoolOff(e) ==
    e \in {"invalid", "permissions", "inaccessible", "suspended"}

DomainError == {"invalid", "permissions", "inaccessible", "suspended",
                "rateLimited", "unavailable"}

-----------------------------------------------------------------------------
(* GET /user.                                                              *)

\* classifyGithubUser, and fetchGithubUser's answer to no response.
ClassifyUser(r) ==
    CASE r.status = 200 /\ r.body # "bad" -> "ok"
      [] r.status = 401                   -> "unauthorized"
      [] IsRateLimited(r)                 -> "rate_limited"
      [] OTHER                            -> "unavailable"

\* validationErrorFor.
UserError(kind) ==
    CASE kind = "unauthorized" -> "invalid"
      [] kind = "rate_limited" -> "rateLimited"
      [] OTHER                 -> "unavailable"

\* hasRequiredPermissions and hasRequiredScope.
HasScope(r) == r.body # "noScope"

\* Mutant: only the connection test looks at the scopes.
IdentifyAnyScope(r) ==
    IF ClassifyUser(r) # "ok" THEN UserError(ClassifyUser(r)) ELSE "ok"

\* The PAT's validate and the OAuth App's identify.
Identify(r) ==
    IF ClassifyUser(r) # "ok" THEN UserError(ClassifyUser(r))
    ELSE IF HasScope(r) THEN "ok" ELSE "permissions"

\* The connection test of both; past tells whether the token's known expiry
\* is past, which only PATs have.
TestUser(r, past) ==
    LET kind == ClassifyUser(r) IN
    CASE kind = "ok"           -> IF HasScope(r) THEN "active" ELSE "invalid"
      [] kind = "unauthorized" -> IF past THEN "expired" ELSE "invalid"
      [] OTHER                 -> "transient"

\* The GitHub App's loginOf, which also checks the login's shape.
LoginOf(r) ==
    IF ClassifyUser(r) # "ok" THEN UserError(ClassifyUser(r))
    ELSE IF r.body = "odd" THEN "unavailable" ELSE "ok"

-----------------------------------------------------------------------------
(* The exchange of a code, and the pages of installations.                 *)

\* Both exchanges: a token comes with status 200 and has the app's prefix.
ExchangedToken(r) == r.status = 200 /\ r.body = "good"

\* A token that came otherwise is revoked.
CarriesToken(r) == r.body \in {"good", "odd"}

\* errorFor and exchangeErrorFor.
ExchangeError(r) ==
    CASE IsRateLimited(r)                     -> "rateLimited"
      [] r.status = 200 /\ r.body = "badCode" -> "invalid"
      [] OTHER                                -> "unavailable"

\* fetchPage and pageErrorFor.
PageOf(r) ==
    CASE r.status = 200 /\ r.body = "good" -> "ok"
      [] r.status = 401                    -> "invalid"
      [] IsRateLimited(r)                  -> "rateLimited"
      [] OTHER                             -> "unavailable"

\* pickInstallation: an installation, "several", or the error.
PickInstallation(listed, claimed, none) ==
    IF claimed # none
      THEN IF claimed \in listed THEN claimed ELSE "inaccessible"
      ELSE CASE Cardinality(listed) = 0 -> "inaccessible"
             [] Cardinality(listed) = 1 -> CHOOSE i \in listed : TRUE
             [] OTHER                   -> "several"

-----------------------------------------------------------------------------
(* The installation itself, asked with the app's own key.                  *)

ClassifyFailure(r) ==
    CASE r.status = 404   -> "not_found"
      [] IsRateLimited(r) -> "rate_limited"
      [] OTHER            -> "unavailable"

ClassifyLookup(r) ==
    IF r.status # 200 THEN ClassifyFailure(r)
    ELSE CASE r.body = "bad"       -> "unavailable"
           [] r.body = "foreign"   -> "not_found"
           [] r.body = "suspended" -> "suspended"
           [] r.body = "noPerms"   -> "insufficient_permissions"
           [] OTHER                -> "ok"

\* Mutant: every 403 is taken for a suspension.
ClassifyMintBlunt(r) ==
    CASE r.status = 201 -> "ok"
      [] r.status = 403 -> "suspended"
      [] OTHER          -> ClassifyFailure(r)

ClassifyMint(r) ==
    CASE r.status = 201                       -> "ok"
      [] r.status = 403 /\ ~IsRateLimited(r)  -> "suspended"
      [] OTHER                                -> ClassifyFailure(r)

\* verify's errors for a check.
VerifyCheck(check) ==
    CASE check = "ok"                       -> "ok"
      [] check = "not_found"                -> "inaccessible"
      [] check = "suspended"                -> "suspended"
      [] check = "insufficient_permissions" -> "permissions"
      [] check = "rate_limited"             -> "rateLimited"
      [] OTHER                              -> "unavailable"

\* probe's outcome for a check.
ProbeCheck(check) ==
    CASE check = "ok" -> "active"
      [] check \in {"not_found", "suspended", "insufficient_permissions"} ->
           "invalid"
      [] OTHER -> "transient"
=============================================================================
