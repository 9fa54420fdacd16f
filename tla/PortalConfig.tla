----------------------------- MODULE PortalConfig ------------------------------
(***************************************************************************)
(* The portal's configuration (portal_server/config.py load_config), the   *)
(* production check of ops/prodcheck.py and the readiness probe of app.py, *)
(* three places that judge the same environment.  An environment is a      *)
(* record of the variables, each abstracted to the values the code tells   *)
(* apart; it is an ideal production environment in which a few variables   *)
(* deviate.                                                                *)
(***************************************************************************)
EXTENDS Naturals, FiniteSets

CONSTANT MaxDeviations  \* bound on the variables that differ from the ideal

ASSUME PortalConfigConstants == MaxDeviations \in Nat

VARIABLES
    penv,     \* the environment variables
    config,   \* what load_config returned, or NotLoaded / Rejected
    verdict,  \* status of run_production_check: "none", "PASS", "WARN", "FAIL"
    ready     \* what the readiness probe answered: "none", "ready", "not_ready"

pcvars == <<penv, config, verdict, ready>>

\* The values each variable may take; the first component is the ideal one.
Values == [APP_ENV |-> <<"production", {"Production", "staging", "development", "typo"}>>,
           DATABASE_URL |-> <<"postgres", {"", "sqlite"}>>,
           SESSION_SECRET |-> <<"secret", {"", "development-secret"}>>,
           PORTAL_SECURE_COOKIES |-> <<"true", {"false"}>>,
           EMAIL_PROVIDER |-> <<"smtp", {"dev", "other"}>>,
           EMAIL_SMTP_HOST |-> <<"host", {""}>>,
           EMAIL_SMTP_PORT |-> <<"587", {"x"}>>,
           WEBAUTHN_RP_ID |-> <<"rp", {""}>>,
           WEBAUTHN_ORIGIN |-> <<"origin", {""}>>,
           PUBLIC_BASE_URL |-> <<"https", {"", "http"}>>,
           ALLOWED_HOSTS |-> <<"hosts", {"", "*"}>>,
           RATE_LIMIT_BACKEND |-> <<"postgresql", {"memory", "redis"}>>,
           RATE_LIMIT_OVERRIDE |-> <<"", {"5:60", "x"}>>,
           LOGGING |-> <<"ok", {"bad"}>>,
           POOL |-> <<"ok", {"bad"}>>,
           RETENTION |-> <<"ok", {"bad"}>>,
           BACKUP_ENCRYPT |-> <<"true", {"false"}>>,
           BACKUP_ENCRYPTION_KEY |-> <<"key", {""}>>]

NotLoaded == [state |-> "none"]
Rejected == [state |-> "rejected"]
Ideal == [n \in DOMAIN Values |-> Values[n][1]]
Deviating(e) == {n \in DOMAIN Values : e[n] # Ideal[n]}

PortalConfigInit == penv = Ideal /\ config = NotLoaded /\ verdict = "none" /\ ready = "none"

\* The operator edits a variable before the portal is started.
EditEnv(n, v) ==
    /\ config = NotLoaded /\ verdict = "none" /\ Cardinality(Deviating([penv EXCEPT ![n] = v])) <= MaxDeviations
    /\ penv' = [penv EXCEPT ![n] = v] /\ UNCHANGED <<config, verdict, ready>>

-----------------------------------------------------------------------------
(* load_config. *)

\* APP_ENV is stripped and lowered for _ENV_MAP.
AppEnv(e) == IF e.APP_ENV = "Production" THEN "production" ELSE e.APP_ENV

\* _require_env compares APP_ENV as it is written.
Missing(e) ==
    \/ e.APP_ENV \in {"production", "staging"} /\ (e.DATABASE_URL = "" \/ e.SESSION_SECRET = "")
    \/ e.APP_ENV = "production" /\ "" \in {e.WEBAUTHN_RP_ID, e.WEBAUTHN_ORIGIN, e.PUBLIC_BASE_URL}

\* Values that are wrong in every environment.
Malformed(e) ==
    \/ e.APP_ENV = "typo" \/ e.RATE_LIMIT_BACKEND \notin {"memory", "postgresql"}
    \/ e.LOGGING = "bad" \/ e.POOL = "bad" \/ e.RETENTION = "bad"
    \/ e.EMAIL_SMTP_PORT = "x" \/ e.RATE_LIMIT_OVERRIDE = "x"

\* What production forbids.
Unfit(e) ==
    \/ e.EMAIL_PROVIDER = "dev" \/ e.PORTAL_SECURE_COOKIES # "true"
    \/ e.SESSION_SECRET = "development-secret" \/ e.ALLOWED_HOSTS \in {"", "*"}
    \/ e.PUBLIC_BASE_URL = "http" \/ e.DATABASE_URL # "postgres" \/ e.RATE_LIMIT_BACKEND = "memory"
    \/ e.BACKUP_ENCRYPT = "true" /\ e.BACKUP_ENCRYPTION_KEY = ""
    \/ e.EMAIL_PROVIDER = "smtp" /\ e.EMAIL_SMTP_HOST = ""

\* Mutant: the wildcard host passes.
LoadedWildcard(e) ==
    IF Missing(e) \/ Malformed(e) \/ (AppEnv(e) = "production" /\ Unfit([e EXCEPT !.ALLOWED_HOSTS = "hosts"]))
    THEN Rejected
    ELSE [state |-> "loaded", app_env |-> AppEnv(e),
          database |-> IF e.DATABASE_URL = "postgres" THEN "postgresql" ELSE "sqlite",
          session_secret |-> IF e.SESSION_SECRET = "" THEN "development-secret" ELSE e.SESSION_SECRET,
          secure_cookies |-> e.PORTAL_SECURE_COOKIES = "true" \/ AppEnv(e) = "production",
          email |-> e.EMAIL_PROVIDER, base_url |-> e.PUBLIC_BASE_URL, hosts |-> e.ALLOWED_HOSTS,
          limiter |-> e.RATE_LIMIT_BACKEND,
          backup |-> <<e.BACKUP_ENCRYPT = "true", e.BACKUP_ENCRYPTION_KEY # "">>]

\* The configuration load_config returns.
Loaded(e) ==
    IF Missing(e) \/ Malformed(e) \/ (AppEnv(e) = "production" /\ Unfit(e)) THEN Rejected
    ELSE [state |-> "loaded", app_env |-> AppEnv(e),
          database |-> IF e.DATABASE_URL = "postgres" THEN "postgresql" ELSE "sqlite",
          session_secret |-> IF e.SESSION_SECRET = "" THEN "development-secret" ELSE e.SESSION_SECRET,
          secure_cookies |-> e.PORTAL_SECURE_COOKIES = "true" \/ AppEnv(e) = "production",
          email |-> e.EMAIL_PROVIDER, base_url |-> e.PUBLIC_BASE_URL, hosts |-> e.ALLOWED_HOSTS,
          limiter |-> e.RATE_LIMIT_BACKEND,
          backup |-> <<e.BACKUP_ENCRYPT = "true", e.BACKUP_ENCRYPTION_KEY # "">>]

LoadConfig ==
    /\ config = NotLoaded /\ config' = Loaded(penv) /\ UNCHANGED <<penv, verdict, ready>>

-----------------------------------------------------------------------------
(* run_production_check and the readiness probe. *)

\* The mandatory checks that fail; every other finding is a warning.
MandatoryFails(e) ==
    LET c == Loaded(e) IN
    {n \in {"environment", "configuration", "database", "rate_limiter", "cookies", "https",
            "hosts", "email", "secret", "backup"} :
       \/ n = "environment" /\ AppEnv(e) \notin {"production", "staging", "development"}
       \/ n = "configuration" /\ c = Rejected
       \/ /\ c # Rejected
          /\ \/ n = "database" /\ c.database # "postgresql"
             \/ n = "rate_limiter" /\ c.limiter # "postgresql"
             \/ n = "cookies" /\ c.secure_cookies = FALSE
             \/ n = "https" /\ c.base_url = "http"
             \/ n = "hosts" /\ c.hosts \in {"", "*"}
             \/ n = "email" /\ c.email = "dev"
             \/ n = "secret" /\ c.session_secret = "development-secret"
             \/ n = "backup" /\ c.backup = <<TRUE, FALSE>>}

ProductionCheck ==
    /\ verdict = "none" /\ verdict' = (IF MandatoryFails(penv) # {} THEN "FAIL" ELSE "PASS")
    /\ UNCHANGED <<penv, config, ready>>

\* _ready_state and handle_health_ready; the database may be down or behind.
Readiness ==
    /\ config.state = "loaded" /\ ready = "none"
    /\ \E dbOk \in BOOLEAN :
         ready' = IF dbOk /\ (config.app_env = "production" =>
                                /\ config.hosts # "" /\ config.session_secret # "development-secret"
                                /\ config.secure_cookies /\ config.email # "dev")
                  THEN "ready" ELSE "not_ready"
    /\ UNCHANGED <<penv, config, verdict>>

PortalConfigNext ==
    \/ \E n \in DOMAIN Values : \E v \in Values[n][2] : EditEnv(n, v)
    \/ LoadConfig \/ ProductionCheck \/ Readiness

PortalConfigSpec == PortalConfigInit /\ [][PortalConfigNext]_pcvars

-----------------------------------------------------------------------------
\* The three judges agree: with APP_ENV spelled "production", an environment
\* load_config accepts passes every mandatory production check, one it
\* rejects fails it, and an accepted portal becomes ready unless its database
\* is not (load_config, run_production_check, _ready_state).
JudgementsAgree ==
    penv.APP_ENV = "production" /\ config # NotLoaded =>
        /\ verdict # "none" => (verdict = "PASS") = (config.state = "loaded")
        /\ config.state = "loaded" =>
             /\ config.session_secret = "secret" /\ config.database = "postgresql" /\ config.hosts = "hosts"
             /\ ready = "not_ready" => MandatoryFails(penv) = {}

\* Session secret default is safe only in non-production (config.py).
DefaultSecretOnlyInDevelopment ==
    config.state = "loaded" /\ config.session_secret = "development-secret" => config.app_env # "production"
=============================================================================
