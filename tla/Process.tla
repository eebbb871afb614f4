------------------------------- MODULE Process --------------------------------
(***************************************************************************)
(* From main to the exit of the process: run loads the configuration,      *)
(* begins to take signals, creates the exporter, listens, sets the health  *)
(* check and calls Run (src/main.go:36-99); from then on it is Watchdog's. *)
(* Docker's HEALTHCHECK asks /healthz at any time (main.go:158-173), where *)
(* serveHealth first reads the check and then calls it (http_server.go:53).*)
(***************************************************************************)
EXTENDS Watchdog, Configuration

CONSTANTS
    Environments   \* BOUND: what the environment may hold

\* An environment says something of every variable; a number is one that
\* strconv.Atoi returns, and the text of a credential that is set is not empty: the
\* empty one is Blank.
ASSUME EnvironmentAssumption ==
    \A e \in Environments :
        /\ DOMAIN e = Settings
        /\ \A k \in Settings : e[k].is = "number" => e[k].v \in Int
        /\ \A k \in {"ECOFLOW_ACCESS_KEY", "ECOFLOW_SECRET_KEY",
                    "ECOFLOW_EMAIL", "ECOFLOW_PASSWORD"} :
              Given(e, k) => e[k].v # NoText

NoEnv == [k \in {} |-> Unset]
NoConfig == [type |-> NoText]

VARIABLES
    boot,        \* the next step of run, or how it ended before Run was called
    env,         \* the environment, NoEnv once nothing reads it any more
    cfg,         \* what LoadConfig returned, until the exporter has taken it
    healthSet,   \* s.health is not nil
    probe,       \* "none" | "nil" | "check" (what serveHealth read) | "ok" | "failed"
    probeEarly   \* HISTORY: the probe began before Run was called

bootVars == <<boot, env, cfg, healthSet>>
probeVars == <<probe, probeEarly>>
processVars == <<vars, bootVars, probeVars>>

Starting == {"load", "notify", "create", "listen", "serve", "start"}
Ends == {"rejected", "refused", "failed", "killed", "panicked"}

ProcessInit ==
    /\ Init
    /\ boot = "load"
    /\ env \in Environments
    /\ cfg = NoConfig
    /\ healthSet = FALSE
    /\ probe = "none" /\ probeEarly = FALSE

\* 50-55
Load ==
    /\ boot = "load"
    /\ IF ConfigErrors(env) = {} THEN boot' = "notify" /\ cfg' = LoadConfig(env)
       ELSE boot' = "rejected" /\ UNCHANGED cfg
    /\ UNCHANGED <<vars, env, healthSet, probeVars>>

\* 57: signals are no longer fatal.
NotifyContext ==
    /\ boot = "notify" /\ boot' = "create"
    /\ UNCHANGED <<vars, env, cfg, healthSet, probeVars>>

Killed ==
    /\ boot \in {"load", "notify"} /\ boot' = "killed"
    /\ UNCHANGED <<vars, env, cfg, healthSet, probeVars>>

\* NewMqttMetricsExporter looks at its configuration once more; the REST
\* exporter does not.
AcceptedByExporter ==
    cfg.type = "mqtt" =>
        /\ NoText \notin {cfg.credentials.email, cfg.credentials.password}
        /\ cfg.devices # NoDevices
        /\ \A k \in DOMAIN cfg.intervals : cfg.intervals[k] > 0

\* 66-69
CreateExporter ==
    /\ boot = "create"
    /\ boot' = IF AcceptedByExporter THEN "listen" ELSE "refused"
    /\ UNCHANGED <<vars, env, cfg, healthSet, probeVars>>

\* 71-74; another process may have the port.
NewHTTPServer ==
    /\ boot = "listen" /\ boot' \in {"serve", "failed"}
    /\ UNCHANGED <<vars, env, cfg, healthSet, probeVars>>

\* Mutant: the health check is never set.
SetHealthCheckMissing ==
    /\ boot = "serve" /\ boot' = "start"
    /\ UNCHANGED <<vars, env, cfg, healthSet, probeVars>>

\* 80
SetHealthCheck ==
    /\ boot = "serve" /\ boot' = "start"
    /\ healthSet' = TRUE
    /\ UNCHANGED <<vars, env, cfg, probeVars>>

\* 84-90: both goroutines run, unless the ticker of the REST exporter panics.
StartRun ==
    /\ boot = "start"
    /\ IF cfg.type = "rest" /\ cfg.intervals["SCRAPING_INTERVAL"] <= 0
       THEN boot' = "panicked" /\ UNCHANGED <<env, cfg>>
       ELSE boot' = "up" /\ env' = NoEnv /\ cfg' = NoConfig
    /\ UNCHANGED <<vars, healthSet, probeVars>>

\* A signal after NotifyContext, and everything once Run is called.
InRun(A) == boot = "up" /\ A /\ UNCHANGED <<bootVars, probeVars>>
Live == InRun(Next)
SignalStarting ==
    /\ boot \in Starting \ {"load", "notify"} /\ Signal
    /\ UNCHANGED <<bootVars, probeVars>>

Serving == boot \in {"serve", "start", "up"} /\ main # "exited"

\* serveHealth reads s.health ...
ProbeBegins ==
    /\ Serving /\ main = "running" /\ probe = "none"
    /\ probe' = IF healthSet THEN "check" ELSE "nil"
    /\ probeEarly' = (boot # "up")
    /\ UNCHANGED <<vars, bootVars>>

\* ... and answers 200 or 503, and runHealthcheck exits with 0 or 1.
ProbeAnswered ==
    /\ Serving /\ probe \in {"nil", "check"}
    /\ probe' = IF probe = "check" /\ ~healthy THEN "failed" ELSE "ok"
    /\ UNCHANGED <<vars, bootVars, probeEarly>>

ProbeOver ==
    /\ probe \in {"ok", "failed"}
    /\ probe' = "none" /\ probeEarly' = FALSE
    /\ UNCHANGED <<vars, bootVars>>

Boot ==
    \/ Load \/ NotifyContext \/ CreateExporter \/ NewHTTPServer \/ SetHealthCheck
    \/ StartRun

ProcessNext ==
    \/ Boot \/ Killed \/ SignalStarting \/ Live
    \/ ProbeBegins \/ ProbeAnswered \/ ProbeOver

\* Time passes, ready goroutines run, and Run returns when it is cancelled.
ProcessSpec ==
    /\ ProcessInit /\ [][ProcessNext]_processVars
    /\ WF_processVars(Boot)
    /\ WF_processVars(InRun(TimePasses))      /\ WF_processVars(InRun(Check))
    /\ WF_processVars(InRun(CancelRun))       /\ WF_processVars(InRun(ExporterReturns))
    /\ WF_processVars(InRun(MainReturns))     /\ WF_processVars(InRun(CloseServer))

-----------------------------------------------------------------------------
Overflows(seconds) == seconds * Second >= HalfRange

\* What variable k says, if it says an interval.
Wanted(k) ==
    IF env[k] \in {Unset, Blank} THEN Intervals(cfg.type)[k] ELSE env[k].v

\* An accepted configuration is the one that was asked for: a variable set to
\* nothing is not set, a secret comes from its variable or else from its file,
\* and REST wins when the type is to be guessed.  Only an interval that does not
\* fit 64 bits is another one (config.go:117-218).
SettingsAsGiven ==
    boot \in Starting \ {"load"} =>
        LET Said(k) == env[k] \notin {Unset, Blank}
            SecretOf(k) == IF Said(k) THEN env[k].v ELSE env[FileKey[k]].v
            anyRest == \E k \in {"ECOFLOW_ACCESS_KEY", "ECOFLOW_SECRET_KEY"} : Said(k)
        IN /\ \A k \in DOMAIN cfg.intervals :
                 \/ Overflows(Wanted(k))
                 \/ cfg.intervals[k] = Wanted(k) * Second /\ cfg.intervals[k] > 0
           /\ ~Said("EXPORTER_TYPE") /\ anyRest => cfg.type = "rest"
           /\ cfg.type = "rest" =>
                 /\ cfg.credentials.accessKey = env["ECOFLOW_ACCESS_KEY"].v
                 /\ cfg.credentials.secretKey = SecretOf("ECOFLOW_SECRET_KEY")
           /\ cfg.type = "mqtt" =>
                 /\ cfg.credentials.email = env["ECOFLOW_EMAIL"].v
                 /\ cfg.credentials.password = SecretOf("ECOFLOW_PASSWORD")
                 /\ \E sn \in DOMAIN cfg.devices : sn # NoText
           /\ \A k \in DOMAIN env : env[k].is \in {"wrong", "nofile"} =>
                 \* not read for this type, or a variable comes first
                 \/ k \notin DOMAIN cfg.intervals \cup
                        {"PROMETHEUS_PORT", "PROTOBUF_DEBUG", "METRIC_PREFIX",
                         "ECOFLOW_DEVICES_PRETTY_NAMES", "ECOFLOW_SECRET_KEY_FILE",
                         "ECOFLOW_PASSWORD_FILE"}
                 \/ \E s \in DOMAIN FileKey : k = FileKey[s] /\ Said(s)

\* The environment in which everything that was reported has been put right: the
\* variables with wrong values are removed, the missing ones are added.
Corrected(e, errors) ==
    LET added == (IF "access key" \in errors THEN {"ECOFLOW_ACCESS_KEY", "ECOFLOW_SECRET_KEY"}
                  ELSE {})
                 \cup (IF "password" \in errors THEN {"ECOFLOW_EMAIL", "ECOFLOW_PASSWORD"}
                       ELSE {})
    IN [k \in Settings |->
          IF k \in errors THEN Unset
          ELSE IF k \in added THEN [is |-> "text", v |-> "added"]
          ELSE IF k = "ECOFLOW_DEVICES" /\ "devices" \in errors
          THEN [is |-> "list", v |-> <<"added">>]
          ELSE e[k]]

\* "reports all problems at once" (README.md:56): who corrects what a rejected
\* start reported, and nothing else, is not rejected again.  Only while the type
\* is unknown are the variables of the types not looked at (config.go:178-202).
OneCorrectionSuffices ==
    boot = "rejected" /\ "EXPORTER_TYPE" \notin ConfigErrors(env) =>
        ConfigErrors(Corrected(env, ConfigErrors(env))) = {}

\* Every end of the process has its reason: 0 after a signal only, a failure after
\* the watchdog's verdict, and before Run nothing but an interval out of range
\* stops an accepted configuration, which the mqtt exporter refuses and the REST
\* exporter panics at (main.go:50-98, mqtt_exporter.go:89-97).
ExitExplained ==
    /\ main = "exited" =>
          \/ result = "ok" /\ signalled
          \/ result = "error" /\ cause /\ failingSince # Absent /\ failingSince > Limit
    /\ boot = "refused" =>
          cfg.type = "mqtt" /\ \E k \in DOMAIN cfg.intervals : Overflows(Wanted(k))
    /\ boot = "panicked" => cfg.type = "rest" /\ Overflows(Wanted("SCRAPING_INTERVAL"))
    /\ boot \in {"listen", "serve", "start"} /\ cfg.type = "mqtt" =>
          \A k \in DOMAIN cfg.intervals : cfg.intervals[k] > 0

\* A probe that begins while the exporter runs succeeds only if the exporter is
\* healthy when it is asked; an earlier one may find no check to ask
\* (http_server.go:47-66).
OkIsHealthy ==
    [][probe' = "ok" /\ probe # "ok" => healthy \/ probeEarly]_processVars

\* An exporter that never recovers does not keep the container from being
\* restarted, nor does a start that fails (main.go:19-21).
UnhealthyExits == <>[]~healthy => <>(main = "exited" \/ boot \in Ends)

=============================================================================
