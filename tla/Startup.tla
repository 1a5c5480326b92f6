------------------------------- MODULE Startup -------------------------------
(***************************************************************************)
(* The life of a chunkbridge process, cmd/chunkbridge/main.go: runClient   *)
(* and runExit load and validate a configuration, derive the key, build    *)
(* the transport, wire the parts together, serve, and end on a signal or   *)
(* an error. The other modules start from what this one builds.            *)
(***************************************************************************)
EXTENDS Config

CONSTANTS
    Files, None,
    Millisecond, Second,    \* as a time.Duration
    DurationValues          \* values of a time.Duration, and of an int: 2^64

\* The YAML decoder refuses a file that gives a number of config.Config anything but a number.
ASSUME FilesAssumption == \A f \in Files : \A key \in Numbers \cap DOMAIN f : f[key] \in Int
ASSUME DurationAssumption == /\ Millisecond \in Nat \ {0} /\ Second \in Nat \ {0}
                             /\ DurationValues \in Nat \ {0}

VARIABLES
    command,    \* the command line: "client" or "exit"
    file,       \* the configuration file
    env,        \* which secrets are set: a subset of {"passphrase", "token"}
    stage,      \* how far the process has come
    cfg,        \* the configuration, once loaded
    transport,  \* what NewMaxTransport was left with, once built
    limiter,    \* there is a rate limiter
    pending,    \* the session's limit on pending requests, 0 for none
    cache,      \* the limits of the response cache, None without one
    code        \* the exit code, None while the process runs

given == <<command, file, env>>
parts == <<transport, limiter, pending, cache>>
vars == <<given, stage, cfg, parts, code>>

Init == /\ command \in {"client", "exit"}
        /\ file \in Files
        /\ env \in SUBSET {"passphrase", "token"}
        /\ stage = "started"
        /\ cfg = None /\ code = None
        /\ transport = None /\ limiter = FALSE /\ pending = 0 /\ cache = None

Killed == -1    \* not by os.Exit or a return of main

Exits(with) == /\ stage' = "exited" /\ code' = with
               /\ UNCHANGED <<given, cfg, parts>>

-----------------------------------------------------------------------------
Load == /\ stage = "started"
        /\ \/ /\ cfg' = LoadFile(file) /\ stage' = "loaded"
              /\ UNCHANGED <<given, parts, code>>
           \/ Exits(1)      \* the file cannot be read or parsed

CheckConfig == /\ stage = "loaded"
               /\ \/ /\ Validate(cfg) /\ stage' = "validated"
                     /\ UNCHANGED <<given, cfg, parts, code>>
                  \/ ~Validate(cfg) /\ Exits(1)

\* The passphrase comes from the environment; the checks of its name and of the salt repeat
\* those of Validate.
deriveKey == /\ stage = "validated"
             /\ \/ /\ "passphrase" \in env /\ stage' = "keyed"
                   /\ UNCHANGED <<given, cfg, parts, code>>
                \/ "passphrase" \notin env /\ Exits(1)

OrDefault(n, default) == IF n > 0 THEN n ELSE default

\* Arithmetic on a time.Duration wraps around.
Duration(n) == LET d == n % DurationValues
               IN IF 2 * d >= DurationValues THEN d - DurationValues ELSE d

\* Neither number of the file is validated. (An httpTimeout that is not positive is none.)
NewMaxTransport ==
    [pollInterval |-> OrDefault(Duration(cfg.poll_ms * Millisecond), Second),
     pollTimeoutSec |-> OrDefault(cfg.poll_timeout_sec, 20),
     httpTimeout |-> Duration((OrDefault(cfg.poll_timeout_sec, 20) + 10) * Second),
     dedupeMaxIDs |-> OrDefault(cfg.dedupe_max_ids, 4096),
     safeChars |-> cfg.safe_chars]

\* The memory transport joins two halves of one process: no command can use it.
buildTransport == /\ stage = "keyed"
                  /\ \/ /\ cfg.type = "max" /\ "token" \in env
                        /\ transport' = NewMaxTransport /\ stage' = "connected"
                        /\ UNCHANGED <<given, cfg, limiter, pending, cache, code>>
                     \/ ~(cfg.type = "max" /\ "token" \in env) /\ Exits(1)

buildRateLimiter ==
    ~(cfg.global_rps <= 0 \/ cfg.data_rps <= 0 \/ cfg.control_rps <= 0 \/ cfg.burst <= 0)

\* NewHTTPProxy or NewHTTPExecutor with the limiter and, in the client, the cache.
Wire == /\ stage = "connected"
        /\ stage' = "wired"
        /\ limiter' = buildRateLimiter
        /\ \/ /\ command = "client"
              /\ pending' = IF cfg.max_concurrent_requests > 0 THEN cfg.max_concurrent_requests ELSE 0
              /\ cache' = IF cfg.enabled
                          THEN [entries |-> cfg.max_entries, bytes |-> cfg.max_bytes,
                                entryBytes |-> cfg.max_entry_bytes]
                          ELSE None
           \/ command = "exit" /\ UNCHANGED <<pending, cache>>
        /\ UNCHANGED <<given, cfg, transport, code>>

\* The client listens (which may fail); both install the signal handler and serve.
Serve == /\ stage = "wired"
         /\ \/ /\ stage' = "serving"
               /\ UNCHANGED <<given, cfg, parts, code>>
            \/ command = "client" /\ Exits(1)

\* SIGINT or SIGTERM; before the handler is installed it kills the process.
Signal == /\ stage # "exited"
          /\ \/ /\ stage = "serving" /\ stage' = "stopping"
                /\ UNCHANGED <<given, cfg, parts, code>>
             \/ stage \notin {"serving", "stopping"} /\ Exits(Killed)

\* The client's Shutdown returns, at the latest after 10 s; the exit's Run returns
\* context.Canceled.
StopsCleanly == stage = "stopping" /\ Exits(0)

\* The client's Serve fails; the exit's Run fails (1) or finds its channel closed (0).
EndsByItself == /\ stage = "serving"
                /\ Exits(1) \/ (command = "exit" /\ Exits(0))

Done == stage = "exited" /\ UNCHANGED vars

Next == \/ Load \/ CheckConfig \/ deriveKey \/ buildTransport \/ Wire \/ Serve
        \/ Signal \/ StopsCleanly \/ EndsByItself \/ Done

Spec == Init /\ [][Next]_vars

-----------------------------------------------------------------------------
Running == stage \in {"serving", "stopping"}

\* What the other modules assume of the parts they model: RelayExchange that a client has a
\* limit on pending requests, which only a file with mode "client" ensures (one with mode
\* "exit", which the client command takes too, may set none); ResponseCache and CachePolicy,
\* of every cache, limits that a single entry fits in; MaxTransport, of every process, a
\* dedupe window, a pause between polls and a client that outwaits the server's long poll, as
\* long as its timeout does not wrap around.
PartsAsAssumed ==
    Running =>
        /\ command = "client" /\ cfg.mode = "client" => pending > 0
        /\ cache # None => /\ cache.entries > 0 /\ cache.entryBytes \in 1..cache.bytes
                           /\ cfg.default_ttl_seconds >= 0
        /\ transport.dedupeMaxIDs > 0 /\ transport.pollInterval > 0
        /\ 2 * (transport.pollTimeoutSec + 10) * Second < DurationValues =>
             transport.httpTimeout > transport.pollTimeoutSec * Second

\* buildRateLimiter gives up on any rate that is not positive; validation sees to it that
\* no process runs unthrottled although its file sets a rate, nor throttled at rate 0. The
\* same for the length of messages: Send checks it whenever a limit is set.
LimitedAsConfigured ==
    Running => /\ limiter <=> (\E key \in {"global_rps", "data_rps", "control_rps", "burst"} :
                                 cfg[key] > 0)
               /\ AnyMessageLimit(cfg) => transport.safeChars \in 1..cfg.max_chars
=============================================================================
