---------------------------- MODULE StartupProofs ----------------------------
(***************************************************************************)
(* Proofs about Startup, for every set of configuration files: a process   *)
(* that serves was given a configuration that Validate accepted, and its   *)
(* parts were built from that configuration.                               *)
(***************************************************************************)
EXTENDS Startup, TLAPS

\* The stages from which the configuration is the one of the file, is known to be valid, has
\* become a transport, and has become the other parts.
HasConfig    == {"loaded", "validated", "keyed", "connected", "wired", "serving", "stopping"}
HasValid     == HasConfig \ {"loaded"}
HasTransport == {"connected", "wired", "serving", "stopping"}
HasParts     == {"wired", "serving", "stopping"}

\* The cache that runClient makes of the configuration.
CacheOf(c) == IF c.enabled
              THEN [entries |-> c.max_entries, bytes |-> c.max_bytes,
                    entryBytes |-> c.max_entry_bytes]
              ELSE None

\* The inductive invariant, a conjunction by the stage reached.
BuiltInOrder ==
    /\ stage \in HasConfig => \A key \in Numbers : cfg[key] \in Int
    /\ stage \in HasValid => Validate(cfg)
    /\ stage \in HasTransport => transport = NewMaxTransport /\ cfg.type = "max"
    /\ stage \in HasParts =>
         /\ limiter = buildRateLimiter
         /\ command = "client" =>
              /\ pending = IF cfg.max_concurrent_requests > 0
                           THEN cfg.max_concurrent_requests ELSE 0
              /\ cache = CacheOf(cfg)
    /\ command # "client" => cache = None

\* The file does not change.
FileGiven == file \in Files

StartupInv == FileGiven /\ BuiltInOrder

-----------------------------------------------------------------------------
\* What LoadFile makes of a file has a number under every key that config.Config declares
\* as one, whether the file sets the key or leaves its zero value.
LEMMA LoadedNumbers ==
    ASSUME NEW f \in Files, NEW key \in Numbers
    PROVE  LoadFile(f)[key] \in Int
<1>1. key \in DOMAIN Zero /\ Zero[key] = 0
    <2>1. key \in DOMAIN Zero
        BY DEF Zero, Numbers
    <2>2. /\ Zero.max_concurrent_requests = 0 /\ Zero.request_timeout_ms = 0 /\ Zero.poll_ms = 0
          /\ Zero.poll_timeout_sec = 0 /\ Zero.dedupe_max_ids = 0 /\ Zero.global_rps = 0
          /\ Zero.data_rps = 0 /\ Zero.control_rps = 0 /\ Zero.burst = 0
          /\ Zero.max_chars = 0 /\ Zero.safe_chars = 0 /\ Zero.max_b64_chars = 0
          /\ Zero.interval_ms = 0 /\ Zero.timeout_ms = 0 /\ Zero.max_retries = 0
          /\ Zero.initial_size = 0 /\ Zero.max_size = 0 /\ Zero.min_size = 0
          /\ Zero.max_entries = 0 /\ Zero.max_bytes = 0 /\ Zero.max_entry_bytes = 0
          /\ Zero.default_ttl_seconds = 0 /\ Zero.request_timeout_sec = 0
        BY DEF Zero
    <2> QED
        BY <2>1, <2>2 DEF Numbers
<1>2. LoadFile(f)[key] = IF key \in DOMAIN f THEN f[key] ELSE Zero[key]
    BY <1>1 DEF LoadFile
<1> QED
    BY <1>1, <1>2, FilesAssumption

\* A process that has just started has built nothing.
LEMMA InitInv == Init => StartupInv
  BY DEF Init, StartupInv, FileGiven, BuiltInOrder, HasConfig, HasValid, HasTransport, HasParts

\* Whatever ends the process leaves no part in use.
LEMMA ExitsInv ==
    ASSUME StartupInv, NEW with, Exits(with)
    PROVE  StartupInv'
  BY DEF Exits, given, parts, StartupInv, FileGiven, BuiltInOrder,
         HasConfig, HasValid, HasTransport, HasParts

\* One step of the process keeps the order in which things are built.
LEMMA NextInv == StartupInv /\ [Next]_vars => StartupInv'
<1> SUFFICES ASSUME StartupInv, [Next]_vars PROVE StartupInv'
    OBVIOUS
<1> USE DEF StartupInv, FileGiven
<1>1. CASE Load
    <2>1. CASE cfg' = LoadFile(file) /\ stage' = "loaded" /\ UNCHANGED <<given, parts, code>>
        <3>1. \A key \in Numbers : cfg'[key] \in Int
            BY <2>1, LoadedNumbers
        <3> QED
            BY <2>1, <3>1 DEF BuiltInOrder, HasConfig, HasValid, HasTransport, HasParts, given,
                              parts
    <2> QED
        BY <1>1, <2>1, ExitsInv DEF Load
<1>2. CASE CheckConfig
    <2>1. CASE /\ stage = "loaded" /\ Validate(cfg) /\ stage' = "validated"
               /\ UNCHANGED <<given, cfg, parts, code>>
        BY <2>1 DEF BuiltInOrder, HasConfig, HasValid, HasTransport, HasParts, given, parts
    <2> QED
        BY <1>2, <2>1, ExitsInv DEF CheckConfig
<1>3. CASE deriveKey
    <2>1. CASE /\ stage = "validated" /\ stage' = "keyed"
               /\ UNCHANGED <<given, cfg, parts, code>>
        BY <2>1 DEF BuiltInOrder, HasConfig, HasValid, HasTransport, HasParts, given, parts
    <2> QED
        BY <1>3, <2>1, ExitsInv DEF deriveKey
<1>4. CASE buildTransport
    <2>1. CASE /\ stage = "keyed" /\ cfg.type = "max"
               /\ transport' = NewMaxTransport /\ stage' = "connected"
               /\ UNCHANGED <<given, cfg, limiter, pending, cache, code>>
        BY <2>1 DEF BuiltInOrder, HasConfig, HasValid, HasTransport, HasParts, given,
                    NewMaxTransport
    <2> QED
        BY <1>4, <2>1, ExitsInv DEF buildTransport
<1>5. CASE Wire
    BY <1>5 DEF Wire, BuiltInOrder, HasConfig, HasValid, HasTransport, HasParts, given,
                CacheOf, NewMaxTransport, buildRateLimiter
<1>6. CASE Serve
    <2>1. CASE stage = "wired" /\ stage' = "serving" /\ UNCHANGED <<given, cfg, parts, code>>
        BY <2>1 DEF BuiltInOrder, HasConfig, HasValid, HasTransport, HasParts, given, parts,
                    NewMaxTransport, buildRateLimiter, CacheOf
    <2> QED
        BY <1>6, <2>1, ExitsInv DEF Serve
<1>7. CASE Signal
    <2>1. CASE stage = "serving" /\ stage' = "stopping" /\ UNCHANGED <<given, cfg, parts, code>>
        BY <2>1 DEF BuiltInOrder, HasConfig, HasValid, HasTransport, HasParts, given, parts,
                    NewMaxTransport, buildRateLimiter, CacheOf
    <2> QED
        BY <1>7, <2>1, ExitsInv DEF Signal
<1>8. CASE StopsCleanly
    BY <1>8, ExitsInv DEF StopsCleanly
<1>9. CASE EndsByItself
    BY <1>9, ExitsInv DEF EndsByItself
<1>10. CASE UNCHANGED vars
    BY <1>10 DEF vars, given, parts, BuiltInOrder, NewMaxTransport, buildRateLimiter
<1> QED
    BY <1>1, <1>2, <1>3, <1>4, <1>5, <1>6, <1>7, <1>8, <1>9, <1>10 DEF Next, Done

\* The invariant holds in every state of the process.
THEOREM BuiltInvariant == Spec => []StartupInv
<1>1. Init => StartupInv
    BY InitInv
<1>2. StartupInv /\ [Next]_vars => StartupInv'
    BY NextInv
<1> QED
    BY <1>1, <1>2, PTL DEF Spec

-----------------------------------------------------------------------------
\* A number that fits a time.Duration is its own duration.
LEMMA DurationFits ==
    ASSUME NEW n \in Nat, 2 * n < DurationValues
    PROVE  Duration(n) = n
<1>1. DurationValues \in Nat /\ n < DurationValues
    BY DurationAssumption
<1>2. n % DurationValues = n
    BY <1>1
<1> QED
    BY <1>1, <1>2 DEF Duration

\* In every process that serves, the parts are as the other modules assume them: the limits
\* of the cache and, with a file for a client, the limit on pending requests because Validate
\* refuses every other file, those of the transport because NewMaxTransport puts a default in
\* the place of what is not positive, before or after it wraps around. What is not claimed:
\* a limit on pending requests for a client whose file says "exit", and a client timeout that
\* outlasts the long poll where it wraps around.
THEOREM PartsAsAssumedAlways == Spec => []PartsAsAssumed
<1>1. StartupInv => PartsAsAssumed
    <2> SUFFICES ASSUME StartupInv, Running
                 PROVE  /\ command = "client" /\ cfg.mode = "client" => pending > 0
                        /\ cache # None => /\ cache.entries > 0
                                           /\ cache.entryBytes \in 1..cache.bytes
                                           /\ cfg.default_ttl_seconds >= 0
                        /\ transport.dedupeMaxIDs > 0 /\ transport.pollInterval > 0
                        /\ 2 * (transport.pollTimeoutSec + 10) * Second < DurationValues =>
                             transport.httpTimeout > transport.pollTimeoutSec * Second
        BY DEF PartsAsAssumed
    <2>1. /\ Validate(cfg) /\ transport = NewMaxTransport
          /\ \A key \in Numbers : cfg[key] \in Int
          /\ command = "client" =>
               /\ pending = IF cfg.max_concurrent_requests > 0
                            THEN cfg.max_concurrent_requests ELSE 0
               /\ cache = CacheOf(cfg)
          /\ command # "client" => cache = None
        BY DEF StartupInv, BuiltInOrder, Running, HasConfig, HasValid, HasTransport, HasParts
    <2>2. /\ cfg.poll_ms \in Int /\ cfg.poll_timeout_sec \in Int /\ cfg.dedupe_max_ids \in Int
          /\ cfg.max_entries \in Int /\ cfg.max_bytes \in Int /\ cfg.max_entry_bytes \in Int
        BY <2>1 DEF Numbers
    <2>3. transport.dedupeMaxIDs > 0 /\ transport.pollInterval > 0
        BY <2>1, <2>2, DurationAssumption DEF NewMaxTransport, OrDefault
    <2>4. ASSUME 2 * (transport.pollTimeoutSec + 10) * Second < DurationValues
          PROVE  transport.httpTimeout > transport.pollTimeoutSec * Second
        <3> DEFINE n == OrDefault(cfg.poll_timeout_sec, 20)
                   m == (n + 10) * Second
        <3>1. /\ transport.pollTimeoutSec = n /\ transport.httpTimeout = Duration(m)
              /\ n \in Nat /\ Second \in Nat \ {0}
            BY <2>1, <2>2, DurationAssumption DEF NewMaxTransport, OrDefault
        <3> HIDE DEF n
        <3>2. m \in Nat /\ m > n * Second
            BY <3>1
        <3>3. 2 * m < DurationValues
            BY <2>4, <3>1
        <3> HIDE DEF m
        <3> QED
            BY <3>1, <3>2, <3>3, DurationFits
    <2>5. ASSUME command = "client", cfg.mode = "client" PROVE pending > 0
        BY <2>1, <2>5 DEF Validate, validateProxy
    <2>6. ASSUME cache # None
          PROVE  /\ cache.entries > 0 /\ cache.entryBytes \in 1..cache.bytes
                 /\ cfg.default_ttl_seconds >= 0
        <3>1. cfg.enabled /\ cache = [entries |-> cfg.max_entries, bytes |-> cfg.max_bytes,
                                      entryBytes |-> cfg.max_entry_bytes]
            BY <2>1, <2>6 DEF CacheOf
        <3>2. validateCache(cfg)
            BY <2>1 DEF Validate
        <3> QED
            BY <2>2, <3>1, <3>2 DEF validateCache
    <2> QED
        BY <2>3, <2>4, <2>5, <2>6
<1> QED
    BY <1>1, BuiltInvariant, PTL

\* In every process that serves there is a rate limiter exactly if the file sets a rate, and
\* Send cuts off at a length that fits the messenger's if the file sets a message limit.
THEOREM LimitedAsConfiguredAlways == Spec => []LimitedAsConfigured
<1>1. StartupInv => LimitedAsConfigured
    <2> SUFFICES ASSUME StartupInv, Running
                 PROVE  /\ limiter <=> (\E key \in {"global_rps", "data_rps", "control_rps",
                                                    "burst"} : cfg[key] > 0)
                        /\ AnyMessageLimit(cfg) => transport.safeChars \in 1..cfg.max_chars
        BY DEF LimitedAsConfigured
    <2>1. /\ Validate(cfg) /\ transport = NewMaxTransport /\ limiter = buildRateLimiter
          /\ \A key \in Numbers : cfg[key] \in Int
        BY DEF StartupInv, BuiltInOrder, Running, HasConfig, HasValid, HasTransport, HasParts
    <2>2. /\ cfg.global_rps \in Int /\ cfg.data_rps \in Int /\ cfg.control_rps \in Int
          /\ cfg.burst \in Int /\ cfg.safe_chars \in Int /\ cfg.max_chars \in Int
        BY <2>1 DEF Numbers
    <2>3. AnyRate(cfg) => validateRateLimits(cfg)
        BY <2>1 DEF Validate
    <2>4. limiter <=> AnyRate(cfg)
        <3>1. buildRateLimiter <=> AnyRate(cfg)
            BY <2>2, <2>3 DEF buildRateLimiter, AnyRate, validateRateLimits
        <3> QED
            BY <2>1, <3>1, Zenon
    <2>5. AnyMessageLimit(cfg) => transport.safeChars \in 1..cfg.max_chars
        BY <2>1, <2>2 DEF Validate, validateMessageLimits, NewMaxTransport
    <2> QED
        BY <2>4, <2>5 DEF AnyRate
<1> QED
    BY <1>1, BuiltInvariant, PTL
=============================================================================
