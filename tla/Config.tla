------------------------------- MODULE Config -------------------------------
(***************************************************************************)
(* The configuration, internal/config: what a file leaves unset, and which *)
(* configurations Validate accepts. A configuration is flattened to one    *)
(* record with a field for every YAML key that the code looks at; lists    *)
(* are sets, a string whose text does not matter is empty or not, and the  *)
(* salt is its length. The listen address is told apart as far as          *)
(* validateListen does: "", "wildcard" or another.                         *)
(***************************************************************************)
EXTENDS Integers

\* The zero values of config.Config, which a key that the file leaves out keeps.
Zero ==
    [mode |-> "", address |-> "",
     max_concurrent_requests |-> 0, request_timeout_ms |-> 0,
     type |-> "", base_url |-> "", token_env |-> "", peer_chat_id |-> "",
     poll_ms |-> 0, poll_timeout_sec |-> 0, dedupe_max_ids |-> 0,
     passphrase_env |-> "", salt |-> 0,
     argon2_time |-> 0, argon2_memory_kb |-> 0, argon2_threads |-> 0,
     global_rps |-> 0, data_rps |-> 0, control_rps |-> 0, burst |-> 0,
     max_chars |-> 0, safe_chars |-> 0, max_b64_chars |-> 0,
     interval_ms |-> 0, timeout_ms |-> 0, max_retries |-> 0,
     initial_size |-> 0, max_size |-> 0, min_size |-> 0,
     blocked_ports |-> {}, allowed_ports |-> {}, allowed_schemes |-> {},
     enabled |-> FALSE, max_entries |-> 0, max_bytes |-> 0, max_entry_bytes |-> 0,
     default_ttl_seconds |-> 0, request_timeout_sec |-> 0]

\* The keys that config.Config declares as signed numbers. The rates, which are float64, are
\* integers here: the code only looks at their sign.
Numbers == {"max_concurrent_requests", "request_timeout_ms", "poll_ms", "poll_timeout_sec",
            "dedupe_max_ids", "global_rps", "data_rps", "control_rps",
            "burst", "max_chars", "safe_chars", "max_b64_chars", "interval_ms", "timeout_ms",
            "max_retries", "initial_size", "max_size", "min_size", "max_entries", "max_bytes",
            "max_entry_bytes", "default_ttl_seconds", "request_timeout_sec"}

\* No default is applied: the Default configurations are for selftest and the tests.
LoadFile(file) == [key \in DOMAIN Zero |-> IF key \in DOMAIN file THEN file[key] ELSE Zero[key]]

DefaultClientConfig ==
    [mode |-> "client", address |-> "127.0.0.1",
     max_concurrent_requests |-> 64, request_timeout_ms |-> 30000,
     type |-> "memory", base_url |-> "", token_env |-> "MAX_API_TOKEN", peer_chat_id |-> "",
     poll_ms |-> 1000, poll_timeout_sec |-> 20, dedupe_max_ids |-> 4096,
     passphrase_env |-> "CHUNKBRIDGE_SHARED_KEY", salt |-> 16,
     argon2_time |-> 1, argon2_memory_kb |-> 64 * 1024, argon2_threads |-> 4,
     global_rps |-> 5, data_rps |-> 4, control_rps |-> 2, burst |-> 10,
     max_chars |-> 4000, safe_chars |-> 3600, max_b64_chars |-> 3400,
     interval_ms |-> 500, timeout_ms |-> 5000, max_retries |-> 5,
     initial_size |-> 4, max_size |-> 16, min_size |-> 1,
     blocked_ports |-> {}, allowed_ports |-> {}, allowed_schemes |-> {"http", "https"},
     enabled |-> FALSE, max_entries |-> 512, max_bytes |-> 64 * 1024 * 1024,
     max_entry_bytes |-> 2 * 1024 * 1024, default_ttl_seconds |-> 300,
     request_timeout_sec |-> 30]

DefaultExitConfig ==
    [DefaultClientConfig EXCEPT
       !.mode = "exit",
       !.blocked_ports = {22, 25, 465, 587, 6379, 5432, 3306, 27017}]

-----------------------------------------------------------------------------
validateMode(c) == c.mode \in {"client", "exit"}

validateMax(c) == /\ c.base_url # "" /\ c.token_env # "" /\ c.peer_chat_id # ""
                  /\ c.dedupe_max_ids > 0

validateTransport(c) == /\ c.type \in {"memory", "max"}
                        /\ c.type = "max" => validateMax(c)

validateCrypto(c) == /\ c.passphrase_env # "" /\ c.salt = 16
                     /\ c.argon2_time # 0 /\ c.argon2_memory_kb # 0 /\ c.argon2_threads # 0

validateListen(c) == c.address \notin {"", "wildcard"}

\* Variant: as NewHTTPProxy takes it, 0 is no limit.
ProxyOrUnlimited(c) == c.max_concurrent_requests >= 0 /\ c.request_timeout_ms >= 0
validateProxy(c) == c.max_concurrent_requests > 0 /\ c.request_timeout_ms > 0

validatePolicy(c) == /\ c.blocked_ports \cup c.allowed_ports \subseteq 1..65535
                     /\ c.allowed_schemes \subseteq {"http", "https"}

validateMessageLimits(c) ==
    /\ c.max_chars > 0 /\ c.safe_chars > 0 /\ c.max_b64_chars > 0
    /\ c.safe_chars <= c.max_chars
    /\ c.max_b64_chars <= c.safe_chars

validateRateLimits(c) == c.global_rps > 0 /\ c.data_rps > 0 /\ c.control_rps > 0 /\ c.burst > 0

validateWindowConfig(c) == /\ c.min_size > 0
                           /\ c.min_size <= c.initial_size /\ c.initial_size <= c.max_size

validateAckConfig(c) == c.interval_ms > 0 /\ c.timeout_ms > 0 /\ c.max_retries >= 0

validateCache(c) ==
    c.enabled => /\ c.max_entries > 0 /\ c.max_bytes > 0 /\ c.max_entry_bytes > 0
                 /\ c.max_entry_bytes <= c.max_bytes
                 /\ c.default_ttl_seconds >= 0

\* The optional sections are looked at when one of their fields is positive.
AnyMessageLimit(c) == c.max_chars > 0 \/ c.safe_chars > 0 \/ c.max_b64_chars > 0

\* Variant: one of the rates is not asked about.
AnyRateButData(c) == c.global_rps > 0 \/ c.control_rps > 0 \/ c.burst > 0
AnyRate(c) == c.global_rps > 0 \/ c.data_rps > 0 \/ c.control_rps > 0 \/ c.burst > 0
AnyWindow(c) == c.initial_size > 0 \/ c.max_size > 0 \/ c.min_size > 0
AnyAck(c) == c.interval_ms > 0 \/ c.timeout_ms > 0

Validate(c) ==
    /\ validateMode(c) /\ validateTransport(c) /\ validateCrypto(c)
    /\ c.mode = "client" => validateListen(c) /\ validateProxy(c)
    /\ validatePolicy(c)
    /\ AnyMessageLimit(c) => validateMessageLimits(c)
    /\ AnyRate(c) => validateRateLimits(c)
    /\ AnyWindow(c) => validateWindowConfig(c)
    /\ AnyAck(c) => validateAckConfig(c)
    /\ validateCache(c)
=============================================================================
