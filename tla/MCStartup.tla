------------------------------ MODULE MCStartup ------------------------------
(* An instance of Startup for TLC. *)
EXTENDS Startup

\* A file that starts a client, one that starts an exit.
Working(c) == [c EXCEPT !.type = "max", !.base_url = "url", !.peer_chat_id = "chat",
                        !.enabled = TRUE]
Bases == {Working(DefaultClientConfig), Working(DefaultExitConfig)}

\* Times whose duration does not wrap around, wraps to a negative one and to a short one.
Times == ({"poll_ms"} \X {-1, 2^21 - 1, 2^21, 2^22 + 1})
         \cup ({"poll_timeout_sec"} \X {-1, 2087, 2088, 4190})

\* Each number negative, or too large for its neighbours; other values that matter.
Changes == ((Numbers \ {"poll_ms", "poll_timeout_sec"}) \X {-1, 2^30}) \cup Times
           \cup ({"type"} \X {"memory", "carrier pigeon"})
           \cup ({"salt"} \X {15}) \cup ({"address"} \X {"wildcard"})
           \cup ({"blocked_ports"} \X {{0}})
           \cup ({"allowed_schemes"} \X {{"ftp"}})

Sections == {{}, {"global_rps", "control_rps", "burst"}, {"max_chars", "max_b64_chars"}}
            \cup {{key} : key \in DOMAIN Zero}

\* A working file, but for one key or section left out and one value changed.
SomeFiles ==
    {[key \in DOMAIN base \ gone |-> IF key = change[1] THEN change[2] ELSE base[key]] :
       base \in Bases, gone \in Sections, change \in Changes}
=============================================================================
