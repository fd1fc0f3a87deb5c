----------------------------- MODULE Validation -----------------------------
(***************************************************************************)
(* spoolctl/validation.py: which tokens of a command line are accepted and *)
(* what they mean.  A parser raises INVALID_INPUT or returns, so each is   *)
(* the predicate that tells the two apart, and the value where it is not   *)
(* the token itself; parse_at may also raise what it does not expect.  A   *)
(* token is a record of what the parsers ask of it, an absent flag is NULL: *)
(*   number    [num, n]          matches INT_RE, and its value             *)
(*   real      [num, finite, n]  float() accepts it                        *)
(*   span      [num, finite, n, unit]  a decimal and the letter after it   *)
(*   moment    [kind, n]         epoch seconds, ISO-8601, ISO-8601 beyond   *)
(*                               what timestamp() can convert, or neither  *)
(*   text      [size, shape, printable, nul, padded], size against its     *)
(*             limit, shape: it matches the pattern of its flag            *)
(***************************************************************************)
EXTENDS Models, Sequences

CONSTANTS
    SQLITE_INT64_MAX,
    PRIORITY_MIN, PRIORITY_MAX,
    MAX_DURATION_SECONDS,
    MAX_WAIT_SECONDS,
    MAX_POLL_INTERVAL_SECONDS,
    LIST_LIMIT_MAX, EVENT_LIMIT_MAX, STATUS_LIMIT_MAX, FEEDBACK_TAIL_MAX,
    MAX_TAGS

ASSUME LimitsAssumption ==
    /\ {SQLITE_INT64_MAX, MAX_DURATION_SECONDS, MAX_WAIT_SECONDS,
        MAX_POLL_INTERVAL_SECONDS, LIST_LIMIT_MAX, EVENT_LIMIT_MAX,
        STATUS_LIMIT_MAX, FEEDBACK_TAIL_MAX, MAX_TAGS} \subseteq Nat \ {0}
    /\ PRIORITY_MIN \in Int /\ PRIORITY_MAX \in Int /\ PRIORITY_MIN <= PRIORITY_MAX

-----------------------------------------------------------------------------
(* Numbers                                                                 *)

parse_int_bound(raw, minimum, maximum) ==
    raw.num /\ raw.n >= minimum /\ raw.n <= maximum

parse_positive_float(raw, maximum) ==
    raw.num /\ raw.finite /\ raw.n > 0 /\ raw.n <= maximum

\* The same for a flag, or an environment variable, that may be absent.
OptionalInt(raw, minimum, maximum) ==
    raw # NULL => parse_int_bound(raw, minimum, maximum)

OptionalFloat(raw, maximum) == raw # NULL => parse_positive_float(raw, maximum)

parse_priority(raw) == parse_int_bound(raw, PRIORITY_MIN, PRIORITY_MAX)

job_id_arg(raw) == parse_int_bound(raw, 1, SQLITE_INT64_MAX)

-----------------------------------------------------------------------------
(* Times                                                                   *)

Multiplier(unit) ==
    CASE unit = "m" -> 60
      [] unit = "h" -> 3600
      [] unit = "d" -> 86400
      [] OTHER -> 1

\* The decimals of a span are unsigned, so no duration is negative.
duration_seconds(raw) == raw.n * Multiplier(raw.unit)

parse_duration_seconds(raw) ==
    /\ raw.unit \in {"none", "s", "m", "h", "d"}
    /\ raw.num /\ raw.n >= 0 /\ raw.finite
    /\ duration_seconds(raw) <= MAX_DURATION_SECONDS

\* dt.timestamp() raises outside the try: ValueError or OverflowError.
parse_at_raises(raw) == raw.kind = "extreme"

\* Seconds since the epoch, or a timestamp; both may lie before it.
parse_at(raw) ==
    /\ raw.kind \in {"epoch", "iso"}
    /\ raw.n <= MAX_DURATION_SECONDS /\ -raw.n <= MAX_DURATION_SECONDS

-----------------------------------------------------------------------------
(* Texts                                                                   *)

Fits(raw) == raw.size = "fits"

normalize_key(raw) == raw # NULL => Fits(raw) /\ raw.printable

parse_tag_key(raw) == Fits(raw) /\ raw.shape

\* KEY=VALUE pairs, each key once.
parse_add_tags(tags) ==
    /\ Len(tags) <= MAX_TAGS
    /\ \A i \in DOMAIN tags :
         /\ tags[i].value # NULL /\ tags[i].value.size # "long"
         /\ parse_tag_key(tags[i].key)
         /\ \A k \in DOMAIN tags : tags[k].name = tags[i].name => k = i

\* KEY or KEY=VALUE, any number of them.
parse_list_tags(tags) == \A i \in DOMAIN tags : parse_tag_key(tags[i].key)

\* K=V pairs; a later one replaces an earlier one.
parse_job_env(env) ==
    \A i \in DOMAIN env :
        /\ env[i].value # NULL
        /\ Fits(env[i].key) /\ ~env[i].key.nul
        /\ env[i].value.size # "long" /\ ~env[i].value.nul

parse_job_cwd(raw) == raw # NULL => Fits(raw) /\ ~raw.nul

parse_worker_id(raw) == raw # NULL => Fits(raw) /\ raw.printable

parse_queue(raw) == ~raw.padded /\ Fits(raw) /\ raw.shape

\* --state of list; "failed" is a known state that no job ever has.
parse_states(raw) == raw # NULL => raw \subseteq JobStates \cup {"failed"}

\* Mutant: prune takes every state that list knows.
parse_prune_states_Any(raw) == raw \subseteq JobStates \cup {"failed"}

parse_prune_states(raw) == raw \subseteq PrunableStates
=============================================================================
