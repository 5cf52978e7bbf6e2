----------------------------- MODULE Telemetry -----------------------------
(***************************************************************************)
(* Telemetry to the master plane (master_client/telemetry.py, client.py):  *)
(* build_batch checks the metrics of a batch, push_telemetry sends it.     *)
(* A value is its Python type, its text when it is a string, and the       *)
(* length of that text.                                                    *)
(***************************************************************************)
EXTENDS Naturals, Sequences, FiniteSets

CONSTANTS Value,        \* the values metrics may hold: [type, text, len]
          Plane,        \* values of the plane argument
          CountryCode,  \* values of the country_code argument: [text, len]
          MaxMetrics,   \* bound: metrics of a batch
          MaxBatches,   \* bound: batches built
          Mock          \* GATEWAY_MASTER_PLANE_MOCK

VARIABLES batch,        \* the batch in the caller's hands: its data, {} for none
          built,        \* batches built or refused so far
          refused,      \* TelemetryContentLeakErrors so far
          received      \* what the master plane has received

vars == <<batch, built, refused, received>>

Counters == {"request_count", "token_count_in", "token_count_out", "detection_count",
             "detection_count_tier_1", "detection_count_tier_2", "detection_count_tier_3",
             "exception_count", "latency_p50_ms", "latency_p99_ms",
             "window_start_epoch", "window_end_epoch"}
Names == {"rule_pack_version", "software_version", "country_code"}

TELEMETRY_ALLOWED_FIELDS == Counters \cup Names \cup {"vllm_up", "plan"}

_CATEGORICAL_VALUES == [plan |-> {"starter", "professional", "enterprise", "sovereign"}]

_name_in_whitelist(d) == d.name \in TELEMETRY_ALLOWED_FIELDS
_value_safe(d) == d.value.type = "str" => d.value.len <= 64
_validate_categorical(d) ==
  d.name \in DOMAIN _CATEGORICAL_VALUES =>
    d.value.type = "str" /\ d.value.text \in _CATEGORICAL_VALUES[d.name]

\* Field(pattern=...) and the length of the ISO code.
ValidHeader(plane, code) == plane \in {"country", "company"} /\ code.len = 2

\* The data of a batch from a dictionary of metrics: at most one value a name.
Data(metrics) == {[name |-> n, value |-> metrics[n]] : n \in DOMAIN metrics}
Field == TELEMETRY_ALLOWED_FIELDS \cup {"prompt_text"}
Metrics == UNION {[fs -> Value] : fs \in {f \in SUBSET Field : Cardinality(f) \in 1 .. MaxMetrics}}

Init == batch = {} /\ built = 0 /\ refused = 0 /\ received = {}

build_batch ==
  /\ batch = {} /\ built < MaxBatches
  /\ \E plane \in Plane, code \in CountryCode, metrics \in Metrics :
       IF /\ ValidHeader(plane, code)
          /\ \A d \in Data(metrics) :
               _name_in_whitelist(d) /\ _value_safe(d) /\ _validate_categorical(d)
       THEN batch' = Data(metrics) /\ UNCHANGED refused
       ELSE refused' = refused + 1 /\ UNCHANGED batch
  /\ built' = built + 1
  /\ UNCHANGED received

\* POST /telemetry; an error of the answer raises after the master has the body.
push_telemetry ==
  /\ batch # {}
  /\ received' = IF Mock THEN received ELSE received \cup batch
  /\ batch' = {}
  /\ UNCHANGED <<built, refused>>

\* The connection fails: the batch is lost, nothing is sent again.
PushFails == batch # {} /\ ~Mock /\ batch' = {} /\ UNCHANGED <<built, refused, received>>

Next == build_batch \/ push_telemetry \/ PushFails

Spec == Init /\ [][Next]_vars

-----------------------------------------------------------------------------
\* "Rejects any non-numeric, non-bool, non-enum-categorical value": strings
\* reach the master plane only as a plan, or in the three fields whose comments
\* provide for a version or a country code.
NoFreeText ==
  \A d \in received : d.value.type = "str" => d.name \in Names \cup DOMAIN _CATEGORICAL_VALUES
=============================================================================
