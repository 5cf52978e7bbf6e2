---------------------------- MODULE MCTelemetry ----------------------------
\* Metrics with a number, a flag, a plan, a short text and a long one.
EXTENDS Telemetry

Str(text, len) == [type |-> "str", text |-> text, len |-> len]
MCValue == {[type |-> "int", text |-> "", len |-> 0], [type |-> "bool", text |-> "", len |-> 0],
            Str("enterprise", 10), Str("sentence", 64), Str("sentence", 65)}
MCCountryCode == {[text |-> "DZ", len |-> 2], [text |-> "DZA", len |-> 3]}
=============================================================================
