----------------------------- MODULE MCMqttClient -----------------------------
(* Three edits, two at a time, between two prefixes; three sessions.        *)
EXTENDS MqttClient

CONSTANTS murdock, other
=============================================================================
