----------------------------- MODULE MCMqttSetup -----------------------------
EXTENDS MqttSetup
=============================================================================
