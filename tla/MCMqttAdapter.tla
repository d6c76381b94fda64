----------------------------- MODULE MCMqttAdapter -----------------------------
EXTENDS MqttAdapter

=============================================================================
