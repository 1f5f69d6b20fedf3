-------------------------- MODULE MCMqttReconnect --------------------------
(* Instances of MqttReconnect. *)
EXTENDS MqttReconnect

CONSTANTS t1, t2, t3, t4, main, callback

FourThreads == {t1, t2, t3, t4}

=============================================================================
