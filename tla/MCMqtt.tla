------------------------------- MODULE MCMqtt -------------------------------
(* Instances of the MQTT client for TLC.                                    *)
EXTENDS MqttClient

Times(event, break, refuse, reject, reload) ==
  [o \in Occasion |-> CASE o = "event"  -> event
                        [] o = "break"  -> break
                        [] o = "refuse" -> refuse
                        [] o = "reject" -> reject
                        [] o = "reload" -> reload]

\* QoS 0 with one of each fault and any session; QoS 1 with sessions kept, two
\* breaks and no reload.
FaultySetups ==
  {[qos |-> 0, sessionKept |-> BOOLEAN, budget |-> Times(3, 1, 1, 1, 1)],
   [qos |-> 1, sessionKept |-> {TRUE}, budget |-> Times(2, 2, 0, 1, 0)]}

ReloadSetups ==
  {[qos |-> 0, sessionKept |-> BOOLEAN, budget |-> Times(2, 0, 0, 0, 1)]}
=============================================================================
